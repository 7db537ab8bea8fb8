------------------------ MODULE ConnectionPoolProofs ------------------------
(***************************************************************************)
(* What ConnectionPool claims for any number of agents and connections,    *)
(* any pool size, any number of lost connections and torn updates:         *)
(* types, that no two objects work on one connection, what the counter     *)
(* counts, how many connections the race for a shared one can lose, and    *)
(* that the pool is a ConnectionLeases.                                    *)
(*                                                                         *)
(* Exclusive needs to know who works for whom (Control).  Nothing in the   *)
(* code locks an object: two threads do not release one object because     *)
(* updateAgents initialises an agent before it has a thread, and because   *)
(* the one object that all threads share is never released.                *)
(***************************************************************************)
EXTENDS ConnectionPool, FiniteSetTheorems, TLAPS

Steps == GrabSteps \cup ReleaseSteps

\* The objects a thread works for
Works(t) == IF t = "main" THEN Agents \cup {"manager", "alerter"}
            ELSE IF t = "aggregator" THEN {"aggregator"}
            ELSE {t, "alerter"}

In(t) == pc[t] \in Steps

Owns       == \A t \in Threads : In(t) => call[t].obj \in Works(t)
NoAlerter  == \A t \in Threads : pc[t] \in ReleaseSteps => call[t].obj # "alerter"
\* The agent that main works for has no thread yet
Alone      == In("main") /\ call["main"].obj \in Agents => pc[call["main"].obj] = "off"
Started    == \A a \in Agents : pc[a] # "off" => a \in known
Initialises ==
    pc["main"] = "swagger" \/ (In("main") /\ call["main"].next = "swagger")
        => agent \in known /\ pc[agent] = "off"

Control == Owns /\ NoAlerter /\ Alone /\ Started /\ Initialises

\* What is to be put back is there
HasOne == \A t \in Threads : pc[t] = "put" => db[call[t].obj] # None

Typed ==
    /\ usedCount \in 0..(Wrap - 1)
    /\ used \subseteq Conns
    /\ db \in [Objects -> Conns \cup {None}]
    /\ pc \in [Threads -> Places \cup Steps]
    /\ call \in [Threads -> [obj : Objects, next : Places]]
    /\ reg \in [Threads -> 0..(Wrap - 1)]
    /\ known \subseteq Agents /\ ready \subseteq known /\ agent \in Agents \cup {None}
    /\ races \in 0..MaxMishaps /\ losses \in 0..MaxMishaps /\ leaked \in 0..losses

Inv == Typed /\ Control /\ HasOne /\ Exclusive

-----------------------------------------------------------------------------
LEMMA ConstantFacts ==
    /\ PoolSize \in Nat /\ MaxMishaps \in Nat
    /\ Wrap \in Nat /\ Wrap > 0
    /\ Conns \subseteq Nat /\ None \notin Conns /\ None \notin Agents
    /\ "main" \notin Agents /\ "aggregator" \notin Agents
    /\ "manager" \notin Agents /\ "alerter" \notin Agents
  BY PoolAssumption

LEMMA NamesApart ==
    /\ Threads = Agents \cup {"main", "aggregator"}
    /\ Objects = Agents \cup {"manager", "aggregator", "alerter"}
    /\ \A p \in Places : p \notin Steps
    /\ GrabSteps \subseteq Steps /\ ReleaseSteps \subseteq Steps
    /\ GrabSteps \cap ReleaseSteps = {}
  BY DEF Threads, Objects, Places, Steps, GrabSteps, ReleaseSteps

LEMMA CounterType ==
    ASSUME NEW n \in 0..(Wrap - 1)
    PROVE  Plus(n) \in 0..(Wrap - 1) /\ Minus(n) \in 0..(Wrap - 1)
<1>1. n + 1 \in Int /\ n - 1 \in Int /\ Wrap \in Nat /\ Wrap > 0
  BY ConstantFacts
<1>2. \A m \in Int : m % Wrap \in 0..(Wrap - 1)
  BY <1>1
<1> QED
  BY <1>1, <1>2 DEF Plus, Minus

\* A process that has just started, the first one or a later one
Blank ==
    /\ usedCount = 0 /\ used = {} /\ leaked = 0
    /\ db = NobodyHas /\ pc = MainOnly /\ call = NoCalls /\ reg = Zeros
    /\ known = {} /\ ready = {} /\ agent = None
    /\ races = 0 /\ losses \in 0..MaxMishaps

LEMMA InitBlank == Init => Blank
  BY ConstantFacts DEF Init, Blank

LEMMA RestartBlank == ASSUME Inv, NEW t \in Threads, Refused(t) PROVE Blank'
  BY ConstantFacts DEF Refused, Restart, Loss, Blank, Inv, Typed

LEMMA BlankInv == Blank => Inv
<1> SUFFICES ASSUME Blank PROVE Inv
  OBVIOUS
<1>1. Typed
  BY ConstantFacts
     DEF Blank, NobodyHas, MainOnly, NoCalls, Zeros, Typed, NoCall, Objects, Threads, Places, Steps
<1>2. Control
  BY ConstantFacts, NamesApart
     DEF Blank, MainOnly, Control, Owns, NoAlerter, Alone, Started, Initialises, In, Steps,
         GrabSteps, ReleaseSteps
<1>3. HasOne /\ Exclusive
  BY DEF Blank, NobodyHas, MainOnly, HasOne, Exclusive, Held
<1> QED
  BY <1>1, <1>2, <1>3 DEF Inv

LEMMA RestartInv == ASSUME Inv, NEW t \in Threads, Refused(t) PROVE Inv'
<1>1. Blank'
  BY RestartBlank
<1>2. (Blank => Inv)'
  BY BlankInv, PTL
<1> QED
  BY <1>1, <1>2

-----------------------------------------------------------------------------
(***************************************************************************)
(* Places and calls                                                        *)
(***************************************************************************)
\* How one thread moves: within a call, out of it, into one, or outside
Within(t) ==
    /\ UNCHANGED call /\ In(t) /\ In(t)'
    /\ \/ {pc[t], pc'[t]} \subseteq GrabSteps
       \/ {pc[t], pc'[t]} \subseteq ReleaseSteps
Leaves(t) == In(t) /\ pc'[t] = call[t].next /\ call' = [call EXCEPT ![t] = NoCall]
Enters(t, o, p, step) ==
    /\ ~ In(t) /\ step \in {"wait", "put"} /\ pc'[t] = step
    /\ call' = [call EXCEPT ![t] = [obj |-> o, next |-> p]]
Moves(t, p) == ~ In(t) /\ pc'[t] = p /\ UNCHANGED call

Moved(t) == pc' = [pc EXCEPT ![t] = pc'[t]] /\ pc[t] # "off"

LEMMA WithinControl ==
    ASSUME Typed, Control, NEW t \in Threads, Moved(t), Within(t), UNCHANGED <<known, agent>>
    PROVE  Control' /\ pc' \in [Threads -> Places \cup Steps]
                    /\ call' \in [Threads -> [obj : Objects, next : Places]]
<1>1. pc' \in [Threads -> Places \cup Steps]
      /\ call' \in [Threads -> [obj : Objects, next : Places]]
  BY DEF Typed, Moved, Within, In
<1>2. Owns' /\ NoAlerter' /\ Started'
  BY NamesApart DEF Typed, Control, Owns, NoAlerter, Started, Moved, Within, In
<1>3. \A a \in Agents : pc[a] = "off" => pc'[a] = "off"
  BY NamesApart DEF Typed, Moved
<1>4. In("main")' => In("main")
  BY NamesApart DEF Typed, Moved, Within, In
<1>5. pc'["main"] = "swagger" => pc["main"] = "swagger"
  BY NamesApart DEF Typed, Moved, Within, In, Places
<1>6. Alone' /\ Initialises'
  BY <1>3, <1>4, <1>5 DEF Typed, Control, Alone, Initialises, Within
<1> QED
  BY <1>1, <1>2, <1>6 DEF Control

LEMMA LeavesControl ==
    ASSUME Typed, Control, NEW t \in Threads, Moved(t), Leaves(t), UNCHANGED <<known, agent>>
    PROVE  Control' /\ pc' \in [Threads -> Places \cup Steps]
                    /\ call' \in [Threads -> [obj : Objects, next : Places]]
<1>1. call[t].next \in Places /\ ~ In(t)'
  BY NamesApart DEF Typed, Leaves, In
<1>2. NoCall \in [obj : Objects, next : Places]
  BY NamesApart DEF NoCall, Places
<1>3. pc' \in [Threads -> Places \cup Steps]
      /\ call' \in [Threads -> [obj : Objects, next : Places]]
  BY <1>1, <1>2 DEF Typed, Moved, Leaves
<1>4. \A u \in Threads : u # t => pc'[u] = pc[u] /\ call'[u] = call[u]
  BY DEF Typed, Moved, Leaves
<1>5. Owns' /\ NoAlerter'
  BY <1>1, <1>4, NamesApart DEF Control, Owns, NoAlerter, In
<1>6. Started'
  BY <1>4, NamesApart DEF Control, Started, Moved
<1>7. \A a \in Agents : pc[a] = "off" => pc'[a] = "off"
  BY <1>4, NamesApart DEF Moved
<1>8. Alone'
  BY <1>1, <1>4, <1>7, NamesApart DEF Control, Alone, In
<1>9. Initialises'
  BY <1>1, <1>4, <1>7, NamesApart DEF Typed, Control, Initialises, Leaves, In
<1> QED
  BY <1>3, <1>5, <1>6, <1>8, <1>9 DEF Control

LEMMA EntersControl ==
    ASSUME Typed, Control, NEW t \in Threads, NEW o \in Works(t), NEW p \in Places, NEW step,
           Moved(t), Enters(t, o, p, step), step = "put" => o # "alerter",
           known \subseteq known', known' \subseteq Agents,
           t = "main" /\ o \in Agents => pc[o] = "off",
           t = "main" /\ p = "swagger" => agent' \in known' /\ pc[agent'] = "off",
           t # "main" => agent' = agent
    PROVE  Control' /\ pc' \in [Threads -> Places \cup Steps]
                    /\ call' \in [Threads -> [obj : Objects, next : Places]]
<1>1. o \in Objects /\ step \in Steps /\ In(t)'
  BY NamesApart DEF Works, Enters, Steps, GrabSteps, ReleaseSteps, In
<1>2. pc' \in [Threads -> Places \cup Steps]
      /\ call' \in [Threads -> [obj : Objects, next : Places]]
  BY <1>1 DEF Typed, Moved, Enters
<1>3. \A u \in Threads : u # t => pc'[u] = pc[u] /\ call'[u] = call[u]
  BY DEF Typed, Moved, Enters
<1>4. call'[t] = [obj |-> o, next |-> p] /\ pc'[t] = step
  BY DEF Typed, Enters
<1>5. Owns' /\ NoAlerter'
  <2>1. step \in ReleaseSteps => step = "put"
    BY DEF Enters, ReleaseSteps
  <2> QED
    BY <1>3, <1>4, <2>1 DEF Control, Owns, NoAlerter, In
<1>6. Started'
  BY <1>3, NamesApart DEF Control, Started, Moved
<1>7. \A a \in Agents : pc[a] = "off" => pc'[a] = "off"
  BY <1>3, NamesApart DEF Moved
<1>8. Alone'
  BY <1>3, <1>4, <1>7, NamesApart DEF Control, Alone, In
<1>9. Initialises'
  BY <1>1, <1>3, <1>4, <1>7, NamesApart DEF Control, Initialises, In, Places
<1> QED
  BY <1>2, <1>5, <1>6, <1>8, <1>9 DEF Control

LEMMA MovesControl ==
    ASSUME Typed, Control, NEW t \in Threads, NEW p \in Places, Moved(t), Moves(t, p),
           known \subseteq known', known' \subseteq Agents,
           t = "main" /\ p = "swagger" => agent' \in known' /\ pc[agent'] = "off",
           t # "main" => agent' = agent
    PROVE  Control' /\ pc' \in [Threads -> Places \cup Steps]
                    /\ call' \in [Threads -> [obj : Objects, next : Places]]
<1>1. ~ In(t)' /\ pc'[t] = p
  BY NamesApart DEF Moves, In
<1>2. pc' \in [Threads -> Places \cup Steps]
      /\ call' \in [Threads -> [obj : Objects, next : Places]]
  BY <1>1 DEF Typed, Moved, Moves
<1>3. \A u \in Threads : u # t => pc'[u] = pc[u]
  BY DEF Typed, Moved
<1>4. Owns' /\ NoAlerter'
  BY <1>1, <1>3, NamesApart DEF Control, Owns, NoAlerter, Moves, In
<1>5. Started'
  BY <1>3, NamesApart DEF Control, Started, Moved
<1>6. \A a \in Agents : pc[a] = "off" => pc'[a] = "off"
  BY <1>3, NamesApart DEF Moved
<1>7. Alone'
  BY <1>1, <1>3, <1>6, NamesApart DEF Control, Alone, Moves, In
<1>8. Initialises'
  BY <1>1, <1>3, <1>6, NamesApart DEF Control, Initialises, Moves, In
<1> QED
  BY <1>2, <1>4, <1>5, <1>7, <1>8 DEF Control

-----------------------------------------------------------------------------
(***************************************************************************)
(* grab() and release()                                                    *)
(***************************************************************************)
Uncounting(o) == \E u \in Threads : pc[u] \in {"uncount", "uncount2"} /\ call[u].obj = o

LEMMA HeldDef ==
    \A o \in Objects : /\ Held(o) = (IF Uncounting(o) THEN None ELSE db[o])
                       /\ Held(o)' = (IF Uncounting(o)' THEN None ELSE db'[o])
<1>1. \A o : (\E t \in At({"uncount", "uncount2"}) : call[t].obj = o) <=> Uncounting(o)
  BY DEF Uncounting, At
<1>2. \A o : (\E t \in At({"uncount", "uncount2"})' : call'[t].obj = o) <=> Uncounting(o)'
  BY DEF Uncounting, At
<1> QED
  BY <1>1, <1>2 DEF Held

\* No other thread is in a call for the object that a thread is about to give back
LEMMA NotShared ==
    ASSUME Typed, Control, NEW t \in Threads, NEW u \in Threads, u # t, In(t), In(u),
           call[t].obj # "alerter"
    PROVE  call[u].obj # call[t].obj
<1>1. call[t].obj \in Works(t) /\ call[u].obj \in Works(u)
  BY DEF Control, Owns
<1>2. \A a \in Agents : In(a) => pc[a] # "off"
  BY NamesApart DEF In, Places
<1> QED
  BY <1>1, <1>2, NamesApart, ConstantFacts DEF Control, Alone, Works

LEMMA WaitInv == ASSUME Inv, NEW t \in Threads, Wait(t) PROVE Inv'
<1>1. Moved(t) /\ Within(t) /\ UNCHANGED <<pool, db, counter, known, ready, agent>>
  BY NamesApart DEF Wait, Goto, manager, Inv, Typed, Moved, Within, In, GrabSteps, Steps
<1>2. Control' /\ Typed'
  BY <1>1, WithinControl DEF Inv, Typed, pool, counter
<1>3. HasOne' /\ Exclusive'
  BY <1>1 DEF Inv, Typed, HasOne, Exclusive, Held, At, Wait, Goto, pool
<1> QED
  BY <1>2, <1>3 DEF Inv

LEMMA CountUpInv == ASSUME Inv, NEW t \in Threads, CountUp(t) PROVE Inv'
<1>1. /\ Moved(t) /\ Within(t) /\ UNCHANGED <<used, leaked, losses, db, known, ready, agent>>
      /\ pc'[t] \in {"take", "count2"} /\ pc[t] \in {"count", "count2"}
  BY NamesApart
     DEF CountUp, Preempted, Goto, manager, Inv, Typed, Moved, Within, In, GrabSteps, Steps
<1>2. usedCount' \in 0..(Wrap - 1) /\ reg' \in [Threads -> 0..(Wrap - 1)] /\ races' \in 0..MaxMishaps
  <2>1. Plus(usedCount) \in 0..(Wrap - 1) /\ Plus(reg[t]) \in 0..(Wrap - 1)
    BY CounterType DEF Inv, Typed
  <2>2. 0 \in 0..(Wrap - 1)
    BY ConstantFacts
  <2> QED
    BY <2>1, <2>2, ConstantFacts DEF Inv, Typed, CountUp, Preempted, counter
<1>3. Control' /\ Typed'
  BY <1>1, <1>2, WithinControl DEF Inv, Typed
<1>4. HasOne' /\ Exclusive'
  BY <1>1 DEF Inv, Typed, HasOne, Exclusive, Held, At, Moved, Within
<1> QED
  BY <1>3, <1>4 DEF Inv

LEMMA TakeFacts ==
    ASSUME Inv, NEW t \in Threads, Take(t), NEW o \in Objects, o = call[t].obj
    PROVE  /\ pc[t] = "take" /\ Moved(t) /\ Leaves(t) /\ ~ In(t)'
           /\ UNCHANGED <<usedCount, leaked, losses, counter, known, ready, agent>>
           /\ \A x \in Objects : x # o => Held(x)' = Held(x)
           /\ \E c \in Conns : /\ c \notin used /\ c # None
                              /\ used' = used \cup {c}
                              /\ db' = [db EXCEPT ![o] = c]
<1>1. /\ pc[t] = "take" /\ Moved(t) /\ Leaves(t)
      /\ UNCHANGED <<usedCount, leaked, losses, counter, known, ready, agent>>
  BY NamesApart DEF Take, Return, Goto, manager, Inv, Typed, Moved, Leaves, In, GrabSteps, Steps
<1>2. PICK c \in Handed : used' = used \cup {c} /\ db' = [db EXCEPT ![o] = c]
  BY DEF Take
<1>3. c \in Conns /\ c \notin used /\ c # None
  BY ConstantFacts DEF Handed
<1>4. ~ In(t)' /\ \A u \in Threads : u # t => pc'[u] = pc[u] /\ call'[u] = call[u]
  BY <1>1, NamesApart DEF Inv, Typed, Moved, Leaves, In
<1>5. \A x \in Objects : Uncounting(x)' = Uncounting(x)
  BY <1>1, <1>4, NamesApart DEF Uncounting, In, Steps, ReleaseSteps
<1>6. \A x \in Objects : x # o => Held(x)' = Held(x)
  BY <1>2, <1>5, HeldDef DEF Inv, Typed
<1> QED
  BY <1>1, <1>2, <1>3, <1>4, <1>6

LEMMA TakeInv == ASSUME Inv, NEW t \in Threads, Take(t) PROVE Inv'
<1>1. PICK o \in Objects : o = call[t].obj
  BY DEF Inv, Typed
<1>2. /\ Moved(t) /\ Leaves(t) /\ ~ In(t)'
      /\ UNCHANGED <<usedCount, leaked, losses, counter, known, ready, agent>>
      /\ \A x \in Objects : x # o => Held(x)' = Held(x)
  BY <1>1, TakeFacts
<1>3. PICK c \in Conns : /\ c \notin used /\ c # None
                        /\ used' = used \cup {c} /\ db' = [db EXCEPT ![o] = c]
  BY <1>1, TakeFacts
<1>4. Control' /\ Typed'
  BY <1>2, <1>3, LeavesControl DEF Inv, Typed, counter
<1>5. \A u \in Threads : u # t => pc'[u] = pc[u] /\ call'[u] = call[u]
  BY <1>2 DEF Inv, Typed, Moved, Leaves
<1>6. HasOne'
  BY <1>2, <1>3, <1>5, NamesApart DEF Inv, Typed, HasOne, In, ReleaseSteps
<1>7. Held(o)' \in {None, c}
  BY <1>3, HeldDef DEF Inv, Typed
<1>8. \A x \in Objects : Held(x) # None => Held(x) # c /\ Held(x) \in Conns
  BY <1>3, HeldDef DEF Inv, Typed, Exclusive
<1>9. Exclusive'
  BY <1>2, <1>3, <1>7, <1>8 DEF Inv, Typed, Exclusive
<1> QED
  BY <1>4, <1>6, <1>9 DEF Inv

LEMMA LossType ==
    ASSUME Typed, Loss, leaked' = leaked + 1
    PROVE  losses' \in 0..MaxMishaps /\ leaked' \in 0..losses' /\ leaked' = leaked + 1
  BY ConstantFacts DEF Typed, Loss

LEMMA TakeDeadInv == ASSUME Inv, NEW t \in Threads, TakeDead(t) PROVE Inv'
<1>1. /\ pc[t] = "take" /\ pc'[t] = "wait" /\ Moved(t) /\ Within(t)
      /\ losses' \in 0..MaxMishaps /\ leaked' \in 0..losses'
      /\ UNCHANGED <<usedCount, used, db, counter, known, ready, agent>>
  BY LossType, NamesApart
     DEF TakeDead, Goto, Inv, Typed, Moved, Within, In, GrabSteps, Steps, manager
<1>2. Control' /\ Typed'
  BY <1>1, WithinControl DEF Inv, Typed, counter
<1>3. HasOne' /\ Exclusive'
  BY <1>1 DEF Inv, Typed, HasOne, Exclusive, Held, At, Moved, Within
<1> QED
  BY <1>2, <1>3 DEF Inv

LEMMA InitRefusedFacts ==
    ASSUME Inv, NEW t \in Threads, InitRefused(t)
    PROVE  /\ pc[t] = "take" /\ pc'[t] = "beat" /\ Moved(t) /\ In(t)
           /\ call' = [call EXCEPT ![t] = NoCall] /\ agent' = None
           /\ losses' \in 0..MaxMishaps /\ leaked' \in 0..losses' /\ leaked' = leaked + 1
           /\ UNCHANGED <<usedCount, used, db, counter, known, ready>>
           /\ \A o \in Objects : Held(o)' = Held(o)
<1>1. /\ pc[t] = "take" /\ pc'[t] = "beat" /\ Moved(t) /\ In(t)
      /\ call' = [call EXCEPT ![t] = NoCall] /\ agent' = None
      /\ losses' \in 0..MaxMishaps /\ leaked' \in 0..losses' /\ leaked' = leaked + 1
      /\ UNCHANGED <<usedCount, used, db, counter, known, ready>>
  BY LossType, NamesApart
     DEF InitRefused, Goto, Inv, Typed, Moved, In, GrabSteps, Steps
<1>2. \A u \in Threads : u # t => pc'[u] = pc[u] /\ call'[u] = call[u]
  BY <1>1 DEF Inv, Typed, Moved
<1>3. \A o \in Objects : Uncounting(o)' = Uncounting(o)
  BY <1>1, <1>2 DEF Uncounting
<1> QED
  BY <1>1, <1>3, HeldDef

LEMMA InitRefusedInv == ASSUME Inv, NEW t \in Threads, InitRefused(t) PROVE Inv'
<1>1. /\ pc[t] = "take" /\ pc'[t] = "beat" /\ Moved(t) /\ In(t)
      /\ call' = [call EXCEPT ![t] = NoCall] /\ agent' = None
      /\ losses' \in 0..MaxMishaps /\ leaked' \in 0..losses'
      /\ UNCHANGED <<usedCount, used, db, counter, known, ready>>
      /\ \A o \in Objects : Held(o)' = Held(o)
  BY InitRefusedFacts
<1>0. t = "main"
  BY DEF InitRefused, Initialising
<1>2. "beat" \in Places \ {"off", "swagger"} /\ NoCall \in [obj : Objects, next : Places]
      /\ NoCall.next # "swagger"
  BY NamesApart DEF NoCall, Places
<1>3. \A u \in Threads : u # t => pc'[u] = pc[u] /\ call'[u] = call[u]
  BY <1>1 DEF Inv, Typed, Moved
<1>4. ~ In(t)'
  BY <1>1, <1>2, NamesApart DEF In
<1>5. Typed'
  BY <1>1, <1>2 DEF Inv, Typed, Moved, counter
<1>6. Owns' /\ NoAlerter' /\ Started'
  BY <1>1, <1>2, <1>3, <1>4, NamesApart DEF Inv, Control, Owns, NoAlerter, Started, In, Moved
<1>7. Alone' /\ Initialises'
  BY <1>0, <1>1, <1>2, <1>4, NamesApart DEF Alone, Initialises, In
<1>8. HasOne' /\ Exclusive'
  BY <1>1, <1>3 DEF Inv, HasOne, Exclusive
<1> QED
  BY <1>5, <1>6, <1>7, <1>8 DEF Inv, Control

LEMMA PutFacts ==
    ASSUME Inv, NEW t \in Threads, Put(t), NEW o \in Objects, o = call[t].obj
    PROVE  /\ pc[t] = "put" /\ pc'[t] = "uncount" /\ Moved(t) /\ Within(t)
           /\ used' = used \ {db[o]}
           /\ UNCHANGED <<usedCount, leaked, losses, db, counter, known, ready, agent>>
           /\ o # "alerter" /\ db[o] # None /\ Held(o) = db[o] /\ Held(o)' = None
           /\ \A x \in Objects : x # o => Held(x)' = Held(x)
<1>1. /\ pc[t] = "put" /\ pc'[t] = "uncount" /\ Moved(t) /\ Within(t)
      /\ used' = used \ {db[o]}
      /\ UNCHANGED <<usedCount, leaked, losses, db, counter, known, ready, agent>>
  BY NamesApart DEF Put, Goto, manager, Inv, Typed, Moved, Within, In, ReleaseSteps, Steps
<1>2. o # "alerter" /\ db[o] # None
  BY <1>1 DEF Inv, Typed, Control, NoAlerter, HasOne, ReleaseSteps
<1>3. \A u \in Threads : u # t => pc'[u] = pc[u]
  BY <1>1 DEF Inv, Typed, Moved
<1>4. Held(o) = db[o]
  <2>1. ~ Uncounting(o)
    BY <1>1, <1>2, NotShared, NamesApart DEF Uncounting, Inv, In, Steps, ReleaseSteps
  <2> QED
    BY <2>1, HeldDef
<1>5. Held(o)' = None
  BY <1>1, HeldDef DEF Uncounting, Within
<1>6. \A x \in Objects : x # o => Held(x)' = Held(x)
  <2>1. \A x \in Objects : x # o => Uncounting(x)' = Uncounting(x)
    BY <1>1, <1>3 DEF Uncounting, Within
  <2> QED
    BY <1>1, <2>1, HeldDef
<1> QED
  BY <1>1, <1>2, <1>4, <1>5, <1>6

LEMMA PutInv == ASSUME Inv, NEW t \in Threads, Put(t) PROVE Inv'
<1>1. PICK o \in Objects : o = call[t].obj
  BY DEF Inv, Typed
<1>2. /\ pc'[t] = "uncount" /\ Moved(t) /\ Within(t)
      /\ used' = used \ {db[o]}
      /\ UNCHANGED <<usedCount, leaked, losses, db, counter, known, ready, agent>>
      /\ db[o] # None /\ Held(o) = db[o] /\ Held(o)' = None
      /\ \A x \in Objects : x # o => Held(x)' = Held(x)
  BY <1>1, PutFacts
<1>3. Control' /\ Typed'
  BY <1>2, WithinControl DEF Inv, Typed, counter
<1>4. \A x \in Objects : x # o /\ Held(x) # None => Held(x) # db[o] /\ Held(x) \in Conns
  BY <1>2, HeldDef DEF Inv, Typed, Exclusive
<1>5. Exclusive'
  BY <1>2, <1>4 DEF Inv, Typed, Exclusive
<1>6. HasOne'
  <2>1. \A u \in Threads : u # t => pc'[u] = pc[u]
    BY <1>2 DEF Inv, Typed, Moved
  <2> QED
    BY <1>2, <2>1 DEF Inv, HasOne, Within
<1> QED
  BY <1>3, <1>5, <1>6 DEF Inv

LEMMA CountDownFacts ==
    ASSUME Inv, NEW t \in Threads, CountDown(t), NEW o \in Objects, o = call[t].obj
    PROVE  /\ pc[t] \in {"uncount", "uncount2"} /\ Moved(t) /\ In(t) /\ o # "alerter"
           /\ UNCHANGED <<used, leaked, losses, known, ready, agent>>
           /\ \/ pc'[t] = "uncount2" /\ Within(t) /\ UNCHANGED db
              \/ Leaves(t) /\ db' = [db EXCEPT ![o] = None]
           /\ Held(o) = None /\ \A x \in Objects : Held(x)' = Held(x)
<1>1. /\ pc[t] \in {"uncount", "uncount2"} /\ Moved(t) /\ In(t)
      /\ UNCHANGED <<used, leaked, losses, known, ready, agent>>
      /\ \/ pc'[t] = "uncount2" /\ Within(t) /\ UNCHANGED db
         \/ Leaves(t) /\ db' = [db EXCEPT ![o] = None]
  BY NamesApart
     DEF CountDown, Preempted, ForgetPointer, Return, Goto, manager, Inv, Typed, Moved, Within, Leaves,
         In, ReleaseSteps, Steps
<1>2. o # "alerter"
  BY <1>1 DEF Inv, Typed, Control, NoAlerter, ReleaseSteps
<1>3. \A u \in Threads : u # t => pc'[u] = pc[u] /\ call'[u] = call[u]
  BY <1>1 DEF Inv, Typed, Moved, Within, Leaves
<1>4. Held(o) = None
  BY <1>1, HeldDef DEF Uncounting
<1>5. Held(o)' = None
  <2>1. CASE Within(t) /\ pc'[t] = "uncount2"
    BY <2>1, HeldDef DEF Uncounting, Within
  <2>2. CASE db' = [db EXCEPT ![o] = None]
    BY <2>2, HeldDef DEF Inv, Typed
  <2> QED
    BY <1>1, <2>1, <2>2
<1>6. \A x \in Objects : x # o => Held(x)' = Held(x)
  <2>1. \A x \in Objects : x # o => db'[x] = db[x]
    BY <1>1 DEF Inv, Typed
  <2>2. pc'[t] \in {"uncount", "uncount2"} => call'[t] = call[t]
    BY <1>1, NamesApart DEF Within, Leaves, Inv, Typed, Steps, ReleaseSteps
  <2>3. \A x \in Objects : x # o => Uncounting(x)' = Uncounting(x)
    BY <1>1, <1>3, <2>2 DEF Uncounting
  <2> QED
    BY <2>1, <2>3, HeldDef
<1> QED
  BY <1>1, <1>2, <1>4, <1>5, <1>6

LEMMA CountDownInv == ASSUME Inv, NEW t \in Threads, CountDown(t) PROVE Inv'
<1>1. PICK o \in Objects : o = call[t].obj
  BY DEF Inv, Typed
<1>2. /\ pc[t] \in {"uncount", "uncount2"} /\ Moved(t) /\ In(t) /\ o # "alerter"
      /\ UNCHANGED <<used, leaked, losses, known, ready, agent>>
      /\ \/ pc'[t] = "uncount2" /\ Within(t) /\ UNCHANGED db
         \/ Leaves(t) /\ db' = [db EXCEPT ![o] = None]
      /\ \A x \in Objects : Held(x)' = Held(x)
  BY <1>1, CountDownFacts
<1>3. usedCount' \in 0..(Wrap - 1) /\ reg' \in [Threads -> 0..(Wrap - 1)] /\ races' \in 0..MaxMishaps
  <2>1. Minus(usedCount) \in 0..(Wrap - 1) /\ Minus(reg[t]) \in 0..(Wrap - 1)
    BY CounterType DEF Inv, Typed
  <2>2. 0 \in 0..(Wrap - 1)
    BY ConstantFacts
  <2> QED
    BY <2>1, <2>2, ConstantFacts DEF Inv, Typed, CountDown, Preempted, counter
<1>4. db' \in [Objects -> Conns \cup {None}]
  BY <1>2 DEF Inv, Typed
<1>5. Control' /\ Typed'
  BY <1>2, <1>3, <1>4, WithinControl, LeavesControl DEF Inv, Typed
<1>6. Exclusive'
  BY <1>2 DEF Inv, Exclusive
<1>7. HasOne'
  <2> SUFFICES ASSUME NEW u \in Threads, pc'[u] = "put" PROVE db'[call'[u].obj] # None
    BY DEF HasOne
  <2>1. pc'[t] # "put"
    BY <1>2, NamesApart DEF Leaves, Inv, Typed, Steps, ReleaseSteps
  <2>2. \A v \in Threads : v # t => pc'[v] = pc[v] /\ call'[v] = call[v]
    BY <1>2 DEF Inv, Typed, Moved, Within, Leaves
  <2>3. u # t /\ pc[u] = "put" /\ call'[u] = call[u] /\ db[call[u].obj] # None
    BY <2>1, <2>2 DEF Inv, HasOne
  <2>4. call[u].obj # o
    BY <1>1, <1>2, <2>3, NotShared, NamesApart DEF Inv, In, Steps, ReleaseSteps
  <2> QED
    BY <1>2, <2>3, <2>4 DEF Inv, Typed
<1> QED
  BY <1>5, <1>6, <1>7 DEF Inv

-----------------------------------------------------------------------------
(***************************************************************************)
(* The callers                                                             *)
(***************************************************************************)
Kept == UNCHANGED <<pool, db, counter>>

\* A step outside grab() and release() leaves what they work on alone
LEMMA OutsideInv ==
    ASSUME Inv, Kept, Control', NEW t \in Threads, Moved(t), ~ In(t),
           \A u \in Threads : u # t => call'[u] = call[u],
           pc'[t] \in Places \cup {"wait"} \/ (pc'[t] = "put" /\ db[call'[t].obj] # None),
           pc' \in [Threads -> Places \cup Steps],
           call' \in [Threads -> [obj : Objects, next : Places]],
           known' \subseteq Agents, ready' \subseteq known', agent' \in Agents \cup {None}
    PROVE  Inv'
<1>1. Typed'
  BY DEF Inv, Typed, Kept, pool, counter
<1>2. \A u \in Threads : u # t => pc'[u] = pc[u]
  BY DEF Inv, Typed, Moved
<1>3. HasOne'
  BY <1>2, NamesApart DEF Inv, HasOne, Kept, Steps, ReleaseSteps
<1>4. \A o \in Objects : Uncounting(o)' = Uncounting(o)
  <2>1. pc[t] \notin {"uncount", "uncount2"} /\ pc'[t] \notin {"uncount", "uncount2"}
    BY NamesApart DEF In, Steps, ReleaseSteps
  <2> QED
    BY <1>2, <2>1 DEF Uncounting
<1>5. \A o \in Objects : Held(o)' = Held(o)
  BY <1>4, HeldDef DEF Kept
<1>6. Exclusive'
  BY <1>5 DEF Inv, Exclusive, Kept, pool
<1> QED
  BY <1>1, <1>3, <1>6 DEF Inv

\* A caller that is at place, and asks for or gives back o, or goes on without
LEMMA CallerInv ==
    ASSUME Inv, Kept, NEW t \in Threads, pc[t] \in Places \ {"off"},
           NEW o \in Works(t), NEW p \in Places,
           Grab(t, o, p) \/ (o # "alerter" /\ Release(t, o, p)) \/ (Goto(t, p) /\ UNCHANGED call),
           known \subseteq known', known' \subseteq Agents, ready' \subseteq known',
           agent' \in Agents \cup {None},
           t = "main" /\ o \in Agents => pc[o] = "off",
           t = "main" /\ p = "swagger" => agent' \in known' /\ pc[agent'] = "off",
           t # "main" => agent' = agent
    PROVE  Inv'
<1>1. Moved(t) /\ ~ In(t)
  BY NamesApart DEF Grab, Release, Call, Goto, Inv, Typed, Moved, In, GrabSteps, ReleaseSteps, Steps
<1>2. CASE Goto(t, p) /\ UNCHANGED call
  <2>1. Moves(t, p)
    BY <1>1, <1>2 DEF Goto, Moves, Inv, Typed
  <2>2. Control' /\ pc' \in [Threads -> Places \cup Steps]
        /\ call' \in [Threads -> [obj : Objects, next : Places]]
    BY <1>1, <2>1, MovesControl DEF Inv
  <2> QED
    BY <1>1, <1>2, <2>1, <2>2, OutsideInv DEF Moves
<1>3. ASSUME NEW step \in {"wait", "put"}, Call(t, o, p, step),
             step = "put" => o # "alerter" /\ db[o] # None
      PROVE  Inv'
  <2>1. Enters(t, o, p, step)
    BY <1>1, <1>3 DEF Call, Goto, Enters, Inv, Typed
  <2>2. Control' /\ pc' \in [Threads -> Places \cup Steps]
        /\ call' \in [Threads -> [obj : Objects, next : Places]]
    BY <1>1, <1>3, <2>1, EntersControl DEF Inv
  <2>3. call'[t].obj = o /\ \A u \in Threads : u # t => call'[u] = call[u]
    BY <2>1 DEF Enters, Inv, Typed
  <2> QED
    BY <1>1, <1>3, <2>1, <2>2, <2>3, OutsideInv DEF Enters
<1> QED
  BY <1>2, <1>3 DEF Grab, Release

\* Only threads that are not running are started
LEMMA Unstarted ==
    ASSUME StartThreads, NEW t \in Threads
    PROVE  pc'[t] = pc[t] \/ (pc'[t] = "sleep" /\ pc[t] \in {"off", "start"})
  BY DEF StartThreads

LEMMA MainInv == Inv /\ Main => Inv'
<1> SUFFICES ASSUME Inv, Main PROVE Inv'
  OBVIOUS
<1> DEFINE M == "main"
<1>1. /\ M \in Threads /\ Works(M) = Agents \cup {"manager", "alerter"}
      /\ known \subseteq Agents /\ ready \subseteq known /\ agent \in Agents \cup {None}
  BY NamesApart DEF Works, Inv, Typed
<1>2. /\ {"boot", "connect", "sleep", "agents", "swagger", "beat", "start"} \subseteq Places \ {"off"}
      /\ None \notin Agents /\ "manager" \notin Agents /\ "alerter" \notin Agents
  BY ConstantFacts DEF Places
<1>3. CASE Boot
  <2>1. Grab(M, "alerter", "connect") \/ (Goto(M, "connect") /\ UNCHANGED call)
    BY <1>3 DEF Boot
  <2>2. pc[M] \in Places \ {"off"} /\ Kept /\ UNCHANGED <<known, ready, agent>>
    BY <1>2, <1>3 DEF Boot, Kept, manager
  <2> QED
    BY <1>1, <1>2, <2>1, <2>2, CallerInv
<1>4. CASE Connect
  <2>1. /\ pc[M] \in Places \ {"off"} /\ Kept /\ UNCHANGED <<known, ready, agent>>
        /\ Grab(M, "manager", "agents")
    BY <1>2, <1>4 DEF Connect, Kept, manager
  <2> QED
    BY <1>1, <1>2, <2>1, CallerInv
<1>5. CASE InitAgent
  <2>1. PICK a \in Agents \ known : known' = known \cup {a} /\ agent' = a /\ Grab(M, a, "swagger")
    BY <1>5 DEF InitAgent
  <2>4. ready' \subseteq known'
    BY <1>1, <1>5, <2>1 DEF InitAgent
  <2>2. pc[a] = "off"
    BY <2>1 DEF Inv, Control, Started
  <2>3. pc[M] \in Places \ {"off"} /\ Kept
    BY <1>2, <1>5 DEF InitAgent, Kept
  <2> QED
    BY <1>1, <1>2, <2>1, <2>2, <2>3, <2>4, CallerInv
<1>6. CASE InitSwagger
  <2>1. agent \in Agents /\ pc[agent] = "off" /\ agent \in known
    BY <1>1, <1>6 DEF InitSwagger, Inv, Control, Initialises
  <2>2. Release(M, agent, "agents") \/ (Goto(M, "agents") /\ UNCHANGED call)
    BY <1>6 DEF InitSwagger, Swagger
  <2>3. pc[M] \in Places \ {"off"} /\ Kept /\ agent' = None /\ known' = known
        /\ ready' \subseteq known'
    BY <1>1, <1>2, <1>6, <2>1 DEF InitSwagger, Kept
  <2>4. agent # "alerter"
    BY <1>2, <2>1
  <2> QED
    BY <1>1, <1>2, <2>1, <2>2, <2>3, <2>4, CallerInv
<1>7. CASE EndUpdate
  <2>1. /\ pc[M] \in Places \ {"off"} /\ Kept /\ UNCHANGED <<known, ready, agent>>
        /\ Release(M, "manager", "start")
    BY <1>2, <1>7 DEF EndUpdate, Kept, manager
  <2> QED
    BY <1>1, <1>2, <2>1, CallerInv
<1>8. CASE StartThreads
  <2>1. /\ pc[M] = "start" /\ Kept /\ UNCHANGED <<call, known, ready, agent>>
        /\ \A t \in Threads : pc'[t] = pc[t] \/ (pc'[t] = "sleep" /\ pc[t] \in {"off", "start"})
    BY <1>8, Unstarted DEF StartThreads, Kept, manager
  <2>2. \A a \in Agents : pc'[a] # "off" => a \in known
    BY <1>1, <1>8, NamesApart, ConstantFacts DEF StartThreads, Inv, Control, Started
  <2>3. \A t \in Threads : pc'[t] = pc[t] \/ (pc'[t] \in Places /\ pc[t] \in Places)
    BY <2>1, NamesApart DEF Inv, Control, Started, Places
  <2>4. pc' \in [Threads -> Places \cup Steps]
    <3>1. \A t \in Threads : pc'[t] \in Places \cup Steps
      BY <2>3 DEF Inv, Typed
    <3> QED
      BY <1>8, <3>1 DEF StartThreads
  <2>5. pc'[M] = "sleep"
    BY <1>1, <1>8, NamesApart, ConstantFacts DEF StartThreads
  <2>6. \A t \in Threads : In(t)' = In(t) /\ (In(t) => pc'[t] = pc[t])
    BY <2>3, NamesApart DEF In
  <2>7. ~ In(M)'
    BY <2>5, NamesApart DEF In, Places
  <2>8. Control'
    BY <2>1, <2>2, <2>5, <2>6, <2>7, NamesApart
       DEF Inv, Control, Owns, NoAlerter, Alone, Started, Initialises, In
  <2>9. Typed' /\ HasOne'
    BY <2>1, <2>3, <2>4, <2>6, NamesApart
       DEF Inv, Typed, HasOne, Kept, pool, counter, In, Steps, ReleaseSteps
  <2>10. \A o \in Objects : Uncounting(o)' = Uncounting(o)
    BY <2>1, <2>3, NamesApart DEF Uncounting, Steps, ReleaseSteps
  <2>11. Exclusive'
    BY <2>1, <2>10, HeldDef DEF Inv, Exclusive, Kept, pool
  <2> QED
    BY <2>8, <2>9, <2>11 DEF Inv
<1> QED
  BY <1>3, <1>4, <1>5, <1>6, <1>7, <1>8 DEF Main

LEMMA AgentInv == ASSUME Inv, NEW a \in Agents, Agent(a) PROVE Inv'
<1>1. /\ a \in Threads /\ a # "main" /\ a # "alerter" /\ Works(a) = {a, "alerter"}
      /\ known \subseteq Agents /\ ready \subseteq known /\ agent \in Agents \cup {None}
  BY NamesApart, ConstantFacts DEF Works, Inv, Typed
<1>2. {"sleep", "api", "collect", "work"} \subseteq Places \ {"off"}
  BY DEF Places
<1>3. pc[a] \in Places \ {"off"} /\ Kept /\ UNCHANGED <<known, ready, agent>>
  BY <1>2 DEF Agent, AgentWakes, AgentApi, AgentCollects, AgentAlerts, AgentDone, Kept, manager
<1>4. \E o \in {a, "alerter"}, p \in {"sleep", "api", "collect", "work"} :
        Grab(a, o, p) \/ (o # "alerter" /\ Release(a, o, p)) \/ (Goto(a, p) /\ UNCHANGED call)
  BY <1>1 DEF Agent, AgentWakes, AgentApi, AgentCollects, AgentAlerts, AgentDone, Swagger
<1> QED
  BY <1>1, <1>2, <1>3, <1>4, CallerInv

LEMMA AggregatorInv == Inv /\ Aggregator => Inv'
<1> SUFFICES ASSUME Inv, Aggregator PROVE Inv'
  OBVIOUS
<1> DEFINE A == "aggregator"
<1>1. /\ A \in Threads /\ A # "main" /\ Works(A) = {A}
      /\ known \subseteq Agents /\ ready \subseteq known /\ agent \in Agents \cup {None}
  BY NamesApart DEF Works, Inv, Typed
<1>2. {"sleep", "work"} \subseteq Places \ {"off"}
  BY DEF Places
<1>3. pc[A] \in Places \ {"off"} /\ Kept /\ UNCHANGED <<known, ready, agent>>
  BY <1>2 DEF Aggregator, Kept, manager
<1>4. \E p \in {"sleep", "work"} : Grab(A, A, p) \/ Release(A, A, p)
  BY DEF Aggregator
<1> QED
  BY <1>1, <1>2, <1>3, <1>4, CallerInv

LEMMA NextInv == Inv /\ [Next]_vars => Inv'
<1> SUFFICES ASSUME Inv, [Next]_vars PROVE Inv'
  OBVIOUS
<1>1. ASSUME NEW t \in Threads, PoolStep(t) PROVE Inv'
  <2>1. Refused(t) => Inv'
    BY RestartInv
  <2> QED
    BY <1>1, <2>1, WaitInv, CountUpInv, TakeInv, TakeDeadInv, InitRefusedInv, PutInv, CountDownInv
       DEF PoolStep
<1>2. ASSUME NEW t \in Threads, Thread(t) PROVE Inv'
  BY <1>1, <1>2, MainInv, AgentInv, AggregatorInv DEF Thread
<1>3. CASE UNCHANGED vars
  BY <1>3 DEF vars, pool, counter, manager, Inv, Typed, Control, Owns, NoAlerter, Alone, Started,
              Initialises, In, HasOne, Exclusive, Held, At
<1> QED
  BY <1>2, <1>3 DEF Next

LEMMA Invariance == Spec => []Inv
  BY InitBlank, BlankInv, NextInv, PTL DEF Spec

-----------------------------------------------------------------------------
\* Every reachable state is well typed: no object points to anything but a connection,
\* agents that are ready are known, and usedCount leaks once for a loss at most.
THEOREM TypeCorrect == Spec => []TypeOK
<1>1. Inv => TypeOK
  BY DEF Inv, Typed, TypeOK, Steps
<1> QED
  BY <1>1, Invariance, PTL

\* A connection that an object works on is in use in the pool and is no other
\* object's, although nothing in dbTools::grab and release is locked: for any number
\* of agents, torn updates of the counter, and lost connections.
THEOREM NobodyShares == Spec => []Exclusive
<1>1. Inv => Exclusive
  BY DEF Inv
<1> QED
  BY <1>1, Invariance, PTL

-----------------------------------------------------------------------------
(***************************************************************************)
(* What usedCount counts                                                   *)
(***************************************************************************)
\* The threads that usedCount counts, or will, on top of the connections in use
Counted == At({"take", "uncount"})
Counting == At({"count", "count2"})

\* Threads pass the wait loop together: the counter exceeds pool_size by at most
\* their number, which keeps it from wrapping
Explained ==
    races = 0 =>
        /\ At({"count2", "uncount2"}) = {}
        /\ usedCount = Cardinality(used) + Cardinality(Counted) + leaked
        /\ usedCount + Cardinality(Counting) <= PoolSize + Cardinality(Threads)

Finite == IsFiniteSet(Agents) /\ IsFiniteSet(Conns) /\ Wrap > PoolSize + Cardinality(Threads)

LEMMA FiniteFacts ==
    ASSUME Finite, Typed
    PROVE  /\ IsFiniteSet(Threads) /\ Cardinality(Threads) \in Nat
           /\ \A places : /\ IsFiniteSet(At(places)) /\ Cardinality(At(places)) \in Nat
                          /\ Cardinality(At(places)) <= Cardinality(Threads)
           /\ IsFiniteSet(used) /\ Cardinality(used) \in Nat
<1>1. IsFiniteSet(Threads)
  <2>1. IsFiniteSet(Agents \cup {"main"})
    BY FS_AddElement DEF Finite
  <2>2. IsFiniteSet((Agents \cup {"main"}) \cup {"aggregator"})
    BY <2>1, FS_AddElement
  <2>3. (Agents \cup {"main"}) \cup {"aggregator"} = Threads
    BY DEF Threads
  <2> QED
    BY <2>2, <2>3
<1>2. ASSUME NEW places
      PROVE  /\ IsFiniteSet(At(places)) /\ Cardinality(At(places)) \in Nat
             /\ Cardinality(At(places)) <= Cardinality(Threads)
  <2>1. At(places) \subseteq Threads
    BY DEF At
  <2> QED
    BY <1>1, <2>1, FS_Subset, FS_CardinalityType
<1>3. IsFiniteSet(used) /\ Cardinality(used) \in Nat
  BY FS_Subset, FS_CardinalityType DEF Finite, Typed
<1> QED
  BY <1>1, <1>2, <1>3, FS_CardinalityType

\* A thread that moves is counted where it goes, and no more where it was
LEMMA AtMoves ==
    ASSUME Finite, Typed, NEW t \in Threads, Moved(t), NEW places
    PROVE  Cardinality(At(places)') =
             Cardinality(At(places)) + (IF pc'[t] \in places THEN 1 ELSE 0)
                                     - (IF pc[t] \in places THEN 1 ELSE 0)
<1>1. \A u \in Threads : u # t => pc'[u] = pc[u]
  BY DEF Typed, Moved
<1>2. IsFiniteSet(At(places)) /\ Cardinality(At(places)) \in Nat
  BY FiniteFacts
<1>3. CASE pc'[t] \in places /\ pc[t] \notin places
  <2>1. At(places)' = At(places) \cup {t} /\ t \notin At(places)
    BY <1>1, <1>3 DEF At
  <2>2. Cardinality(At(places) \cup {t}) = Cardinality(At(places)) + 1
    BY <1>2, <2>1, FS_AddElement
  <2> QED
    BY <1>2, <1>3, <2>1, <2>2
<1>4. CASE pc'[t] \notin places /\ pc[t] \in places
  <2>1. At(places)' = At(places) \ {t} /\ t \in At(places)
    BY <1>1, <1>4 DEF At
  <2>2. Cardinality(At(places) \ {t}) = Cardinality(At(places)) - 1
    BY <1>2, <2>1, FS_RemoveElement
  <2> QED
    BY <1>2, <1>4, <2>1, <2>2
<1>5. CASE pc'[t] \in places <=> pc[t] \in places
  <2>1. At(places)' = At(places)
    BY <1>1, <1>5 DEF At
  <2> QED
    BY <1>2, <1>5, <2>1
<1> QED
  BY <1>3, <1>4, <1>5

\* A step that neither moves a thread into or out of the counted places nor touches
\* the pool
LEMMA SameExplained ==
    ASSUME Explained, UNCHANGED <<usedCount, used, leaked, races>>,
           \A u \in Threads : \/ pc'[u] = pc[u]
                              \/ {pc[u], pc'[u]} \cap {"take", "uncount", "uncount2", "count", "count2"} = {}
    PROVE  Explained'
<1>1. At({"count2", "uncount2"})' = At({"count2", "uncount2"})
  BY DEF At
<1>2. Counted' = Counted /\ Counting' = Counting
  BY DEF Counted, Counting, At
<1> QED
  BY <1>1, <1>2 DEF Explained

LEMMA BlankExplained == Blank => (Finite => Explained)
<1> SUFFICES ASSUME Finite, Blank PROVE Explained
  OBVIOUS
<1>1. At({"count2", "uncount2"}) = {} /\ Counted = {} /\ Counting = {}
  BY DEF Blank, MainOnly, At, Counted, Counting
<1>2. Cardinality(Threads) \in Nat
  BY FiniteFacts, BlankInv DEF Inv
<1> QED
  BY <1>1, <1>2, FS_EmptySet, ConstantFacts DEF Blank, Explained

LEMMA ExplainedStep == Finite /\ Inv /\ Explained /\ [Next]_vars => Explained'
<1> SUFFICES ASSUME Finite, Inv, Explained, [Next]_vars PROVE Explained'
  OBVIOUS
<1> USE ConstantFacts
<1> DEFINE U == Cardinality(used)
           N == Cardinality(Counted)
           C == Cardinality(Counting)
           T == Cardinality(Threads)
<1>1. U \in Nat /\ N \in Nat /\ C \in Nat /\ T \in Nat /\ C <= T /\ Wrap > PoolSize + T
      /\ IsFiniteSet(used) /\ leaked \in Nat /\ usedCount \in Nat /\ races \in Nat
  BY FiniteFacts DEF Finite, Counted, Counting, Inv, Typed
<1>2. ASSUME NEW t \in Threads, Moved(t), races = 0
      PROVE  /\ Cardinality(Counted') = N + (IF pc'[t] \in {"take", "uncount"} THEN 1 ELSE 0)
                                          - (IF pc[t] \in {"take", "uncount"} THEN 1 ELSE 0)
             /\ Cardinality(Counting') = C + (IF pc'[t] \in {"count", "count2"} THEN 1 ELSE 0)
                                           - (IF pc[t] \in {"count", "count2"} THEN 1 ELSE 0)
             /\ pc[t] \notin {"count2", "uncount2"}
             /\ pc'[t] \notin {"count2", "uncount2"} => At({"count2", "uncount2"})' = {}
  <2>1. At({"count2", "uncount2"}) = {}
    BY <1>2 DEF Explained
  <2>2. pc[t] \notin {"count2", "uncount2"}
    BY <2>1 DEF At
  <2>3. pc'[t] \notin {"count2", "uncount2"} => At({"count2", "uncount2"})' = {}
    BY <1>2, <2>1 DEF At, Inv, Typed, Moved
  <2> QED
    BY <1>2, <2>2, <2>3, AtMoves DEF Inv, Counted, Counting
<1>3. \A t \in Threads : PoolStep(t) /\ ~ Refused(t) => (races' = 0 => races = 0)
  BY <1>1
     DEF PoolStep, Wait, CountUp, Take, TakeDead, InitRefused, Put, CountDown, Preempted, counter
<1>4. ASSUME races' = 0, NEW t \in Threads, PoolStep(t), ~ Refused(t) PROVE Explained'
  <2>1. races = 0 /\ usedCount = U + N + leaked /\ usedCount + C <= PoolSize + T
    BY <1>3, <1>4 DEF Explained
  <2>2. Moved(t)
    BY <1>4, NamesApart
       DEF PoolStep, Wait, CountUp, Take, TakeDead, InitRefused, Put, CountDown, Preempted,
           Return, Goto, Moved, Inv, Typed
  <2> DEFINE N2 == Cardinality(Counted')
             C2 == Cardinality(Counting')
  <2>3. /\ N2 = N + (IF pc'[t] \in {"take", "uncount"} THEN 1 ELSE 0)
                  - (IF pc[t] \in {"take", "uncount"} THEN 1 ELSE 0)
        /\ C2 = C + (IF pc'[t] \in {"count", "count2"} THEN 1 ELSE 0)
                  - (IF pc[t] \in {"count", "count2"} THEN 1 ELSE 0)
        /\ pc[t] \notin {"count2", "uncount2"}
        /\ pc'[t] \notin {"count2", "uncount2"} => At({"count2", "uncount2"})' = {}
    BY <1>2, <2>1, <2>2
  <2>4. C2 <= T /\ C2 \in Nat
    <3>1. Counting' \subseteq Threads
      BY DEF Counting, At
    <3>2. IsFiniteSet(Threads)
      BY FiniteFacts DEF Inv
    <3> QED
      BY <3>1, <3>2, FS_Subset, FS_CardinalityType
  <2>5. used' = used => Cardinality(used') = U
    OBVIOUS
  <2> HIDE DEF U, N, C, T, N2, C2
  <2>6. CASE Wait(t)
    <3>1. /\ pc[t] = "wait" /\ pc'[t] = "count" /\ usedCount <= PoolSize
          /\ UNCHANGED <<usedCount, used, leaked, races>>
      BY <2>6 DEF Wait, Room, Goto, pool, counter, Inv, Typed
    <3> QED
      BY <1>1, <2>1, <2>3, <2>4, <2>5, <3>1 DEF Explained, U, N, C, T, N2, C2
  <2>7. CASE CountUp(t)
    <3>1. /\ pc[t] = "count" /\ pc'[t] = "take" /\ usedCount' = Plus(usedCount)
          /\ UNCHANGED <<used, leaked>>
      BY <1>1, <1>4, <2>1, <2>3, <2>7 DEF CountUp, Preempted, Goto, Inv, Typed
    <3>2. C2 = C - 1 /\ N2 = N + 1
      BY <1>1, <2>3, <3>1 DEF N, C, N2, C2
    <3>3. usedCount + 1 < Wrap
      BY <1>1, <2>1, <2>4, <3>2
    <3>4. usedCount' = usedCount + 1
      BY <1>1, <3>1, <3>3 DEF Plus
    <3> QED
      BY <1>1, <2>1, <2>3, <2>4, <2>5, <3>1, <3>2, <3>4 DEF Explained, U, N, C, T, N2, C2
  <2>8. CASE Take(t)
    <3>1. PICK c \in Conns \ used : used' = used \cup {c}
      BY <2>8 DEF Take, Handed
    <3>4. Cardinality(used') = U + 1
      BY <1>1, <3>1, FS_AddElement DEF U
    <3>5. pc[t] = "take" /\ pc'[t] \in Places /\ UNCHANGED <<usedCount, leaked, races>>
      BY <2>8 DEF Take, Return, Goto, counter, Inv, Typed
    <3>6. C2 = C /\ N2 = N - 1 /\ At({"count2", "uncount2"})' = {}
      BY <1>1, <2>3, <3>5 DEF N, C, N2, C2, Places
    <3> QED
      BY <1>1, <2>1, <3>4, <3>5, <3>6 DEF Explained, U, N, C, T, N2, C2
  <2>9. CASE TakeDead(t) \/ InitRefused(t)
    <3>1. /\ pc[t] = "take" /\ pc'[t] \in {"wait", "beat"} /\ leaked' = leaked + 1
          /\ UNCHANGED <<usedCount, used, races>>
      BY <2>9 DEF TakeDead, InitRefused, Goto, counter, Inv, Typed
    <3>2. C2 = C /\ N2 = N - 1 /\ At({"count2", "uncount2"})' = {}
      BY <1>1, <2>3, <3>1 DEF N, C, N2, C2
    <3> QED
      BY <1>1, <2>1, <2>5, <3>1, <3>2 DEF Explained, U, N, C, T, N2, C2
  <2>10. CASE Put(t)
    <3> DEFINE c == db[call[t].obj]
    <3>1. pc[t] = "put" /\ pc'[t] = "uncount" /\ UNCHANGED <<usedCount, leaked, races>>
          /\ used' = used \ {c}
      BY <2>10 DEF Put, Goto, counter, Inv, Typed
    <3>2. c \in used
      <4>1. PICK o \in Objects : o = call[t].obj
        BY DEF Inv, Typed
      <4>2. c # None /\ Held(o) = c
        BY <2>10, <4>1, PutFacts
      <4> QED
        BY <4>2 DEF Inv, Exclusive
    <3>4. Cardinality(used') = U - 1
      <4>1. PICK A, B : A = used /\ B = used'
        OBVIOUS
      <4>2. IsFiniteSet(A) /\ c \in A /\ B = A \ {c}
        BY <1>1, <3>1, <3>2, <4>1
      <4>3. Cardinality(B) = Cardinality(A) - 1
        BY <4>2, FS_RemoveElement
      <4> QED
        BY <4>1, <4>3 DEF U
    <3>5. C2 = C /\ N2 = N + 1 /\ At({"count2", "uncount2"})' = {}
      BY <1>1, <2>3, <3>1 DEF N, C, N2, C2
    <3> QED
      BY <1>1, <2>1, <3>1, <3>4, <3>5 DEF Explained, U, N, C, T, N2, C2
  <2>11. CASE CountDown(t)
    <3>1. /\ pc[t] = "uncount" /\ pc'[t] \in Places /\ usedCount' = Minus(usedCount)
          /\ UNCHANGED <<used, leaked>>
      BY <1>1, <1>4, <2>1, <2>3, <2>11 DEF CountDown, Preempted, Return, Goto, Inv, Typed
    <3>2. C2 = C /\ N2 = N - 1 /\ At({"count2", "uncount2"})' = {} /\ N2 \in Nat
      <4>1. C2 = C /\ N2 = N - 1 /\ At({"count2", "uncount2"})' = {}
        BY <1>1, <2>3, <3>1 DEF N, C, N2, C2, Places
      <4>2. Counted' \subseteq Threads /\ IsFiniteSet(Threads)
        BY FiniteFacts DEF Counted, At, Inv
      <4> QED
        BY <4>1, <4>2, FS_Subset, FS_CardinalityType DEF N2
    <3>3. usedCount > 0 /\ usedCount - 1 < Wrap /\ usedCount - 1 \in Nat
      BY <1>1, <2>1, <3>2
    <3>4. usedCount' = usedCount - 1
      BY <1>1, <3>1, <3>3 DEF Minus
    <3> QED
      BY <1>1, <2>1, <2>5, <3>1, <3>2, <3>4 DEF Explained, U, N, C, T, N2, C2
  <2> QED
    BY <1>4, <2>6, <2>7, <2>8, <2>9, <2>10, <2>11 DEF PoolStep
<1>5. ASSUME NEW t \in Threads, PoolStep(t) PROVE Explained'
  <2>1. CASE Refused(t)
    <3>1. Blank'
      BY <2>1, RestartBlank
    <3>2. (Blank => Explained)'
      BY BlankExplained, PTL
    <3> QED
      BY <3>1, <3>2
  <2> QED
    BY <1>4, <1>5, <2>1 DEF Explained
<1>6. CASE StartThreads
  <2>1. \A t \in Threads : pc'[t] = pc[t] \/ (pc'[t] = "sleep" /\ pc[t] \in {"off", "start"})
    BY <1>6, Unstarted
  <2> QED
    BY <1>6, <2>1, SameExplained DEF StartThreads, pool, counter
<1>7. ASSUME Kept, NEW t \in Threads, NEW o, NEW p \in Places, pc[t] \in Places,
             Grab(t, o, p) \/ Release(t, o, p) \/ Goto(t, p)
      PROVE  Explained'
  <2>1. pc'[t] \in Places \cup {"wait", "put"} /\ \A u \in Threads : u # t => pc'[u] = pc[u]
    BY <1>7 DEF Grab, Release, Call, Goto, Inv, Typed
  <2> QED
    BY <1>7, <2>1, SameExplained DEF Kept, pool, counter, Places
<1>8. CASE Boot \/ Connect \/ InitAgent \/ InitSwagger \/ EndUpdate
  <2>1. "main" \in Threads /\ pc["main"] \in Places /\ Kept
    BY <1>8, NamesApart
       DEF Boot, Connect, InitAgent, InitSwagger, EndUpdate, Kept, Places
  <2>2. \E o, p : p \in {"connect", "agents", "swagger", "start"}
          /\ (Grab("main", o, p) \/ Release("main", o, p) \/ Goto("main", p))
    BY <1>8 DEF Boot, Connect, InitAgent, InitSwagger, EndUpdate, Swagger
  <2> QED
    BY <1>7, <2>1, <2>2 DEF Places
<1>9. ASSUME NEW a \in Agents, Agent(a) PROVE Explained'
  <2>1. a \in Threads /\ pc[a] \in Places /\ Kept
    BY <1>9, NamesApart
       DEF Agent, AgentWakes, AgentApi, AgentCollects, AgentAlerts, AgentDone, Kept, Places
  <2>2. \E o, p : p \in {"sleep", "api", "collect", "work"}
          /\ (Grab(a, o, p) \/ Release(a, o, p) \/ Goto(a, p))
    BY <1>9 DEF Agent, AgentWakes, AgentApi, AgentCollects, AgentAlerts, AgentDone, Swagger
  <2> QED
    BY <1>7, <2>1, <2>2 DEF Places
<1>10. CASE Aggregator
  <2>1. "aggregator" \in Threads /\ pc["aggregator"] \in Places /\ Kept
    BY <1>10, NamesApart DEF Aggregator, Kept, Places
  <2>2. \E o, p : p \in {"sleep", "work"}
          /\ (Grab("aggregator", o, p) \/ Release("aggregator", o, p))
    BY <1>10 DEF Aggregator
  <2> QED
    BY <1>7, <2>1, <2>2 DEF Places
<1>11. CASE UNCHANGED vars
  BY <1>11, SameExplained DEF vars, pool, counter
<1> QED
  BY <1>5, <1>6, <1>8, <1>9, <1>10, <1>11 DEF Next, Thread, Main

\* As long as no ++ or -- of usedCount was torn, the counter is the number of
\* connections in use, with the threads between counting and taking or putting back,
\* plus every dead connection removed and every one refused to a new agent: those are
\* leaked.  For any number of threads, if the counter is wide enough not to wrap.
THEOREM CounterExplained ==
    ASSUME IsFiniteSet(Agents), IsFiniteSet(Conns), Wrap > PoolSize + Cardinality(Threads)
    PROVE  Spec => []CountExplained
<1>1. Finite
  BY DEF Finite
<1>2. Init => Explained
  BY <1>1, InitBlank, BlankExplained
<1>3. Inv /\ Explained /\ [Next]_vars => Explained'
  BY <1>1, ExplainedStep
<1>4. Explained => CountExplained
  BY DEF Explained, CountExplained, Counted
<1> QED
  BY <1>2, <1>3, <1>4, Invariance, PTL DEF Spec

-----------------------------------------------------------------------------
(***************************************************************************)
(* Connections lost to the race for the alerterManager's                   *)
(***************************************************************************)
\* Who asks for the alerterManager's connection, and connections in use that nobody has
Waiters == {t \in Threads : pc[t] \in GrabSteps /\ call[t].obj = "alerter"}
Stray   == {c \in used : \A o \in Objects : Held(o) # c}

\* Only main asks before the agents have threads, and only for the plugins
BootFirst ==
    /\ In("main") => call["main"].next # "boot"
    /\ pc["main"] = "boot" \/ "main" \in Waiters => \A a \in Agents : pc[a] = "off"

\* Any other object is asked for by one thread, when it has none
AsksOnce == \A t \in Threads : pc[t] \in GrabSteps /\ call[t].obj # "alerter" => db[call[t].obj] = None

\* From the first connection on no thread asks anew, and those that do may each lose one
Racing ==
    IF db["alerter"] = None THEN Stray = {}
    ELSE IsFiniteSet(Stray) /\ Cardinality(Stray) + Cardinality(Waiters) + 1 <= Cardinality(Agents)

RaceInv == BootFirst /\ AsksOnce /\ Racing

\* What a step does to the leases: nothing, lend one, take one back, or end them all
Steady == used' = used /\ \A o \in Objects : Held(o)' = Held(o)
OnlyFor(o) == \A x \in Objects : x # o => Held(x)' = Held(x)
Lends(o, c) ==
    /\ c \notin used /\ used' = used \cup {c}
    /\ Held(o) = None \/ o = "alerter"
    /\ Held(o)' = c /\ OnlyFor(o)
TakesBack(o, c) ==
    /\ c \in used /\ used' = used \ {c}
    /\ o # "alerter" /\ Held(o) = c /\ Held(o)' = None /\ OnlyFor(o)
Closes == used' = {} /\ \A o \in Objects : Held(o)' = None
LeaseStep ==
    \/ Steady \/ Closes
    \/ \E o \in Objects, c \in Conns : Lends(o, c) \/ TakesBack(o, c)

Racers == IsFiniteSet(Agents) /\ Agents # {}

LEMMA WaiterFacts ==
    ASSUME Racers, Inv, BootFirst
    PROVE  /\ IsFiniteSet(Waiters) /\ Cardinality(Waiters) \in Nat
           /\ Cardinality(Agents) \in Nat \ {0} /\ Cardinality(Waiters) <= Cardinality(Agents)
<1>1. IsFiniteSet(Agents) /\ Cardinality(Agents) \in Nat \ {0}
  BY FS_CardinalityType, FS_EmptySet DEF Racers
<1>2. Waiters \subseteq Agents \/ Waiters = {"main"}
  <2>1. \A t \in Waiters : In(t) /\ call[t].obj \in Works(t) /\ call[t].obj = "alerter"
    BY NamesApart DEF Waiters, In, Inv, Control, Owns
  <2>2. "aggregator" \notin Waiters
    BY <2>1, ConstantFacts DEF Works
  <2>3. CASE "main" \in Waiters
    <3>1. \A a \in Agents : a \notin Waiters
      BY <2>3, NamesApart DEF BootFirst, Waiters, GrabSteps
    <3> QED
      BY <2>2, <2>3, <3>1, NamesApart DEF Waiters
  <2>4. CASE "main" \notin Waiters
    BY <2>2, <2>4, NamesApart DEF Waiters
  <2> QED
    BY <2>3, <2>4
<1>3. CASE Waiters \subseteq Agents
  BY <1>1, <1>3, FS_Subset, FS_CardinalityType
<1>4. CASE Waiters = {"main"}
  <2>1. IsFiniteSet({"main"}) /\ Cardinality({"main"}) = 1
    BY FS_Singleton
  <2>2. IsFiniteSet(Waiters) /\ Cardinality(Waiters) = 1
    BY <1>4, <2>1
  <2> QED
    BY <1>1, <2>2
<1> QED
  BY <1>2, <1>3, <1>4, <1>1

\* A step that leaves the connections where they are
LEMMA RaceSame ==
    ASSUME Inv, Racing, used' = used, \A o \in Objects : Held(o)' = Held(o),
           Waiters' = Waiters \/ db["alerter"] = None, db'["alerter"] = db["alerter"]
    PROVE  Racing'
<1>1. Stray' = Stray
  BY DEF Stray
<1> QED
  BY <1>1 DEF Racing

\* A thread that moves within grab() or release()
LEMMA RaceWithin ==
    ASSUME Inv, RaceInv, NEW t \in Threads, Moved(t), Within(t), UNCHANGED db
    PROVE  BootFirst' /\ AsksOnce' /\ Waiters' = Waiters
<1>1. \A u \in Threads : u # t => pc'[u] = pc[u]
  BY DEF Inv, Typed, Moved
<1>2. /\ pc'[t] \in GrabSteps <=> pc[t] \in GrabSteps
      /\ pc'[t] # "boot" /\ pc[t] # "off" /\ pc'[t] # "off" /\ UNCHANGED call
  BY NamesApart DEF Within, In, Places, Moved
<1>3. Waiters' = Waiters
  BY <1>1, <1>2 DEF Waiters
<1>4. AsksOnce'
  BY <1>1, <1>2 DEF RaceInv, AsksOnce
<1>5. BootFirst'
  <2>1. In("main")' => In("main")
    BY <1>1, NamesApart DEF In, Within
  <2>2. \A a \in Agents : pc[a] = "off" => pc'[a] = "off"
    BY <1>1, <1>2, NamesApart
  <2>3. pc'["main"] = "boot" => pc["main"] = "boot"
    BY <1>1, <1>2, NamesApart
  <2> QED
    BY <1>2, <1>3, <2>1, <2>2, <2>3 DEF RaceInv, BootFirst
<1> QED
  BY <1>3, <1>4, <1>5

\* What objects work on changes only where a thread takes or gives back
LEMMA HeldStays ==
    ASSUME Inv, NEW t \in Threads, Moved(t), UNCHANGED db,
           \A u \in Threads : u # t => call'[u] = call[u],
           {pc[t], pc'[t]} \cap {"uncount", "uncount2"} = {}
    PROVE  \A o \in Objects : Held(o)' = Held(o)
<1>1. \A u \in Threads : u # t => pc'[u] = pc[u]
  BY DEF Inv, Typed, Moved
<1>2. \A o \in Objects : Uncounting(o)' = Uncounting(o)
  BY <1>1 DEF Uncounting
<1> QED
  BY <1>2, HeldDef

LEMMA WithinRace ==
    ASSUME Inv, RaceInv, NEW t \in Threads, Wait(t) \/ CountUp(t) \/ TakeDead(t)
    PROVE  RaceInv' /\ LeaseStep
<1>1. /\ Moved(t) /\ Within(t) /\ UNCHANGED db
      /\ {pc[t], pc'[t]} \cap {"uncount", "uncount2"} = {}
  BY NamesApart
     DEF Wait, CountUp, TakeDead, Preempted, Goto, Inv, Typed, Moved, Within, In, GrabSteps, Steps, pool
<1>2. used' = used
  BY DEF Wait, CountUp, TakeDead, pool
<1>3. \A o \in Objects : Held(o)' = Held(o)
  BY <1>1, HeldStays DEF Within
<1>4. LeaseStep
  BY <1>2, <1>3 DEF LeaseStep, Steady
<1> QED
  BY <1>1, <1>2, <1>3, <1>4, RaceWithin, RaceSame DEF RaceInv

LEMMA InitRefusedRace ==
    ASSUME Racers, Inv, RaceInv, NEW t \in Threads, InitRefused(t) PROVE RaceInv' /\ LeaseStep
<1>1. /\ pc[t] = "take" /\ pc'[t] = "beat" /\ Moved(t) /\ In(t)
      /\ call' = [call EXCEPT ![t] = NoCall] /\ UNCHANGED <<used, db>>
      /\ \A o \in Objects : Held(o)' = Held(o)
  BY InitRefusedFacts
<1>2. t = "main"
  BY DEF InitRefused, Initialising
<1>3. \A u \in Threads : u # t => pc'[u] = pc[u] /\ call'[u] = call[u]
  BY <1>1 DEF Inv, Typed, Moved
<1>4. ~ In(t)' /\ t \notin Waiters'
  BY <1>1, NamesApart DEF In, Waiters, Places, GrabSteps
<1>5. Waiters' \subseteq Waiters
  BY <1>3, <1>4 DEF Waiters
<1>6. BootFirst' /\ AsksOnce'
  <2>1. AsksOnce'
    BY <1>1, <1>3 DEF RaceInv, AsksOnce, GrabSteps
  <2>2. pc'["main"] # "boot"
    BY <1>1, <1>2
  <2> QED
    BY <1>2, <1>4, <2>1, <2>2 DEF BootFirst
<1>7. Racing'
  <2>1. Cardinality(Waiters) \in Nat /\ Cardinality(Agents) \in Nat
        /\ Cardinality(Waiters') \in Nat /\ Cardinality(Waiters') <= Cardinality(Waiters)
    BY <1>5, WaiterFacts, FS_Subset, FS_CardinalityType DEF RaceInv
  <2>2. Stray' = Stray /\ (IsFiniteSet(Stray) => Cardinality(Stray) \in Nat)
    BY <1>1, FS_CardinalityType DEF Stray
  <2> QED
    BY <1>1, <2>1, <2>2 DEF RaceInv, Racing
<1> QED
  BY <1>1, <1>6, <1>7 DEF RaceInv, LeaseStep, Steady

LEMMA BlankRace == Blank => RaceInv /\ used = {} /\ \A o \in Objects : Held(o) = None
<1> SUFFICES ASSUME Blank PROVE RaceInv /\ used = {} /\ \A o \in Objects : Held(o) = None
  OBVIOUS
<1>1. used = {} /\ "alerter" \in Objects /\ "main" \in Threads /\ db["alerter"] = None
  BY NamesApart DEF Blank, NobodyHas
<1>2. \A t \in Threads : pc[t] \in Places /\ (t # "main" => pc[t] = "off")
  BY DEF Blank, MainOnly, Places
<1>3. \A o \in Objects : Held(o) = None
  BY HeldDef DEF Blank, NobodyHas
<1>4. BootFirst /\ AsksOnce
  BY <1>1, <1>2, NamesApart, ConstantFacts DEF BootFirst, AsksOnce, In
<1>5. Racing
  BY <1>1 DEF Racing, Stray
<1> QED
  BY <1>1, <1>3, <1>4, <1>5 DEF RaceInv

LEMMA RefusedRace ==
    ASSUME Inv, RaceInv, NEW t \in Threads, Refused(t) PROVE RaceInv' /\ LeaseStep
<1>1. Blank'
  BY RestartBlank
<1>2. (Blank => RaceInv /\ used = {} /\ \A o \in Objects : Held(o) = None)'
  BY BlankRace, PTL
<1>3. RaceInv' /\ used' = {} /\ \A o \in Objects : Held(o)' = None
  BY <1>1, <1>2
<1> QED
  BY <1>3 DEF LeaseStep, Closes

LEMMA PutRace == ASSUME Inv, RaceInv, NEW t \in Threads, Put(t) PROVE RaceInv' /\ LeaseStep
<1>1. PICK o \in Objects : o = call[t].obj
  BY DEF Inv, Typed
<1>2. /\ pc[t] = "put" /\ pc'[t] = "uncount" /\ Moved(t) /\ Within(t)
      /\ used' = used \ {db[o]} /\ UNCHANGED db
  BY <1>1, NamesApart DEF Put, Goto, Inv, Typed, Moved, Within, In, ReleaseSteps, Steps
<1>3. /\ Held(o) = db[o] /\ Held(o) # None /\ Held(o)' = None
      /\ \A x \in Objects : x # o => Held(x)' = Held(x)
  BY PutFacts, <1>1
<1>4. used' = used \ {db[o]}
  BY <1>2
<1>5. Stray' = Stray
  <2>1. \A c \in used : c # None
    BY ConstantFacts DEF Inv, Typed
  <2> QED
    BY <1>3, <1>4, <2>1 DEF Stray
<1>6. BootFirst' /\ AsksOnce' /\ Waiters' = Waiters
  BY <1>2, RaceWithin
<1>7. LeaseStep
  <2>1. PICK c : c = db[o]
    OBVIOUS
  <2>2. c \in Conns /\ c \in used
    BY <1>3, <2>1 DEF Inv, Typed, Exclusive
  <2>3. o # "alerter"
    BY <1>1, PutFacts
  <2>4. TakesBack(o, c)
    BY <1>3, <1>4, <2>1, <2>2, <2>3 DEF TakesBack, OnlyFor
  <2> QED
    BY <2>2, <2>4 DEF LeaseStep
<1> QED
  BY <1>2, <1>5, <1>6, <1>7 DEF RaceInv, Racing

\* A thread that leaves grab() or release() asks no more
LEMMA RaceLeaves ==
    ASSUME Inv, RaceInv, NEW t \in Threads, Moved(t), Leaves(t),
           \A u \in Threads : u # t /\ pc[u] \in GrabSteps /\ call[u].obj # "alerter" =>
               db'[call[u].obj] = db[call[u].obj]
    PROVE  BootFirst' /\ AsksOnce' /\ Waiters' = Waiters \ {t}
<1>1. \A u \in Threads : u # t => pc'[u] = pc[u] /\ call'[u] = call[u]
  BY DEF Inv, Typed, Moved, Leaves
<1>2. pc'[t] \notin GrabSteps /\ pc[t] # "off" /\ pc'[t] = call[t].next
  BY NamesApart DEF Leaves, Inv, Typed, Moved
<1>3. Waiters' = Waiters \ {t}
  BY <1>1, <1>2 DEF Waiters
<1>4. AsksOnce'
  BY <1>1, <1>2 DEF RaceInv, AsksOnce
<1>5. BootFirst'
  <2>1. \A a \in Agents : pc[a] = "off" => pc'[a] = "off"
    BY <1>1, <1>2, NamesApart
  <2>2. pc'["main"] = "boot" => pc["main"] = "boot"
    BY <1>1, <1>2, NamesApart DEF Leaves, RaceInv, BootFirst
  <2>3. In("main")' => In("main") /\ call'["main"] = call["main"]
    BY <1>1, <1>2, NamesApart DEF In, Inv, Typed
  <2> QED
    BY <1>3, <2>1, <2>2, <2>3 DEF RaceInv, BootFirst
<1> QED
  BY <1>3, <1>4, <1>5

LEMMA CountDownRace ==
    ASSUME Inv, RaceInv, NEW t \in Threads, CountDown(t) PROVE RaceInv' /\ LeaseStep
<1>1. PICK o \in Objects : o = call[t].obj
  BY DEF Inv, Typed
<1>2. /\ pc[t] \in {"uncount", "uncount2"} /\ Moved(t) /\ In(t) /\ o # "alerter"
      /\ used' = used /\ \A x \in Objects : Held(x)' = Held(x)
      /\ \/ pc'[t] = "uncount2" /\ Within(t) /\ UNCHANGED db
         \/ Leaves(t) /\ db' = [db EXCEPT ![o] = None]
  BY <1>1, CountDownFacts
<1>3. used' = used /\ "alerter" \in Objects /\ db'["alerter"] = db["alerter"]
  BY <1>2, NamesApart DEF Inv, Typed
<1>4. LeaseStep
  BY <1>2, <1>3 DEF LeaseStep, Steady
<1>5. CASE Within(t) /\ UNCHANGED db
  BY <1>4, <1>2, <1>3, <1>5, RaceWithin, RaceSame DEF RaceInv
<1>6. CASE Leaves(t) /\ db' = [db EXCEPT ![o] = None]
  <2>1. \A u \in Threads : u # t /\ pc[u] \in GrabSteps /\ call[u].obj # "alerter" =>
           db'[call[u].obj] = db[call[u].obj]
    BY <1>1, <1>2, <1>6, NotShared, NamesApart DEF Inv, Typed, In
  <2>2. BootFirst' /\ AsksOnce' /\ Waiters' = Waiters \ {t}
    BY <1>2, <1>6, <2>1, RaceLeaves
  <2>3. t \notin Waiters
    BY <1>1, <1>2 DEF Waiters
  <2> QED
    BY <1>2, <1>3, <1>4, <2>2, <2>3, RaceSame DEF RaceInv
<1> QED
  BY <1>2, <1>5, <1>6

LEMMA TakeRace ==
    ASSUME Racers, Inv, RaceInv, NEW t \in Threads, Take(t) PROVE RaceInv' /\ LeaseStep
<1>1. PICK o \in Objects : o = call[t].obj
  BY DEF Inv, Typed
<1>2. /\ pc[t] = "take" /\ Moved(t) /\ Leaves(t) /\ ~ In(t)'
      /\ \A x \in Objects : x # o => Held(x)' = Held(x)
  BY <1>1, TakeFacts
<1>3. PICK c \in Conns : /\ c \notin used /\ c # None
                        /\ used' = used \cup {c} /\ db' = [db EXCEPT ![o] = c]
  BY <1>1, TakeFacts
<1>4. /\ used' = used \cup {c} /\ db'[o] = c /\ "alerter" \in Objects
      /\ \A x \in Objects : x # o => db'[x] = db[x]
  BY <1>3, NamesApart DEF Inv, Typed
<1>5. Held(o)' = c
  <2>1. ~ Uncounting(o)'
    <3>1. ASSUME NEW u \in Threads, pc'[u] \in {"uncount", "uncount2"}, call'[u].obj = o PROVE FALSE
      <4>1. u # t
        BY <1>2, <3>1 DEF In, Steps, ReleaseSteps
      <4>2. pc[u] = pc'[u] /\ call[u] = call'[u]
        BY <1>2, <4>1 DEF Inv, Typed, Moved, Leaves
      <4>3. In(u) /\ In(t) /\ call[u].obj = o /\ o # "alerter"
        BY <1>2, <3>1, <4>2 DEF In, Steps, ReleaseSteps, GrabSteps, Inv, Control, NoAlerter
      <4> QED
        BY <1>1, <4>1, <4>3, NotShared DEF Inv
    <3> QED
      BY <3>1 DEF Uncounting
  <2> QED
    BY <1>4, <2>1, HeldDef
<1>6. \A u \in Threads : u # t /\ pc[u] \in GrabSteps /\ call[u].obj # "alerter" =>
         db'[call[u].obj] = db[call[u].obj]
  BY <1>1, <1>2, <1>4, NotShared, NamesApart DEF Inv, Typed, In, GrabSteps
<1>7. BootFirst' /\ AsksOnce' /\ Waiters' = Waiters \ {t}
  BY <1>2, <1>6, RaceLeaves
<1>8. \A d \in used : d # None /\ d # c
  BY <1>3, ConstantFacts DEF Inv, Typed
<1>9. Stray' \subseteq Stray \cup {db[o]}
  <2> SUFFICES ASSUME NEW d \in Stray', d \notin Stray PROVE d = db[o]
    OBVIOUS
  <2>1. d \in used /\ d # None /\ \A x \in Objects : x # o => Held(x) # d
    BY <1>2, <1>4, <1>5, <1>8 DEF Stray
  <2>2. Held(o) = d
    BY <2>1 DEF Stray
  <2> QED
    BY <2>1, <2>2, HeldDef
<1>10. None \notin Stray'
  BY <1>3, <1>4, <1>8 DEF Stray
<1>11. LeaseStep
  <2>1. c \notin used
    BY <1>3
  <2>2. Held(o) = None \/ o = "alerter"
    <3>1. CASE o # "alerter"
      <4>1. db[o] = None
        BY <1>1, <1>2, <3>1 DEF RaceInv, AsksOnce, GrabSteps
      <4> QED
        BY <4>1, HeldDef
    <3> QED
      BY <3>1
  <2>3. Lends(o, c)
    BY <1>2, <1>4, <1>5, <2>1, <2>2 DEF Lends, OnlyFor
  <2> QED
    BY <1>3, <2>3 DEF LeaseStep
<1>12. ASSUME o # "alerter" PROVE RaceInv'
  <2>1. db[o] = None
    BY <1>1, <1>2, <1>12 DEF RaceInv, AsksOnce, GrabSteps
  <2>2. Stray' \subseteq Stray
    BY <1>9, <1>10, <2>1
  <2>3. Waiters' = Waiters
    BY <1>1, <1>7, <1>12 DEF Waiters
  <2>4. IsFiniteSet(Stray) => IsFiniteSet(Stray') /\ Cardinality(Stray') <= Cardinality(Stray)
                              /\ Cardinality(Stray') \in Nat /\ Cardinality(Stray) \in Nat
    BY <2>2, FS_Subset, FS_CardinalityType
  <2>5. Cardinality(Waiters) \in Nat /\ Cardinality(Agents) \in Nat
    BY WaiterFacts DEF RaceInv
  <2>6. Racing'
    BY <1>4, <1>12, <2>2, <2>3, <2>4, <2>5 DEF RaceInv, Racing
  <2> QED
    BY <1>7, <2>6 DEF RaceInv
<1>13. ASSUME o = "alerter" PROVE RaceInv'
  <2>1. t \in Waiters
    BY <1>1, <1>2, <1>13 DEF Waiters, GrabSteps
  <2>2. /\ Cardinality(Waiters) \in Nat /\ Cardinality(Agents) \in Nat \ {0}
        /\ Cardinality(Waiters) <= Cardinality(Agents)
        /\ Cardinality(Waiters') = Cardinality(Waiters) - 1
    BY <1>7, <2>1, WaiterFacts, FS_RemoveElement DEF RaceInv
  <2>3. db'["alerter"] # None
    BY <1>3, <1>4, <1>13
  <2>4. CASE db["alerter"] = None
    <3>1. Stray' = {}
      BY <1>9, <1>10, <1>13, <2>4 DEF RaceInv, Racing
    <3>2. IsFiniteSet(Stray') /\ Cardinality(Stray') = 0
      BY <3>1, FS_EmptySet
    <3> QED
      BY <1>7, <2>2, <2>3, <3>2 DEF RaceInv, Racing
  <2>5. CASE db["alerter"] # None
    <3>1. IsFiniteSet(Stray) /\ Cardinality(Stray) + Cardinality(Waiters) + 1 <= Cardinality(Agents)
      BY <2>5 DEF RaceInv, Racing
    <3>2. /\ IsFiniteSet(Stray \cup {db[o]}) /\ Cardinality(Stray) \in Nat
          /\ Cardinality(Stray \cup {db[o]}) \in {Cardinality(Stray), Cardinality(Stray) + 1}
      BY <3>1, FS_AddElement, FS_CardinalityType
    <3>3. /\ IsFiniteSet(Stray') /\ Cardinality(Stray') \in Nat
          /\ Cardinality(Stray') <= Cardinality(Stray \cup {db[o]})
      BY <1>9, <3>2, FS_Subset, FS_CardinalityType
    <3>4. Cardinality(Stray') <= Cardinality(Stray) + 1
      BY <3>2, <3>3
    <3>5. Cardinality(Stray') + Cardinality(Waiters') + 1 <= Cardinality(Agents)
      BY <2>2, <3>1, <3>2, <3>3, <3>4
    <3> QED
      BY <1>7, <2>3, <3>3, <3>5 DEF RaceInv, Racing
  <2> QED
    BY <2>4, <2>5
<1> QED
  BY <1>12, <1>13, <1>11

\* A caller asks, gives back, or goes on; only main asks for a plugin, at its start
LEMMA CallerRace ==
    ASSUME Inv, RaceInv, Kept, NEW t \in Threads, pc[t] \in Places \ {"off"},
           NEW o, NEW p \in Places \ {"boot"},
           Grab(t, o, p) \/ (o # "alerter" /\ Release(t, o, p)) \/ (Goto(t, p) /\ UNCHANGED call),
           t = "main" /\ o = "alerter" => pc["main"] = "boot"
    PROVE  RaceInv' /\ LeaseStep
<1>1. /\ Moved(t) /\ ~ In(t) /\ (\A u \in Threads : u # t => pc'[u] = pc[u] /\ call'[u] = call[u])
      /\ pc'[t] \in Places \cup {"wait", "put"}
  BY NamesApart
     DEF Grab, Release, Call, Goto, Inv, Typed, Moved, In, GrabSteps, ReleaseSteps, Steps
<1>2. \/ pc'[t] = p
      \/ pc'[t] \in {"wait", "put"} /\ call'[t] = [obj |-> o, next |-> p]
         /\ (pc'[t] = "wait" => db[o] = None)
  BY DEF Grab, Release, Call, Goto, Inv, Typed
<1>3. used' = used /\ UNCHANGED db
  BY DEF Kept, pool
<1>4. \A x \in Objects : Held(x)' = Held(x)
  BY <1>1, <1>3, HeldStays, NamesApart DEF In, Places, Steps, ReleaseSteps
<1>5. Waiters' = Waiters \/ (db["alerter"] = None /\ Waiters' = Waiters \cup {t} /\ o = "alerter")
  <2>1. t \notin Waiters
    BY <1>1, NamesApart DEF Waiters, In
  <2>2. \A u \in Threads : u # t => (u \in Waiters' <=> u \in Waiters)
    BY <1>1 DEF Waiters
  <2>3. t \in Waiters' => o = "alerter" /\ db["alerter"] = None
    BY <1>2, NamesApart DEF Waiters, GrabSteps, Steps
  <2>4. Waiters \subseteq Threads /\ Waiters' \subseteq Threads
    BY DEF Waiters
  <2> QED
    BY <2>1, <2>2, <2>3, <2>4
<1>6. Racing'
  BY <1>3, <1>4, <1>5, RaceSame DEF RaceInv
<1>7. AsksOnce'
  BY <1>1, <1>2, <1>3, NamesApart DEF RaceInv, AsksOnce, GrabSteps, Steps
<1>8. BootFirst'
  <2>1. \A a \in Agents : pc[a] = "off" => pc'[a] = "off"
    BY <1>1, NamesApart
  <2>2. pc'["main"] = "boot" => pc["main"] = "boot"
    BY <1>1, <1>2, NamesApart
  <2>3. In("main")' => call'["main"].next # "boot"
    BY <1>1, <1>2, NamesApart DEF In, RaceInv, BootFirst
  <2>4. "main" \in Waiters' => "main" \in Waiters \/ pc["main"] = "boot"
    BY <1>5
  <2> QED
    BY <2>1, <2>2, <2>3, <2>4 DEF RaceInv, BootFirst
<1>9. LeaseStep
  BY <1>3, <1>4 DEF LeaseStep, Steady
<1> QED
  BY <1>6, <1>7, <1>8, <1>9 DEF RaceInv

LEMMA StartRace == ASSUME Inv, RaceInv, StartThreads PROVE RaceInv' /\ LeaseStep
<1>1. /\ pc["main"] = "start" /\ Kept /\ UNCHANGED call
      /\ \A t \in Threads : pc'[t] = pc[t] \/ (pc'[t] = "sleep" /\ pc[t] \in {"off", "start"})
  BY Unstarted DEF StartThreads, Kept
<1>2. pc'["main"] = "sleep"
  BY NamesApart, ConstantFacts DEF StartThreads, Inv, Typed
<1>3. \A t \in Threads : /\ pc'[t] \in GrabSteps <=> pc[t] \in GrabSteps
                         /\ pc'[t] \in {"uncount", "uncount2"} <=> pc[t] \in {"uncount", "uncount2"}
  BY <1>1 DEF GrabSteps
<1>4. Waiters' = Waiters /\ "main" \notin Waiters
  BY <1>1, <1>3 DEF Waiters, GrabSteps
<1>5. \A o \in Objects : Held(o)' = Held(o)
  BY <1>1, <1>3, HeldDef DEF Uncounting, Kept
<1>6. used' = used /\ UNCHANGED db
  BY <1>1 DEF Kept, pool
<1>7. ~ In("main")'
  BY <1>2, NamesApart DEF In, Places
<1>8. LeaseStep
  BY <1>5, <1>6 DEF LeaseStep, Steady
<1> QED
  BY <1>1, <1>2, <1>3, <1>4, <1>5, <1>6, <1>7, <1>8, RaceSame DEF RaceInv, AsksOnce, BootFirst

LEMMA NextRace == Racers /\ Inv /\ RaceInv /\ [Next]_vars => RaceInv' /\ LeaseStep
<1> SUFFICES ASSUME Racers, Inv, RaceInv, [Next]_vars PROVE RaceInv' /\ LeaseStep
  OBVIOUS
<1>1. ASSUME NEW t \in Threads, PoolStep(t) PROVE RaceInv' /\ LeaseStep
  BY <1>1, WithinRace, TakeRace, InitRefusedRace, RefusedRace, PutRace, CountDownRace DEF PoolStep
<1>2. {"boot", "connect", "sleep", "agents", "swagger", "beat", "start", "api", "collect", "work"} \subseteq Places \ {"off"}
  BY DEF Places
<1>3. CASE Boot \/ Connect \/ InitAgent \/ InitSwagger \/ EndUpdate
  <2> DEFINE M == "main"
  <2>1. M \in Threads /\ pc[M] \in Places \ {"off"} /\ Kept
    BY <1>2, <1>3, NamesApart DEF Boot, Connect, InitAgent, InitSwagger, EndUpdate, Kept
  <2>2. \E o, p : /\ p \in {"connect", "agents", "swagger", "start"}
                  /\ \/ Grab(M, o, p)
                     \/ o # "alerter" /\ Release(M, o, p)
                     \/ Goto(M, p) /\ UNCHANGED call
                  /\ o = "alerter" => pc[M] = "boot"
    <3>1. CASE Boot
      <4>1. CASE Grab(M, "alerter", "connect")
        BY <1>3, <3>1, <4>1 DEF Boot
      <4>2. CASE Goto(M, "connect") /\ UNCHANGED call
        BY <3>1, <4>2 DEF Boot
      <4> QED
        BY <3>1, <4>1, <4>2 DEF Boot
    <3>2. CASE Connect
      <4>1. Grab(M, "manager", "agents") /\ "manager" # "alerter"
        BY <3>2 DEF Connect
      <4> QED
        BY <4>1
    <3>3. CASE InitAgent
      <4>1. PICK a \in Agents : Grab(M, a, "swagger")
        BY <3>3 DEF InitAgent
      <4>2. a # "alerter"
        BY ConstantFacts
      <4> QED
        BY <4>1, <4>2
    <3>4. CASE InitSwagger
      <4>1. agent \in Agents
        BY <3>4 DEF InitSwagger, Inv, Typed, Control, Initialises
      <4>2. agent # "alerter" /\ (Release(M, agent, "agents") \/ (Goto(M, "agents") /\ UNCHANGED call))
        BY <3>4, <4>1, ConstantFacts DEF InitSwagger, Swagger
      <4> QED
        BY <4>2
    <3>5. CASE EndUpdate
      <4>1. Release(M, "manager", "start") /\ "manager" # "alerter"
        BY <3>5 DEF EndUpdate
      <4> QED
        BY <4>1
    <3> QED
      BY <1>3, <3>1, <3>2, <3>3, <3>4, <3>5
  <2>3. PICK o, p :
           /\ p \in Places \ {"boot"}
           /\ \/ Grab(M, o, p)
              \/ o # "alerter" /\ Release(M, o, p)
              \/ Goto(M, p) /\ UNCHANGED call
           /\ o = "alerter" => pc[M] = "boot"
    BY <1>2, <2>2
  <2> QED
    BY <2>1, <2>3, CallerRace
<1>4. ASSUME NEW a \in Agents, Agent(a) PROVE RaceInv' /\ LeaseStep
  <2>1. a \in Threads /\ a # "main" /\ a # "alerter" /\ pc[a] \in Places \ {"off"} /\ Kept
    BY <1>2, <1>4, NamesApart, ConstantFacts
       DEF Agent, AgentWakes, AgentApi, AgentCollects, AgentAlerts, AgentDone, Kept
  <2>2. \E o, p : /\ p \in {"sleep", "api", "collect", "work"}
                  /\ \/ Grab(a, o, p)
                     \/ o # "alerter" /\ Release(a, o, p)
                     \/ Goto(a, p) /\ UNCHANGED call
    BY <1>4, <2>1 DEF Agent, AgentWakes, AgentApi, AgentCollects, AgentAlerts, AgentDone, Swagger
  <2>3. PICK o, p :
           /\ p \in Places \ {"boot"}
           /\ \/ Grab(a, o, p)
              \/ o # "alerter" /\ Release(a, o, p)
              \/ Goto(a, p) /\ UNCHANGED call
    BY <1>2, <2>2
  <2> QED
    BY <2>1, <2>3, CallerRace
<1>5. CASE Aggregator
  <2> DEFINE A == "aggregator"
  <2>1. A \in Threads /\ A # "main" /\ A # "alerter" /\ pc[A] \in Places \ {"off"} /\ Kept
    BY <1>2, <1>5, NamesApart DEF Aggregator, Kept
  <2>2. \E p \in {"sleep", "work"} : Grab(A, A, p) \/ Release(A, A, p)
    BY <1>5 DEF Aggregator
  <2>3. \A p \in {"sleep", "work"} : p \in Places \ {"boot"}
    BY <1>2
  <2> HIDE DEF A
  <2>4. PICK p \in Places \ {"boot"} : Grab(A, A, p) \/ (A # "alerter" /\ Release(A, A, p))
    BY <2>1, <2>2, <2>3
  <2> QED
    BY <2>1, <2>4, CallerRace
<1>6. CASE UNCHANGED vars
  <2>1. UNCHANGED <<used, db, pc, call>>
    BY <1>6 DEF vars, pool
  <2>2. used' = used /\ Waiters' = Waiters
    BY <2>1 DEF Waiters
  <2>3. \A o \in Objects : Held(o)' = Held(o)
    BY <2>1, HeldDef DEF Uncounting
  <2>4. BootFirst' /\ AsksOnce'
    BY <2>1, <2>2 DEF RaceInv, BootFirst, AsksOnce, In
  <2> QED
    BY <2>1, <2>2, <2>3, <2>4, RaceSame DEF RaceInv, LeaseStep, Steady
<1> QED
  BY <1>1, <1>3, <1>4, <1>5, <1>6, StartRace DEF Next, Thread, Main

LEMMA RaceInvariance == Racers => (Spec => []RaceInv)
<1>1. Init => RaceInv
  BY InitBlank, BlankRace
<1> SUFFICES ASSUME Racers PROVE Spec => []RaceInv
  OBVIOUS
<1>2. Inv /\ RaceInv /\ [Next]_vars => RaceInv'
  BY NextRace
<1> QED
  BY <1>1, <1>2, Invariance, PTL DEF Spec

\* The connections that threads lose by racing to be the alerterManager's first user
\* are fewer than the agents, for any number of agents: the first to have one ends
\* the race, and each of those already in it overwrites one pointer.
THEOREM FewLost ==
    ASSUME IsFiniteSet(Agents), Agents # {}
    PROVE  Spec => []LostOnlyInRace
<1>1. Racers
  BY DEF Racers
<1>4. Inv /\ RaceInv => LostOnlyInRace
  <2> SUFFICES ASSUME Inv, RaceInv PROVE Cardinality(Lost) < Cardinality(Agents)
    BY DEF LostOnlyInRace
  <2>1. Lost \subseteq Stray
    BY HeldDef, ConstantFacts DEF Lost, Stray, Inv, Typed
  <2>2. Cardinality(Waiters) \in Nat /\ Cardinality(Agents) \in Nat \ {0}
    BY <1>1, WaiterFacts DEF RaceInv
  <2>3. CASE db["alerter"] = None
    <3>1. Lost = {}
      BY <2>1, <2>3 DEF RaceInv, Racing
    <3> QED
      BY <2>2, <3>1, FS_EmptySet
  <2>4. CASE db["alerter"] # None
    <3>1. /\ Cardinality(Lost) \in Nat /\ Cardinality(Stray) \in Nat
          /\ Cardinality(Lost) <= Cardinality(Stray)
          /\ Cardinality(Stray) + Cardinality(Waiters) + 1 <= Cardinality(Agents)
      BY <2>1, <2>4, FS_Subset, FS_CardinalityType DEF RaceInv, Racing
    <3> QED
      BY <2>2, <3>1
  <2> QED
    BY <2>3, <2>4
<1>5. Spec => []RaceInv
  BY <1>1, RaceInvariance
<1> QED
  BY <1>4, <1>5, Invariance, PTL

-----------------------------------------------------------------------------
(***************************************************************************)
(* The refinement of ConnectionLeases                                      *)
(***************************************************************************)
LEMMA StepsOfLeases == ASSUME Inv, LeaseStep PROVE [Leases!Next]_(Leases!vars)
<1>1. ASSUME Steady PROVE UNCHANGED Leases!vars
  BY <1>1 DEF Steady, Leases!vars
<1>2. ASSUME NEW o \in Objects, NEW c \in Conns, Lends(o, c) PROVE Leases!Next
  <2>1. Leases!Borrow(o, c)
    BY <1>2 DEF Lends, OnlyFor, Leases!Borrow
  <2> QED
    BY <1>2, <2>1 DEF Lends, Leases!Next
<1>3. ASSUME NEW o \in Objects, NEW c \in Conns, TakesBack(o, c) PROVE Leases!Next
  <2>1. Leases!GiveBack(o, c)
    BY <1>3 DEF TakesBack, OnlyFor, Leases!GiveBack
  <2> QED
    BY <1>3, <2>1 DEF TakesBack, Leases!Next
<1>4. ASSUME Closes PROVE Leases!Next
  <2>1. Leases!Close
    BY <1>4 DEF Closes, Leases!Close
  <2> QED
    BY <2>1 DEF Leases!Next
<1> QED
  BY <1>1, <1>2, <1>3, <1>4 DEF LeaseStep

\* grab() and release(), as the threads call them, are a pool that lends: no object is
\* given a connection that is lent, none loses its own before its thread releases it,
\* and only the alerterManager's is ever replaced.  Through torn updates of the
\* counter, lost connections, restarts and every race, for any finite number of agents.
THEOREM LeasesImplemented ==
    ASSUME IsFiniteSet(Agents), Agents # {} PROVE Spec => ImplementsLeases
<1>1. Racers
  BY DEF Racers
<1>2. Init => Leases!Init
  <2> SUFFICES ASSUME Init PROVE Leases!Init
    OBVIOUS
  <2>1. used = {} /\ \A o \in Objects : Held(o) = None
    BY InitBlank, BlankRace
  <2> QED
    BY <2>1 DEF Leases!Init
<1>3. Inv /\ RaceInv /\ [Next]_vars => [Leases!Next]_(Leases!vars)
  BY <1>1, NextRace, StepsOfLeases
<1>4. Spec => []RaceInv
  BY <1>1, RaceInvariance
<1>5. Spec => Leases!Spec
  BY <1>2, <1>3, <1>4, Invariance, PTL DEF Spec, Leases!Spec
<1> QED
  BY <1>5 DEF ImplementsLeases

=============================================================================
