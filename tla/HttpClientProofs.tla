-------------------------- MODULE HttpClientProofs --------------------------
(***************************************************************************)
(* Proofs about HttpClient: its type invariant, the bound on the requests  *)
(* of a call, the counters, the number of connections, that a call         *)
(* survives any one mishap, and that it takes a reply for broken JSON only *)
(* when the agent garbled one.                                             *)
(***************************************************************************)
EXTENDS HttpClient, FiniteSetTheorems, SequenceTheorems, WellFoundedInduction, TLAPS

Used(cs) == {i \in DOMAIN cs : cs[i].in_use}

Typed(cs) == /\ IsFiniteSet(DOMAIN cs) /\ DOMAIN cs \subseteq Nat
             /\ \A i \in DOMAIN cs : cs[i] \in Connection

\* The request of the call is its first or its second; each is written once, and once
\* more if the connection was renewed meanwhile
Written ==
    IF At("idle") THEN call.gets <= 4
    ELSE call.gets <= 2 * (call.attempt - 1)
                        + (IF At("body") THEN 2
                           ELSE (IF Current.reconnecting THEN 1 ELSE 0)
                                  + (IF At("read") THEN 1 ELSE 0))

\* Connections in use that are not the call's: a broken header left them
Stuck == {i \in Used(connections) : At("idle") \/ i # call.conn}

Connected ==
    /\ Cardinality(Stuck) <= thrown
    /\ Cardinality(DOMAIN connections) <= 1 + thrown

\* All of it that a request can disturb
CallInv ==
    /\ call \in Calls
    /\ At("idle") \/ (call.conn \in DOMAIN connections /\ Current.in_use /\ call.attempt # 0)
    /\ count \in [ok : Nat, failed : Nat, parse : Nat]
    /\ Typed(connections) /\ Written /\ Connected /\ CountsKept

Inv == TypeOK /\ CallInv

(***************************************************************************)
(* Connections                                                             *)
(***************************************************************************)
LEMMA EmptySequence == \A S : <<>> \in Seq(S)
  BY EmptySeq

LEMMA FreshTyped == Fresh \in Connection
  BY EmptySequence DEF Fresh, Connection

LEMMA ClosedFacts ==
    ASSUME NEW c \in Connection
    PROVE  /\ Closed(c) \in Connection /\ Released(c) \in Connection /\ Renewed(c) \in Connection
           /\ Released(Closed(c)) \in Connection /\ ~ Released(Closed(c)).in_use
           /\ ~ Released(c).in_use
           /\ Closed(c).in_use = c.in_use /\ Closed(c).reconnecting = c.reconnecting
           /\ Renewed(c).in_use /\ ~ Renewed(c).reconnecting
  BY FreshTyped, EmptySequence DEF Closed, Released, Renewed, Fresh, Connection

\* There is a number for a new connection
LEMMA NewIdIsNew ==
    ASSUME NEW cs, Typed(cs)
    PROVE  NewId(cs) \in Nat /\ NewId(cs) \notin DOMAIN cs
<1> DEFINE n == Cardinality(DOMAIN cs)
<1>1. n \in Nat
  BY FS_CardinalityType DEF Typed
<1>2. IsFiniteSet(1..n + 1) /\ Cardinality(1..n + 1) = n + 1
  BY <1>1, FS_Interval
<1>3. ~ (1..n + 1 \subseteq DOMAIN cs)
  <2>1. SUFFICES ASSUME 1..n + 1 \in SUBSET DOMAIN cs PROVE FALSE
    OBVIOUS
  <2>2. Cardinality(1..n + 1) <= n
    BY <2>1, FS_Subset DEF Typed
  <2> QED
    BY <1>1, <1>2, <2>2
<1>4. \E i \in 1..n + 1 : i \notin DOMAIN cs
  BY <1>3
<1>5. NewId(cs) \in 1..n + 1 /\ NewId(cs) \notin DOMAIN cs
  BY <1>4 DEF NewId
<1> QED
  BY <1>1, <1>5

LEMMA OneMore ==
    ASSUME NEW S, IsFiniteSet(S), NEW x
    PROVE  Cardinality(S \cup {x}) <= Cardinality(S) + 1
<1>1. Cardinality(S) \in Nat
  BY FS_CardinalityType
<1>2. Cardinality(S \cup {x}) = Cardinality(S) \/ Cardinality(S \cup {x}) = Cardinality(S) + 1
  BY FS_AddElement
<1> QED
  BY <1>1, <1>2

LEMMA LeastNumber ==
    ASSUME NEW S, S \subseteq Nat, S # {}
    PROVE  \E i \in S : \A j \in S : i <= j
<1>1. PICK i \in S : \A j \in S : ~ (<<j, i>> \in OpToRel(<, Nat))
  BY NatLessThanWellFounded, WFMin
<1>2. \A j \in S : ~ (j < i)
  BY <1>1 DEF OpToRel
<1> QED
  BY <1>2

\* The connection of a request is its own, and all others are in use
LEMMA RequestFacts ==
    ASSUME NEW cs, Typed(cs), NEW me \in Calls, Request(cs, me)
    PROVE  /\ call'.conn \in DOMAIN connections'
           /\ connections'[call'.conn].in_use /\ ~ connections'[call'.conn].reconnecting
           /\ Typed(connections')
           /\ DOMAIN connections' = Used(cs) \cup {call'.conn}
           /\ \A i \in DOMAIN connections' : i # call'.conn => connections'[i] = cs[i]
           /\ call' \in Calls /\ call'.pc \in {"connect", "write"}
           /\ call'.gets = me.gets /\ call'.attempt = me.attempt
<1> DEFINE used == {i \in DOMAIN cs : cs[i].in_use}
           free == DOMAIN cs \ used
           conn == IF free = {} THEN NewId(cs) ELSE CHOOSE i \in free : \A j \in free : i <= j
           it   == Renewed(IF free = {} THEN Fresh ELSE cs[conn])
<1>1. /\ connections' = [i \in used \cup {conn} |->
                           IF i # conn THEN cs[i] ELSE Renewed(IF free = {} THEN Fresh ELSE cs[i])]
      /\ call' = [me EXCEPT !.conn = conn, !.junk = "none", !.got = 0, !.reading = "none",
                            !.pc = IF connections'[conn].open THEN "write" ELSE "connect"]
  BY DEF Request
<1>2. connections'[conn] = it /\ DOMAIN connections' = used \cup {conn}
      /\ \A i \in used : i # conn => connections'[i] = cs[i]
  BY <1>1
<1>3. conn \in Nat /\ (free # {} => conn \in free)
  <2>1. CASE free = {}
    BY <2>1, NewIdIsNew
  <2>2. CASE free # {}
    <3>1. free \subseteq Nat /\ IsFiniteSet(free)
      BY FS_Subset DEF Typed
    <3>2. \E i \in free : \A j \in free : i <= j
      BY <2>2, <3>1, LeastNumber
    <3> QED
      BY <2>2, <3>1, <3>2
  <2> QED
    BY <2>1, <2>2
<1>4. it \in Connection /\ it.in_use /\ ~ it.reconnecting
  <2>1. CASE free = {}
    BY <2>1, FreshTyped, ClosedFacts
  <2>2. CASE free # {}
    <3>1. cs[conn] \in Connection
      BY <2>2, <1>3 DEF Typed
    <3> QED
      BY <2>2, <3>1, ClosedFacts
  <2> QED
    BY <2>1, <2>2
<1>5. IsFiniteSet(used \cup {conn})
  <2>1. IsFiniteSet(used)
    BY FS_Subset DEF Typed
  <2> QED
    BY <2>1, FS_AddElement
<1>6. Typed(connections')
  <2>1. \A i \in used \cup {conn} : connections'[i] \in Connection
    BY <1>2, <1>4 DEF Typed
  <2> QED
    BY <1>2, <1>3, <1>5, <2>1 DEF Typed
<1>7. /\ call' \in Calls /\ call'.conn = conn /\ call'.pc \in {"connect", "write"}
      /\ call'.gets = me.gets /\ call'.attempt = me.attempt
  BY <1>1, <1>3 DEF Calls
<1> QED
  BY <1>2, <1>4, <1>6, <1>7 DEF Used

\* What a request does to the invariant, when the call so far has written as many as
\* its attempts before may have, and there are at most as many stuck connections as
\* headers that threw
LEMMA RequestInv ==
    ASSUME NEW cs, Typed(cs), NEW me \in Calls, Request(cs, me),
           me.attempt \in 1..2, me.gets <= 2 * (me.attempt - 1),
           thrown' \in Nat, Cardinality(Used(cs)) <= thrown'
    PROVE  /\ call' \in Calls /\ call'.pc # "idle" /\ call'.attempt # 0
           /\ call'.conn \in DOMAIN connections' /\ connections'[call'.conn].in_use
           /\ Typed(connections')
           /\ Written' /\ Connected'
<1>1. /\ call'.conn \in DOMAIN connections'
      /\ connections'[call'.conn].in_use /\ ~ connections'[call'.conn].reconnecting
      /\ Typed(connections')
      /\ DOMAIN connections' = Used(cs) \cup {call'.conn}
      /\ \A i \in DOMAIN connections' : i # call'.conn => connections'[i] = cs[i]
      /\ call' \in Calls /\ call'.pc \in {"connect", "write"}
      /\ call'.gets = me.gets /\ call'.attempt = me.attempt
  BY RequestFacts
<1>2. Written'
  BY <1>1 DEF Written, At, Current, Calls
<1>3. IsFiniteSet(Used(cs))
  BY FS_Subset DEF Used, Typed
<1>4. Cardinality(Used(cs)) \in Nat
  BY <1>3, FS_CardinalityType
<1>5. Cardinality(DOMAIN connections') <= 1 + thrown'
  <2>1. \A x : Cardinality(Used(cs) \cup {x}) <= Cardinality(Used(cs)) + 1
    BY <1>3, OneMore
  <2>2. Cardinality(DOMAIN connections') <= Cardinality(Used(cs)) + 1
    BY <1>1, <2>1
  <2>3. Cardinality(DOMAIN connections') \in Nat
    BY <1>1, <1>3, FS_AddElement, FS_CardinalityType
  <2> QED
    BY <1>4, <2>2, <2>3
<1>6. Cardinality(Stuck') <= thrown'
  <2>1. Stuck' \in SUBSET Used(cs)
    BY <1>1 DEF Stuck, Used, At
  <2>2. Cardinality(Stuck') <= Cardinality(Used(cs)) /\ IsFiniteSet(Stuck')
    BY <2>1, <1>3, FS_Subset
  <2>3. Cardinality(Stuck') \in Nat
    BY <2>2, FS_CardinalityType
  <2> QED
    BY <1>4, <2>2, <2>3
<1> QED
  BY <1>1, <1>2, <1>5, <1>6 DEF Connected

\* The type invariant has little else
LEMMA TypedCall ==
    TypeOK <=>
      /\ call \in Calls
      /\ At("idle") \/ (call.conn \in DOMAIN connections /\ Current.in_use /\ call.attempt # 0)
      /\ count \in [ok : Nat, failed : Nat, parse : Nat]
      /\ \A i \in DOMAIN connections : connections[i] \in Connection
      /\ use_ssl \in BOOLEAN /\ framing \in Framings
      /\ rows \in [ok : Nat, failed : Nat, missing : Nat, parse : Nat, lost : Nat]
      /\ calls \in Nat /\ thrown \in Nat /\ mishaps \in 0..2 /\ garbled \in BOOLEAN
  BY DEF TypeOK

\* getJSON catches: the second request, or the end of the call, counted as failed
LEMMA ThrowsInv ==
    ASSUME Inv, ~ At("idle"), call.gets <= 2 * call.attempt,
           NEW cs, Typed(cs), thrown' \in Nat,
           Cardinality(Used(cs)) <= thrown', Cardinality(DOMAIN cs) <= 1 + thrown',
           Throws(cs), UNCHANGED <<rows, calls>>
    PROVE  CallInv'
<1> USE DEF Inv
<1>1. CASE Retries
  <2> DEFINE me == [call EXCEPT !.attempt = 2]
             base == IF use_ssl THEN <<>> ELSE cs
  <2>1. Request(base, me) /\ UNCHANGED count /\ call.attempt = 1
    BY <1>1 DEF Throws, Retries
  <2>2. me \in Calls /\ me.attempt = 2 /\ me.gets = call.gets
    BY DEF CallInv, Calls
  <2>3. Typed(base) /\ Cardinality(Used(base)) <= thrown'
    <3>1. DOMAIN <<>> = {} /\ Used(<<>>) = {}
      BY DEF Used
    <3>2. Typed(<<>>)
      BY <3>1, FS_EmptySet DEF Typed
    <3>3. Cardinality(Used(<<>>)) = 0
      <4>1. Cardinality({}) = 0
        BY FS_EmptySet
      <4> QED
        BY <3>1, <4>1, Zenon
    <3> QED
      BY <3>2, <3>3
  <2>4. call.gets <= 2
    BY <2>1
  <2>5. /\ call' \in Calls /\ call'.pc # "idle" /\ call'.attempt # 0
        /\ call'.conn \in DOMAIN connections' /\ connections'[call'.conn].in_use
        /\ Typed(connections') /\ Written' /\ Connected'
    <3> HIDE DEF me, base
    <3> QED
      BY <2>1, <2>2, <2>3, <2>4, RequestInv
  <2>6. CountsKept'
    BY <2>1, <2>5 DEF CallInv, CountsKept, At
  <2> QED
    BY <2>1, <2>5, <2>6 DEF CallInv, At, Current
<1>2. CASE ~ Retries
  <2>1. /\ connections' = cs /\ call' = [Idle EXCEPT !.last = "failed", !.gets = call.gets]
        /\ count' = [count EXCEPT !.failed = @ + 1]
    BY <1>2 DEF Throws
  <2>2. call' \in Calls /\ call'.pc = "idle" /\ call'.gets = call.gets
    <3>1. call.gets \in Nat
      BY DEF CallInv, Calls
    <3>2. call' = [pc |-> "idle", last |-> "failed", attempt |-> 0, gets |-> call.gets,
                   conn |-> 0, junk |-> "none", got |-> 0, reading |-> "none"]
      BY <2>1 DEF Idle
    <3> QED
      BY <3>1, <3>2 DEF Calls
  <2>3. call.gets <= 4
    BY DEF CallInv, Calls
  <2>4. Written'
    BY <2>2, <2>3 DEF Written, At
  <2>5. Stuck' \subseteq Used(cs)
    BY <2>1 DEF Stuck, Used
  <2>6. Cardinality(Stuck') <= thrown'
    <3>1. IsFiniteSet(Used(cs))
      BY FS_Subset DEF Used, Typed
    <3>2. Cardinality(Stuck') <= Cardinality(Used(cs)) /\ IsFiniteSet(Stuck')
      BY <2>5, <3>1, FS_Subset
    <3>3. Cardinality(Stuck') \in Nat /\ Cardinality(Used(cs)) \in Nat
      BY <3>1, <3>2, FS_CardinalityType
    <3> QED
      BY <3>2, <3>3
  <2>7. Connected'
    BY <2>1, <2>6 DEF Connected
  <2>8. count' \in [ok : Nat, failed : Nat, parse : Nat]
        /\ count'.ok = count.ok /\ count'.failed = count.failed + 1 /\ count'.parse = count.parse
    BY <2>1 DEF CallInv
  <2>9. CountsKept'
    <3>1. count \in [ok : Nat, failed : Nat, parse : Nat] /\ calls \in Nat
          /\ rows \in [ok : Nat, failed : Nat, missing : Nat, parse : Nat, lost : Nat]
      BY DEF TypeOK
    <3>2. count.failed + 1 + count.ok + count.parse
            + rows.ok + rows.failed + rows.missing + rows.parse + rows.lost = calls
      BY <3>1, TypedCall DEF CallInv, CountsKept, At
    <3> QED
      BY <2>2, <2>8, <3>1, <3>2 DEF CountsKept, At
  <2> QED
    BY <2>1, <2>2, <2>4, <2>7, <2>8, <2>9 DEF CallInv, At
<1> QED
  BY <1>1, <1>2

(***************************************************************************)
(* The connection of the call                                              *)
(***************************************************************************)
LEMMA CurrentFacts ==
    ASSUME Inv, ~ At("idle")
    PROVE  /\ call.conn \in DOMAIN connections /\ Current \in Connection /\ Current.in_use
           /\ call.attempt \in 1..2 /\ call.gets \in Nat
           /\ call.gets <= 2 * call.attempt
<1>1. /\ call \in Calls /\ call.conn \in DOMAIN connections
      /\ Current.in_use /\ call.attempt # 0 /\ Typed(connections) /\ Written
  BY DEF Inv, CallInv
<1>2. Current \in Connection
  BY <1>1 DEF Typed, Current
<1>3. call.attempt \in 1..2 /\ call.gets \in Nat
  BY <1>1 DEF Calls
<1>4. call.gets <= 2 * call.attempt
  BY <1>1, <1>3 DEF Written
<1> QED
  BY <1>1, <1>2, <1>3, <1>4

LEMMA WithFacts ==
    ASSUME Inv, ~ At("idle"), NEW c \in Connection
    PROVE  /\ Typed(With(c)) /\ DOMAIN With(c) = DOMAIN connections
           /\ With(c)[call.conn] = c
           /\ \A i \in DOMAIN connections : i # call.conn => With(c)[i] = connections[i]
           /\ Cardinality(DOMAIN With(c)) <= 1 + thrown
           /\ Cardinality(Used(With(c))) <= 1 + thrown
           /\ ~ c.in_use => Cardinality(Used(With(c))) <= thrown
<1>1. call.conn \in DOMAIN connections /\ Typed(connections) /\ Connected /\ thrown \in Nat
  BY CurrentFacts, TypedCall DEF Inv, CallInv
<1>2. /\ DOMAIN With(c) = DOMAIN connections /\ With(c)[call.conn] = c
      /\ \A i \in DOMAIN connections : i # call.conn => With(c)[i] = connections[i]
  BY <1>1 DEF With
<1>3. Typed(With(c))
  BY <1>1, <1>2 DEF Typed
<1>4. IsFiniteSet(Stuck)
  BY <1>1, FS_Subset DEF Typed, Stuck, Used
<1>5. Used(With(c)) \subseteq Stuck \cup {call.conn} /\ (~ c.in_use => Used(With(c)) \subseteq Stuck)
  BY <1>2 DEF Used, Stuck
<1>6. /\ IsFiniteSet(Stuck \cup {call.conn}) /\ Cardinality(Stuck \cup {call.conn}) <= Cardinality(Stuck) + 1
      /\ Cardinality(Stuck) \in Nat /\ Cardinality(Stuck \cup {call.conn}) \in Nat
  BY <1>4, OneMore, FS_AddElement, FS_CardinalityType
<1>7. Cardinality(Used(With(c))) \in Nat
  BY <1>5, <1>6, FS_Subset, FS_CardinalityType
<1>8. Cardinality(Used(With(c))) <= 1 + thrown
  <2>1. Cardinality(Used(With(c))) <= Cardinality(Stuck \cup {call.conn})
    BY <1>5, <1>6, FS_Subset
  <2> QED
    BY <1>1, <1>6, <1>7, <2>1 DEF Connected
<1>9. ~ c.in_use => Cardinality(Used(With(c))) <= thrown
  <2>1. ~ c.in_use => Cardinality(Used(With(c))) <= Cardinality(Stuck)
    BY <1>4, <1>5, FS_Subset
  <2> QED
    BY <1>1, <1>6, <1>7, <2>1 DEF Connected
<1> QED
  BY <1>1, <1>2, <1>3, <1>8, <1>9 DEF Connected

LEMMA ErrorInv ==
    ASSUME Inv, ~ At("idle"), Error, UNCHANGED <<rows, calls, thrown>>
    PROVE  CallInv'
<1> DEFINE c == Released(Closed(Current))
<1>1. c \in Connection /\ ~ c.in_use
  BY CurrentFacts, ClosedFacts
<1>2. Throws(With(c))
  BY DEF Error
<1>3. thrown' = thrown /\ thrown \in Nat
  BY TypedCall DEF Inv
<1> HIDE DEF c
<1> QED
  BY <1>1, <1>2, <1>3, CurrentFacts, WithFacts, ThrowsInv

\* The end of the call, counted by its result
LEMMA ReplyInv ==
    ASSUME Inv, ~ At("idle"), NEW c \in Connection, NEW whole \in BOOLEAN, Reply(c, whole),
           UNCHANGED <<rows, calls, thrown>>
    PROVE  CallInv'
<1>1. Released(c) \in Connection /\ ~ Released(c).in_use
  BY ClosedFacts
<1>2. thrown \in Nat /\ CountsKept /\ count \in [ok : Nat, failed : Nat, parse : Nat]
      /\ rows \in [ok : Nat, failed : Nat, missing : Nat, parse : Nat, lost : Nat] /\ calls \in Nat
  BY TypedCall DEF Inv, CallInv
<1>3. connections' = With(Released(c))
  BY DEF Reply
<1>4. call' = [pc |-> "idle", last |-> IF whole THEN "ok" ELSE "parse", attempt |-> 0,
               gets |-> call.gets, conn |-> 0, junk |-> "none", got |-> 0, reading |-> "none"]
  BY DEF Reply, Idle
<1>5. call' \in Calls /\ call'.pc = "idle" /\ call'.gets = call.gets
  BY <1>4, CurrentFacts DEF Calls
<1>6. Written'
  BY <1>5, CurrentFacts DEF Written, At
<1>7. Connected' /\ Typed(connections)'
  <2>1. Stuck' = Used(With(Released(c)))
    BY <1>3, <1>5 DEF Stuck, Used, At
  <2> QED
    BY <1>1, <1>2, <1>3, <2>1, WithFacts DEF Connected
<1>8. /\ count' \in [ok : Nat, failed : Nat, parse : Nat]
      /\ count'.ok + count'.failed + count'.parse = count.ok + count.failed + count.parse + 1
  <2>1. count' = [count EXCEPT ![IF whole THEN "ok" ELSE "parse"] = @ + 1]
    BY DEF Reply
  <2>2. CASE whole
    BY <1>2, <2>1, <2>2
  <2>3. CASE ~ whole
    BY <1>2, <2>1, <2>3
  <2> QED
    BY <2>2, <2>3
<1>9. CountsKept'
  BY <1>2, <1>5, <1>8 DEF CountsKept, At
<1> QED
  BY <1>5, <1>6, <1>7, <1>8, <1>9 DEF CallInv, At

\* The call goes on, on its connection
LEMMA StayInv ==
    ASSUME Inv, ~ At("idle"), NEW c \in Connection, c.in_use, connections' = With(c),
           call' \in Calls, call'.pc # "idle", call'.conn = call.conn,
           call'.attempt = call.attempt, Written', UNCHANGED <<count, rows, calls, thrown>>
    PROVE  CallInv'
<1>1. Stuck' = Stuck
  BY WithFacts DEF Stuck, Used, At
<1>2. Connected'
  BY <1>1, WithFacts DEF Inv, CallInv, Connected
<1>3. CountsKept'
  BY DEF Inv, CallInv, CountsKept, At
<1> QED
  BY <1>2, <1>3, WithFacts, CurrentFacts DEF Inv, CallInv, At, Current

\* The agent, or the network, at work on a connection
LEMMA OutsideInv ==
    ASSUME Inv, NEW i \in DOMAIN connections, NEW c \in Connection,
           c.in_use = connections[i].in_use, c.reconnecting = connections[i].reconnecting,
           connections' = [connections EXCEPT ![i] = c],
           UNCHANGED <<call, count, rows, calls, thrown>>
    PROVE  CallInv'
<1>1. /\ DOMAIN connections' = DOMAIN connections
      /\ \A j \in DOMAIN connections : /\ connections'[j].in_use = connections[j].in_use
                                      /\ connections'[j].reconnecting = connections[j].reconnecting
  OBVIOUS
<1>2. Typed(connections')
  BY <1>1 DEF Inv, CallInv, Typed
<1>3. Stuck' = Stuck
  BY <1>1 DEF Stuck, Used, At
<1>4. Connected'
  BY <1>1, <1>3 DEF Inv, CallInv, Connected
<1>5. Written'
  BY <1>1 DEF Inv, CallInv, Written, At, Current
<1> QED
  BY <1>1, <1>2, <1>4, <1>5 DEF Inv, CallInv, CountsKept, At, Current

(***************************************************************************)
(* Steps                                                                   *)
(***************************************************************************)
Rest ==
    /\ use_ssl \in BOOLEAN /\ framing \in Framings
    /\ rows \in [ok : Nat, failed : Nat, missing : Nat, parse : Nat, lost : Nat]
    /\ calls \in Nat /\ thrown \in Nat /\ mishaps \in 0..2 /\ garbled \in BOOLEAN

LEMMA InvParts == CallInv' /\ Rest' => Inv'
  BY DEF Inv, CallInv, Rest, TypeOK, Typed

LEMMA RestHolds == Inv => Rest
  BY DEF Inv, TypeOK, Rest

LEMMA InitInv == Init => Inv
<1> SUFFICES ASSUME Init PROVE Inv
  OBVIOUS
<1>1. DOMAIN connections = {} /\ Stuck = {}
  BY DEF Init, Stuck, Used
<1>2. Typed(connections) /\ Cardinality(Stuck) = 0 /\ Cardinality(DOMAIN connections) = 0
  BY <1>1, FS_EmptySet DEF Typed
<1>3. call \in Calls /\ At("idle") /\ call.gets = 0
  BY DEF Init, Idle, Calls, At
<1>4. count \in [ok : Nat, failed : Nat, parse : Nat] /\ CountsKept
  BY <1>3 DEF Init, NoCount, CountsKept
<1>5. CallInv
  BY <1>2, <1>3, <1>4 DEF CallInv, Written, Connected, Init
<1>6. Rest
  <2>1. rows \in [ok : Nat, failed : Nat, missing : Nat, parse : Nat, lost : Nat]
    BY DEF Init
  <2>2. use_ssl \in BOOLEAN /\ framing \in Framings /\ garbled \in BOOLEAN
    BY Zenon DEF Init
  <2>3. calls \in Nat /\ thrown \in Nat /\ mishaps \in 0..2
    BY DEF Init
  <2> QED
    BY <2>1, <2>2, <2>3 DEF Rest
<1>7. TypeOK
  BY <1>5, <1>6 DEF TypeOK, CallInv, Typed, Rest
<1> QED
  BY <1>5, <1>7 DEF Inv

LEMMA CallStep == Inv /\ Call => Inv'
<1> SUFFICES ASSUME Inv, Call PROVE Inv'
  OBVIOUS
<1> DEFINE me == [Idle EXCEPT !.attempt = 1]
<1>1. me \in Calls /\ me.attempt = 1 /\ me.gets = 0
  <2>1. me = [pc |-> "idle", last |-> "ok", attempt |-> 1, gets |-> 0, conn |-> 0,
              junk |-> "none", got |-> 0, reading |-> "none"]
    BY DEF Idle
  <2> QED
    BY <2>1 DEF Calls
<1>2. /\ At("idle") /\ Request(Kept, me) /\ calls' = calls + 1
      /\ UNCHANGED <<server, count, rows, garbled, thrown>> /\ mishaps' \in {0, 1}
  BY DEF Call
<1>3. Typed(Kept) /\ Cardinality(Used(Kept)) <= thrown
  <2>1. CASE use_ssl
    <3>1. Kept = <<>> /\ DOMAIN Kept = {} /\ Used(Kept) = {}
      BY <2>1 DEF Kept, Used
    <3>2. Cardinality(Used(Kept)) = 0
      BY <3>1, FS_EmptySet
    <3>3. thrown \in Nat
      BY RestHolds DEF Rest
    <3> QED
      BY <3>1, <3>2, <3>3, FS_EmptySet DEF Typed
  <2>2. CASE ~ use_ssl
    <3>1. Kept = connections /\ Used(Kept) = Stuck
      BY <1>2, <2>2 DEF Kept, Stuck, Used
    <3> QED
      BY <3>1 DEF Inv, CallInv, Connected
  <2> QED
    BY <2>1, <2>2
<1>4. thrown' = thrown /\ thrown \in Nat
  BY <1>2, RestHolds DEF Rest
<1>5. /\ call' \in Calls /\ call'.pc # "idle" /\ call'.attempt # 0
      /\ call'.conn \in DOMAIN connections' /\ connections'[call'.conn].in_use
      /\ Typed(connections') /\ Written' /\ Connected'
  <2> HIDE DEF me
  <2> QED
    BY <1>1, <1>2, <1>3, <1>4, RequestInv
<1>6. CountsKept'
  BY <1>2, <1>5, RestHolds DEF Inv, CallInv, CountsKept, At, Rest
<1>7. CallInv'
  BY <1>2, <1>5, <1>6 DEF Inv, CallInv, At, Current
<1>8. Rest'
  BY <1>2, RestHolds DEF Rest, server
<1> QED
  BY <1>7, <1>8, InvParts

LEMMA ReportStep == Inv /\ Report => Inv'
<1> SUFFICES ASSUME Inv, Report PROVE Inv'
  OBVIOUS
<1>1. /\ At("idle") /\ count' = NoCount
      /\ UNCHANGED <<server, connections, call, ghosts>>
  BY DEF Report, Reset
<1>2. /\ count \in [ok : Nat, failed : Nat, parse : Nat] /\ CountsKept
      /\ rows \in [ok : Nat, failed : Nat, missing : Nat, parse : Nat, lost : Nat] /\ calls \in Nat
  BY RestHolds DEF Inv, CallInv, Rest
<1>3. /\ rows' \in [ok : Nat, failed : Nat, missing : Nat, parse : Nat, lost : Nat]
      /\ rows'.ok + rows'.failed + rows'.missing + rows'.parse + rows'.lost
           = rows.ok + rows.failed + rows.missing + rows.parse + rows.lost
               + count.ok + count.failed + count.parse
  <2>1. CASE rows' = NewRow
    BY <1>2, <2>1 DEF NewRow
  <2>2. CASE rows' = LostRow
    BY <1>2, <2>2 DEF LostRow
  <2> QED
    BY <2>1, <2>2 DEF Report
<1>4. /\ count' \in [ok : Nat, failed : Nat, parse : Nat]
      /\ count'.ok = 0 /\ count'.failed = 0 /\ count'.parse = 0
  BY <1>1 DEF NoCount
<1>5. CountsKept'
  BY <1>1, <1>2, <1>3, <1>4 DEF CountsKept, At, ghosts
<1>6. CallInv'
  BY <1>1, <1>4, <1>5 DEF Inv, CallInv, Connected, Stuck, Written, At, Current, ghosts
<1>7. Rest'
  BY <1>1, <1>3, RestHolds DEF Rest, server, ghosts
<1> QED
  BY <1>6, <1>7, InvParts

LEMMA MishapType == mishaps \in 0..2 /\ Mishap => mishaps' \in 0..2
  BY DEF Mishap

LEMMA GotoFacts ==
    ASSUME call \in Calls, NEW p \in {"connect", "handshake", "write", "read", "body"}, Goto(p)
    PROVE  /\ call' \in Calls /\ call'.pc = p /\ call'.conn = call.conn
           /\ call'.attempt = call.attempt /\ call'.gets = call.gets
  BY DEF Goto, Calls

\* Whatever fails before the header is read
LEMMA FailStep ==
    ASSUME Inv, ~ At("idle"), Error, UNCHANGED <<server, rows, calls, garbled, thrown>>,
           UNCHANGED mishaps \/ Mishap
    PROVE  Inv'
<1>1. CallInv'
  BY ErrorInv
<1>2. Rest'
  BY RestHolds, MishapType DEF Rest, server
<1> QED
  BY <1>1, <1>2, InvParts

LEMMA ConnectStep == Inv /\ Connect => Inv'
<1> SUFFICES ASSUME Inv, Connect PROVE Inv'
  OBVIOUS
<1> DEFINE c == [Current EXCEPT !.open = TRUE, !.peer = TRUE]
<1>1. At("connect") /\ ~ At("idle")
  BY DEF Connect, At
<1>2. /\ call' \in Calls /\ call'.pc \in {"handshake", "write"} /\ call'.conn = call.conn
      /\ call'.attempt = call.attempt /\ call'.gets = call.gets
  BY GotoFacts DEF Connect, Inv, CallInv
<1>3. c \in Connection /\ c.in_use /\ c.reconnecting = Current.reconnecting
  BY <1>1, CurrentFacts DEF Connection
<1>4. connections' = With(c) /\ UNCHANGED <<server, count, rows, ghosts>>
  BY DEF Connect
<1>5. Current' = c
  BY <1>1, <1>2, <1>3, <1>4, WithFacts DEF Current
<1>6. Written'
  BY <1>1, <1>2, <1>3, <1>5, CurrentFacts DEF Inv, CallInv, Written, At
<1>7. CallInv'
  <2> HIDE DEF c
  <2> QED
    BY <1>1, <1>2, <1>3, <1>4, <1>6, StayInv DEF ghosts
<1> QED
  BY <1>4, <1>7, RestHolds, InvParts DEF Rest, server, ghosts

LEMMA HandshakeStep == Inv /\ Handshake => Inv'
<1> SUFFICES ASSUME Inv, Handshake PROVE Inv'
  OBVIOUS
<1>1. At("handshake") /\ ~ At("idle")
  BY DEF Handshake, At
<1>2. /\ call' \in Calls /\ call'.pc = "write" /\ call'.conn = call.conn
      /\ call'.attempt = call.attempt /\ call'.gets = call.gets
  BY GotoFacts DEF Handshake, Inv, CallInv
<1>3. UNCHANGED <<server, connections, count, rows, ghosts>>
  BY DEF Handshake
<1>4. Written'
  BY <1>1, <1>2, <1>3, CurrentFacts DEF Inv, CallInv, Written, At, Current
<1>5. CallInv'
  BY <1>1, <1>2, <1>3, <1>4 DEF Inv, CallInv, At, Current, Connected, Stuck, CountsKept, ghosts
<1> QED
  BY <1>3, <1>5, RestHolds, InvParts DEF Rest, server, ghosts

LEMMA UnitsTyped == Units \in Seq({"head", "body", "end"})
  BY DEF Units

LEMMA WriteStep == Inv /\ Write => Inv'
<1> SUFFICES ASSUME Inv, Write PROVE Inv'
  OBVIOUS
<1>1. At("write") /\ ~ At("idle")
  BY DEF Write, At
<1>2. call' = [call EXCEPT !.pc = "read", !.gets = @ + 1] /\ call \in Calls
      /\ UNCHANGED <<server, count, rows, calls, mishaps, thrown>>
  BY DEF Write, Inv, CallInv
<1>3. /\ call' \in Calls /\ call'.pc = "read" /\ call'.conn = call.conn
      /\ call'.attempt = call.attempt /\ call'.gets = call.gets + 1
  <2>1. call.gets \in Nat
    BY <1>2 DEF Calls
  <2>2. call' = [[call EXCEPT !.pc = "read"] EXCEPT !.gets = call.gets + 1]
    BY <1>2
  <2> DEFINE step == [call EXCEPT !.pc = "read"]
  <2>3. step \in Calls /\ step.conn = call.conn /\ step.attempt = call.attempt /\ step.pc = "read"
    BY <1>2 DEF Calls
  <2>4. call' = [step EXCEPT !.gets = call.gets + 1]
    BY <2>2
  <2> HIDE DEF step
  <2> QED
    BY <2>1, <2>3, <2>4 DEF Calls
<1>4. ASSUME connections' = With([Current EXCEPT !.out = @ \o Units])
      PROVE  CallInv'
  <2> DEFINE c == [Current EXCEPT !.out = @ \o Units]
  <2>1. Current.out \o Units \in Seq({"head", "body", "end"})
    BY <1>1, CurrentFacts, UnitsTyped, ConcatProperties DEF Connection
  <2>2. c \in Connection /\ c.in_use /\ c.reconnecting = Current.reconnecting
    BY <1>1, <2>1, CurrentFacts DEF Connection
  <2>3. Current' = c
    BY <1>1, <1>3, <1>4, <2>2, WithFacts DEF Current
  <2>4. Written'
    BY <1>1, <1>3, <2>2, <2>3, CurrentFacts DEF Inv, CallInv, Written, At
  <2> HIDE DEF c
  <2> QED
    BY <1>1, <1>2, <1>3, <1>4, <2>2, <2>4, StayInv DEF c
<1>5. ASSUME connections' = connections
      PROVE  CallInv'
  <2>1. Written'
    BY <1>1, <1>3, <1>5, CurrentFacts DEF Inv, CallInv, Written, At, Current
  <2> QED
    BY <1>1, <1>2, <1>3, <1>5, <2>1 DEF Inv, CallInv, At, Current, Connected, Stuck, CountsKept
<1>7. CallInv'
  BY <1>4, <1>5 DEF Write
<1>8. garbled' \in BOOLEAN
  <2>1. garbled \in BOOLEAN
    BY RestHolds DEF Rest
  <2>2. garbled' = (garbled \/ framing = "none") \/ garbled' = garbled
    BY DEF Write
  <2> QED
    BY <2>1, <2>2
<1>9. Rest'
  BY <1>2, <1>8, RestHolds DEF Rest, server
<1> QED
  BY <1>7, <1>9, InvParts

LEMMA ReadHeadStep == Inv /\ ReadHead => Inv'
<1> SUFFICES ASSUME Inv, ReadHead PROVE Inv'
  OBVIOUS
<1>1. At("read") /\ ~ At("idle")
  BY DEF ReadHead, At
<1> DEFINE head == CHOOSE i \in Heads : \A j \in Heads : i <= j
           rest == SubSeq(Current.wire, head + 1, Len(Current.wire))
           junk == Behind(SubSeq(Current.wire, 1, head - 1))
<1>2. PICK r \in Readings(junk), k \in 0..Len(rest) :
         LET c == [Current EXCEPT !.reconnecting = FALSE,
                                  !.wire = SubSeq(rest, k + 1, Len(rest))]
         IN  CASE r = "throws" -> Throws(With(c)) /\ thrown' = thrown + 1
             []   r = "none"   -> Reply(c, junk = "none" /\ k = 2) /\ UNCHANGED thrown
             []   OTHER        ->
                    /\ connections' = With(c)
                    /\ call' = [call EXCEPT !.pc = "body", !.reading = r, !.got = k,
                                            !.junk = "none"]
                    /\ UNCHANGED <<count, thrown>>
  BY DEF ReadHead
<1> HIDE DEF junk
<1> DEFINE wire == SubSeq(rest, k + 1, Len(rest))
           c == [Current EXCEPT !.reconnecting = FALSE, !.wire = wire]
<1>3. UNCHANGED <<server, rows, calls, mishaps, garbled>>
  BY DEF ReadHead
<1>4. wire \in Seq({"head", "body", "end", "cut"})
  <2> DEFINE U == {"head", "body", "end", "cut"}
  <2>1. Current.wire \in Seq(U) /\ Len(Current.wire) \in Nat
    BY <1>1, CurrentFacts DEF Connection
  <2>2. head \in Heads /\ Heads \subseteq 1..Len(Current.wire)
    <3>1. Heads \subseteq Nat /\ Heads # {}
      BY <2>1 DEF ReadHead, Heads
    <3>2. \E i \in Heads : \A j \in Heads : i <= j
      BY <3>1, LeastNumber
    <3> QED
      BY <3>2 DEF Heads
  <2>3. rest \in Seq(U)
    <3>1. \A i \in head + 1 .. Len(Current.wire) : Current.wire[i] \in U
      BY <2>1, <2>2
    <3> HIDE DEF head, U
    <3>2. head + 1 \in Int /\ Len(Current.wire) \in Int
      BY <2>1, <2>2
    <3> QED
      BY <3>1, <3>2, SubSeqProperties
  <2>4. Len(rest) \in Nat /\ \A i \in k + 1 .. Len(rest) : rest[i] \in U
    <3> HIDE DEF rest, U
    <3> QED
      BY <2>3
  <2> HIDE DEF rest, U
  <2>5. k + 1 \in Int /\ Len(rest) \in Int
    BY <2>4
  <2>6. wire \in Seq(U)
    BY <2>4, <2>5, SubSeqProperties
  <2> QED
    BY <2>6 DEF U
<1>5. c \in Connection /\ c.in_use /\ ~ c.reconnecting
  <2> HIDE DEF wire
  <2> QED
    BY <1>1, <1>4, CurrentFacts DEF Connection
<1>6. /\ r = "throws" => Throws(With(c)) /\ thrown' = thrown + 1
      /\ r = "none" => Reply(c, junk = "none" /\ k = 2) /\ UNCHANGED thrown
      /\ r \notin {"throws", "none"} =>
            /\ connections' = With(c)
            /\ call' = [call EXCEPT !.pc = "body", !.reading = r, !.got = k, !.junk = "none"]
            /\ UNCHANGED <<count, thrown>>
  BY <1>2
<1> HIDE DEF wire, rest, c
<1>7. CASE r = "throws"
  <2>1. thrown' = 1 + thrown /\ thrown' \in Nat
    BY <1>6, <1>7, RestHolds DEF Rest
  <2>2. CallInv'
    <3>1. call.gets <= 2 * call.attempt
      BY <1>1, CurrentFacts
    <3>2. /\ Typed(With(c)) /\ Cardinality(Used(With(c))) <= thrown'
          /\ Cardinality(DOMAIN With(c)) <= 1 + thrown
      BY <1>1, <1>5, <2>1, WithFacts
    <3>3. Cardinality(DOMAIN With(c)) \in Nat
      BY <3>2, FS_CardinalityType DEF Typed
    <3>4. Cardinality(DOMAIN With(c)) <= 1 + thrown'
      BY <2>1, <3>2, <3>3, RestHolds DEF Rest
    <3> QED
      BY <1>1, <1>3, <1>6, <1>7, <2>1, <3>1, <3>2, <3>4, ThrowsInv
  <2> QED
    BY <1>3, <2>1, <2>2, RestHolds, InvParts DEF Rest, server
<1>8. CASE r = "none"
  <2>1. CallInv'
    <3> DEFINE whole == junk = "none" /\ k = 2
    <3>1. whole \in BOOLEAN
      OBVIOUS
    <3> HIDE DEF whole
    <3> QED
      BY <1>1, <1>3, <1>5, <1>6, <1>8, <3>1, ReplyInv DEF whole
  <2> QED
    BY <1>3, <1>6, <1>8, <2>1, RestHolds, InvParts DEF Rest, server
<1>9. CASE r \notin {"throws", "none"}
  <2>1. /\ connections' = With(c) /\ UNCHANGED <<count, thrown>>
        /\ call' = [call EXCEPT !.pc = "body", !.reading = r, !.got = k, !.junk = "none"]
    BY <1>6, <1>9
  <2>2. r \in Framings \cup {"none", "garbage"}
    BY <1>9, RestHolds DEF Readings, Rest
  <2>3. k \in Nat
    OBVIOUS
  <2>4. /\ call' \in Calls /\ call'.pc = "body" /\ call'.conn = call.conn
        /\ call'.attempt = call.attempt /\ call'.gets = call.gets
    <3>1. call \in Calls
      BY DEF Inv, CallInv
    <3> QED
      BY <2>1, <2>2, <2>3, <3>1 DEF Calls
  <2>5. Written'
    BY <1>1, <2>4, CurrentFacts DEF Inv, CallInv, Written, At
  <2>6. CallInv'
    BY <1>1, <1>3, <1>5, <2>1, <2>4, <2>5, StayInv
  <2> QED
    BY <1>3, <2>1, <2>6, RestHolds, InvParts DEF Rest, server
<1> QED
  BY <1>7, <1>8, <1>9

LEMMA ReadFailsStep == Inv /\ ReadFails => Inv'
<1> SUFFICES ASSUME Inv, ReadFails PROVE Inv'
  OBVIOUS
<1>1. At("read") /\ ~ At("idle") /\ UNCHANGED <<server, rows, ghosts>>
  BY DEF ReadFails, At
<1>2. CASE Current.reconnecting
  BY <1>1, <1>2, FailStep DEF ReadFails, ghosts
<1>3. CASE ~ Current.reconnecting
  <2> DEFINE c == Reconnecting(Closed(Current))
  <2>1. c \in Connection /\ c.in_use /\ c.reconnecting
    <3> DEFINE closed == Closed(Current)
    <3>1. closed \in Connection /\ closed.in_use
      BY <1>1, CurrentFacts, ClosedFacts
    <3>2. c = [closed EXCEPT !.reconnecting = TRUE]
      BY DEF Reconnecting
    <3> HIDE DEF closed, c
    <3> QED
      BY <3>1, <3>2 DEF Connection
  <2>2. /\ connections' = With(c) /\ UNCHANGED count
        /\ call' = [call EXCEPT !.pc = "connect", !.junk = Behind(Current.wire)]
    BY <1>3 DEF ReadFails
  <2> HIDE DEF c
  <2>3. call \in Calls /\ Behind(Current.wire) \in {"none", "left", "cut"}
    BY DEF Inv, CallInv, Calls, Behind
  <2>4. /\ call' \in Calls /\ call'.pc = "connect" /\ call'.conn = call.conn
        /\ call'.attempt = call.attempt /\ call'.gets = call.gets
    BY <2>2, <2>3 DEF Calls
  <2>5. Current' = c
    BY <1>1, <2>1, <2>2, <2>4, WithFacts DEF Current
  <2>6. Written'
    BY <1>1, <1>3, <2>1, <2>4, <2>5, CurrentFacts DEF Inv, CallInv, Written, At
  <2>7. CallInv'
    BY <1>1, <2>1, <2>2, <2>4, <2>6, StayInv DEF ghosts
  <2> QED
    BY <1>1, <2>7, RestHolds, InvParts DEF Rest, server, ghosts
<1> QED
  BY <1>2, <1>3

LEMMA ReadUnitStep == ASSUME Inv, NEW readings, ReadUnit(readings) PROVE Inv'
<1> DEFINE c == [Current EXCEPT !.wire = Tail(@)]
<1>1. /\ At("body") /\ ~ At("idle") /\ Current.wire # <<>> /\ connections' = With(c)
      /\ call' = [call EXCEPT !.got = IF @ = 3 THEN 3 ELSE @ + 1]
      /\ UNCHANGED <<server, count, rows, ghosts>>
  BY DEF ReadUnit, At
<1>2. c \in Connection /\ c.in_use
  <2>1. Tail(Current.wire) \in Seq({"head", "body", "end", "cut"})
    BY <1>1, CurrentFacts, HeadTailProperties DEF Connection
  <2> QED
    BY <1>1, <2>1, CurrentFacts DEF Connection
<1>3. /\ call' \in Calls /\ call'.pc = "body" /\ call'.conn = call.conn
      /\ call'.attempt = call.attempt /\ call'.gets = call.gets
  <2>1. call \in Calls /\ call.pc = "body"
    BY <1>1 DEF Inv, CallInv, At
  <2> DEFINE g == IF call.got = 3 THEN 3 ELSE call.got + 1
  <2>2. g \in Nat
    <3>1. call.got \in Nat
      BY <2>1 DEF Calls
    <3> QED
      BY <3>1
  <2>3. call' = [call EXCEPT !.got = g]
    BY <1>1
  <2> HIDE DEF g
  <2> QED
    BY <2>1, <2>2, <2>3 DEF Calls
<1>4. Written'
  BY <1>1, <1>3, CurrentFacts DEF Inv, CallInv, Written, At
<1> HIDE DEF c
<1>5. CallInv'
  BY <1>1, <1>2, <1>3, <1>4, StayInv DEF ghosts
<1> QED
  BY <1>1, <1>5, RestHolds, InvParts DEF Rest, server, ghosts

LEMMA BodyEndsStep == Inv /\ BodyEnds => Inv'
<1> SUFFICES ASSUME Inv, BodyEnds PROVE Inv'
  OBVIOUS
<1>1. At("body") /\ ~ At("idle") /\ UNCHANGED <<server, rows, ghosts>>
  BY DEF BodyEnds, At
<1>2. Current \in Connection /\ Closed(Current) \in Connection
  BY <1>1, CurrentFacts, ClosedFacts
<1>3. \E c \in Connection, whole \in BOOLEAN : Reply(c, whole)
  BY <1>2 DEF BodyEnds, Done
<1>4. CallInv'
  BY <1>1, <1>3, ReplyInv DEF ghosts
<1> QED
  BY <1>1, <1>4, RestHolds, InvParts DEF Rest, server, ghosts

LEMMA AgentSendsStep == Inv /\ AgentSends => Inv'
<1> SUFFICES ASSUME Inv, AgentSends PROVE Inv'
  OBVIOUS
<1> DEFINE u == Head(Current.out)
           c == [Current EXCEPT !.wire = Append(@, u), !.peer = u # "end",
                                !.out = IF u = "end" THEN <<>> ELSE Tail(@)]
<1>1. /\ ~ At("idle") /\ Current.out # <<>> /\ connections' = With(c)
      /\ UNCHANGED <<server, call, count, rows, calls, garbled, thrown>>
      /\ Mishap \/ UNCHANGED mishaps
  BY DEF AgentSends
<1>2. c \in Connection /\ c.in_use = Current.in_use /\ c.reconnecting = Current.reconnecting
  <2>1. Current.out \in Seq({"head", "body", "end"}) /\ Current.wire \in Seq({"head", "body", "end", "cut"})
    BY <1>1, CurrentFacts DEF Connection
  <2>2. u \in {"head", "body", "end"} /\ Tail(Current.out) \in Seq({"head", "body", "end"})
    BY <1>1, <2>1, HeadTailProperties
  <2> HIDE DEF u
  <2>3. Append(Current.wire, u) \in Seq({"head", "body", "end", "cut"})
    BY <2>1, <2>2
  <2>4. (IF u = "end" THEN <<>> ELSE Tail(Current.out)) \in Seq({"head", "body", "end"})
    BY <2>2, EmptySequence
  <2> DEFINE w == Append(Current.wire, u)
             o == IF u = "end" THEN <<>> ELSE Tail(Current.out)
             p == u # "end"
  <2>5. c = [[[Current EXCEPT !.wire = w] EXCEPT !.peer = p] EXCEPT !.out = o]
    OBVIOUS
  <2>6. w \in Seq({"head", "body", "end", "cut"}) /\ o \in Seq({"head", "body", "end"})
        /\ p \in BOOLEAN
    BY <2>3, <2>4
  <2> HIDE DEF c, w, o, p
  <2> QED
    BY <1>1, <2>5, <2>6, CurrentFacts DEF Connection
<1> HIDE DEF c
<1>3. CallInv'
  BY <1>1, <1>2, CurrentFacts, OutsideInv DEF With, Current
<1>4. Rest'
  BY <1>1, RestHolds, MishapType DEF Rest, server
<1> QED
  BY <1>3, <1>4, InvParts

LEMMA AgentClosesStep == ASSUME Inv, NEW i \in DOMAIN connections, AgentCloses(i) PROVE Inv'
<1>1. PICK broken \in {<<>>, <<"cut">>} :
        /\ connections' = [connections EXCEPT ![i].peer = FALSE, ![i].out = <<>>,
                                              ![i].wire = @ \o broken]
        /\ garbled' = (garbled \/ broken # <<>>
                        \/ (\E j \in 1..Len(connections[i].out) :
                               connections[i].out[j] = "end" /\ connections[i].out[1] # "head"))
  BY DEF AgentCloses
<1>2. UNCHANGED <<server, call, count, rows, calls, thrown>> /\ (Mishap \/ UNCHANGED mishaps)
  BY DEF AgentCloses
<1> DEFINE c == [connections[i] EXCEPT !.peer = FALSE, !.out = <<>>, !.wire = @ \o broken]
<1>3. connections' = [connections EXCEPT ![i] = c]
  BY <1>1
<1>4. c \in Connection /\ c.in_use = connections[i].in_use /\ c.reconnecting = connections[i].reconnecting
  <2>1. connections[i] \in Connection
    BY DEF Inv, CallInv, Typed
  <2>2. broken \in Seq({"head", "body", "end", "cut"})
    <3>1. <<"cut">> \in Seq({"head", "body", "end", "cut"})
      OBVIOUS
    <3>2. <<>> \in Seq({"head", "body", "end", "cut"})
      OBVIOUS
    <3> QED
      BY <1>1, <3>1, <3>2
  <2>3. connections[i].wire \o broken \in Seq({"head", "body", "end", "cut"})
    BY <2>1, <2>2, ConcatProperties DEF Connection
  <2>4. <<>> \in Seq({"head", "body", "end"})
    BY EmptySequence
  <2> QED
    BY <2>1, <2>3, <2>4 DEF Connection
<1> HIDE DEF c
<1>5. CallInv'
  BY <1>2, <1>3, <1>4, OutsideInv
<1>6. garbled' \in BOOLEAN
  BY <1>1, RestHolds DEF Rest
<1>7. Rest'
  BY <1>2, <1>6, RestHolds, MishapType DEF Rest, server
<1> QED
  BY <1>5, <1>7, InvParts

LEMMA NextInv == Inv /\ [Next]_vars => Inv'
<1> SUFFICES ASSUME Inv, [Next]_vars PROVE Inv'
  OBVIOUS
<1>1. CASE Call
  BY <1>1, CallStep
<1>2. CASE Report
  BY <1>2, ReportStep
<1>3. CASE Client
  <2>1. CASE Connect \/ Handshake \/ Write
    BY <2>1, ConnectStep, HandshakeStep, WriteStep
  <2>2. CASE ConnectFails \/ HandshakeFails \/ WriteFails \/ BodyFails
    <3>1. ~ At("idle") /\ Error /\ UNCHANGED <<server, rows, calls, garbled, thrown>>
          /\ (UNCHANGED mishaps \/ Mishap)
      BY <2>2 DEF ConnectFails, HandshakeFails, WriteFails, BodyFails, At, ghosts
    <3> QED
      BY <3>1, FailStep
  <2>3. CASE ReadHead \/ ReadFails \/ BodyEnds
    BY <2>3, ReadHeadStep, ReadFailsStep, BodyEndsStep
  <2>4. CASE ReadLength \/ ReadChunked \/ ReadToEnd
    BY <2>4, ReadUnitStep DEF ReadLength, ReadChunked, ReadToEnd
  <2> QED
    BY <1>3, <2>1, <2>2, <2>3, <2>4 DEF Client
<1>4. CASE AgentSends
  BY <1>4, AgentSendsStep
<1>5. CASE \E i \in DOMAIN connections : AgentCloses(i)
  BY <1>5, AgentClosesStep
<1>6. CASE BodyBreaks
  <2>1. ~ At("idle") /\ Error /\ UNCHANGED <<server, rows, calls, garbled, thrown>> /\ Mishap
    BY <1>6 DEF BodyBreaks, At
  <2> QED
    BY <2>1, FailStep
<1>7. CASE UNCHANGED vars
  <2>1. CallInv'
    BY <1>7 DEF Inv, CallInv, At, Current, Written, Connected, Stuck, CountsKept, vars, server, ghosts
  <2>2. Rest'
    BY <1>7, RestHolds DEF Rest, vars, server, ghosts
  <2> QED
    BY <2>1, <2>2, InvParts
<1> QED
  BY <1>1, <1>2, <1>3, <1>4, <1>5, <1>6, <1>7 DEF Next

(***************************************************************************)
(* Theorems                                                                *)
(***************************************************************************)
LEMMA InvHolds == Spec => []Inv
<1>1. Init => Inv
  BY InitInv
<1>2. Inv /\ [Next]_vars => Inv'
  BY NextInv
<1> QED
  BY <1>1, <1>2, PTL DEF Spec

\* For agents of any kind and any number of calls: connections, calls and counters are
\* of their types, and a call under way has a connection that is in use
THEOREM TypeCorrect == Spec => []TypeOK
<1>1. Inv => TypeOK
  BY DEF Inv
<1> QED
  BY <1>1, InvHolds, PTL

\* However often the agent closes: a call writes four requests at most
THEOREM FourGets == Spec => []AtMostFourGets
<1>1. Inv => AtMostFourGets
  <2> SUFFICES ASSUME Inv PROVE AtMostFourGets
    OBVIOUS
  <2>1. CASE At("idle")
    BY <2>1 DEF Inv, CallInv, Written, AtMostFourGets
  <2>2. CASE ~ At("idle")
    BY <2>2, CurrentFacts DEF AtMostFourGets
  <2> QED
    BY <2>1, <2>2
<1> QED
  BY <1>1, InvHolds, PTL

\* Connections do not pile up, but for one for each header that made the parser throw
THEOREM FewConnections == Spec => []OneConnection
<1>1. Inv => OneConnection
  BY DEF Inv, CallInv, Connected, OneConnection
<1> QED
  BY <1>1, InvHolds, PTL

\* Whatever the calls met and whenever the counters were reported, every call that
\* ended is counted exactly once
THEOREM EveryCallCounted == Spec => []CountsKept
<1>1. Inv => CountsKept
  BY DEF Inv, CallInv
<1> QED
  BY <1>1, InvHolds, PTL

(***************************************************************************)
(* One mishap is survived                                                  *)
(***************************************************************************)
\* Some unit is a header
HasHead(s) == \E j \in 1..Len(s) : s[j] = "head"

\* So many mishaps, of the two that are counted, were met
Paid(n) == mishaps = 2 \/ n <= mishaps

\* What the call has used up: its first try, and the one reconnection of this try
Cost == call.attempt - 1 + (IF Current.reconnecting THEN 1 ELSE 0)

\* A connection on its own: an agent that is gone sends no more, a broken header is the
\* last that it sent, and only the body that its end delimits has a unit that ends it
Wired(c) ==
    /\ c.peer => c.open
    /\ ~ c.open => c.wire = <<>>
    /\ ~ c.peer => c.out = <<>>
    /\ \A j \in 1..Len(c.wire) : c.wire[j] = "cut" => j = Len(c.wire) /\ ~ c.peer
    /\ framing # "eof" => \A j \in 1..Len(c.out) : c.out[j] # "end"

\* An agent that has closed cost one mishap more
Lost == ~ Current.peer => Paid(Cost + 1)

\* The exception are replies that only their end delimits: there the agent closes as it
\* should, once its header is on the wire
Reading ==
    /\ At("connect") => ~ Current.open
    /\ call.junk # "none" => Current.reconnecting /\ ~ At("body")
    /\ At("write") => Lost
    /\ At("read") =>
         /\ Current.peer => HasHead(Current.wire) \/ HasHead(Current.out)
         /\ framing # "eof" \/ ~ HasHead(Current.wire) => Lost
    /\ At("body") => call.reading \in {framing, "garbage"} /\ (framing # "eof" => Lost)

\* A call has met a mishap for all that it has used up
SurvInv ==
    /\ OneMishapIsSurvived
    /\ \A i \in DOMAIN connections : Wired(connections[i])
    /\ ~ At("idle") =>
         /\ \A i \in DOMAIN connections : i # call.conn => connections[i].in_use
         /\ Paid(Cost) /\ Reading

\* A request takes a new connection, or one that was kept
LEMMA RequestTakes ==
    ASSUME NEW cs, Typed(cs), NEW me \in Calls, Request(cs, me)
    PROVE  /\ \E c : /\ connections'[call'.conn] = Renewed(c)
                     /\ c = Fresh \/ \E i \in DOMAIN cs : ~ cs[i].in_use /\ c = cs[i]
           /\ call'.pc = IF connections'[call'.conn].open THEN "write" ELSE "connect"
           /\ call'.junk = "none"
<1> DEFINE used == {i \in DOMAIN cs : cs[i].in_use}
           free == DOMAIN cs \ used
           conn == IF free = {} THEN NewId(cs) ELSE CHOOSE i \in free : \A j \in free : i <= j
           c    == IF free = {} THEN Fresh ELSE cs[conn]
<1>1. /\ connections' = [i \in used \cup {conn} |->
                           IF i # conn THEN cs[i] ELSE Renewed(IF free = {} THEN Fresh ELSE cs[i])]
      /\ call' = [me EXCEPT !.conn = conn, !.junk = "none", !.got = 0, !.reading = "none",
                            !.pc = IF connections'[conn].open THEN "write" ELSE "connect"]
  BY DEF Request
<1>2. connections'[conn] = Renewed(c)
  BY <1>1
<1>3. call'.conn = conn /\ call'.junk = "none"
      /\ call'.pc = IF connections'[conn].open THEN "write" ELSE "connect"
  BY <1>1 DEF Calls
<1>4. c = Fresh \/ \E i \in DOMAIN cs : ~ cs[i].in_use /\ c = cs[i]
  <2>1. CASE free # {}
    <3>1. free \subseteq Nat
      BY DEF Typed
    <3>2. \E i \in free : \A j \in free : i <= j
      BY <2>1, <3>1, LeastNumber
    <3>3. conn \in free
      BY <2>1, <3>2
    <3> QED
      BY <2>1, <3>3
  <2> QED
    BY <2>1
<1> HIDE DEF c, conn
<1> QED
  BY <1>2, <1>3, <1>4

LEMMA RenewedWired ==
    ASSUME NEW c, c = Fresh \/ (c \in Connection /\ Wired(c))
    PROVE  Wired(Renewed(c)) /\ Renewed(c).open = c.open /\ Renewed(c).peer = c.peer
<1>1. CASE c = Fresh
  BY <1>1 DEF Fresh, Renewed, Wired
<1>2. CASE c \in Connection /\ Wired(c)
  BY <1>2 DEF Renewed, Wired, Connection
<1> QED
  BY <1>1, <1>2

LEMMA RequestSurvives ==
    ASSUME NEW cs, Typed(cs), NEW me \in Calls, me.attempt \in 1..2, Request(cs, me),
           UNCHANGED framing, \A i \in DOMAIN cs : Wired(cs[i]),
           mishaps' = 2 \/ me.attempt - 1 <= mishaps',
           LET c == connections'[call'.conn] IN
               c.open /\ ~ c.peer => mishaps' = 2 \/ me.attempt <= mishaps'
    PROVE  SurvInv'
<1>1. /\ call'.conn \in DOMAIN connections' /\ Typed(connections')
      /\ ~ connections'[call'.conn].reconnecting
      /\ DOMAIN connections' = Used(cs) \cup {call'.conn}
      /\ \A i \in DOMAIN connections' : i # call'.conn => connections'[i] = cs[i]
      /\ call' \in Calls /\ call'.pc \in {"connect", "write"} /\ call'.attempt = me.attempt
  BY RequestFacts
<1>2. PICK c : /\ connections'[call'.conn] = Renewed(c)
               /\ c = Fresh \/ \E i \in DOMAIN cs : ~ cs[i].in_use /\ c = cs[i]
  BY RequestTakes
<1>3. /\ call'.pc = IF connections'[call'.conn].open THEN "write" ELSE "connect"
      /\ call'.junk = "none"
  BY RequestTakes
<1>4. \A i \in DOMAIN cs : cs[i] \in Connection
  BY DEF Typed
<1>5. Wired(Renewed(c))
  BY <1>2, <1>4, RenewedWired
<1>6. \A i \in DOMAIN connections' : Wired(connections'[i])
  <2> SUFFICES ASSUME NEW i \in DOMAIN connections' PROVE Wired(connections'[i])
    OBVIOUS
  <2>1. CASE i = call'.conn
    BY <1>2, <1>5, <2>1
  <2>2. CASE i # call'.conn
    BY <1>1, <2>2 DEF Used
  <2> QED
    BY <2>1, <2>2
<1>7. \A x : Wired(x)' <=> Wired(x)
  BY DEF Wired
<1>8. Cost' = me.attempt - 1 /\ Current' = connections'[call'.conn]
  BY <1>1 DEF Cost, Current
<1>9. Paid(Cost)' /\ (At("write") => Lost)'
  BY <1>3, <1>8 DEF Paid, Lost, At
<1>10. Reading'
  BY <1>1, <1>3, <1>8, <1>9 DEF Reading, At
<1>11. \A i \in DOMAIN connections' : i # call'.conn => connections'[i].in_use
  BY <1>1 DEF Used
<1> QED
  BY <1>1, <1>6, <1>7, <1>9, <1>10, <1>11 DEF SurvInv, OneMishapIsSurvived, At

\* getJSON catches: in the second try all others are in use, so that it connects anew
LEMMA ThrowsSurvives ==
    ASSUME Inv, SurvInv, ~ At("idle"), NEW c \in Connection, Wired(c), c.in_use \/ ~ c.open,
           Throws(With(c)), UNCHANGED framing, mishaps' \in 0..2,
           mishaps' = 2 \/ call.attempt <= mishaps'
    PROVE  SurvInv'
<1> DEFINE cs == With(c)
<1>1. /\ Typed(cs) /\ DOMAIN cs = DOMAIN connections /\ cs[call.conn] = c
      /\ \A i \in DOMAIN connections : i # call.conn => cs[i] = connections[i]
  BY WithFacts
<1>2. call.attempt \in 1..2 /\ call \in Calls /\ call.conn \in DOMAIN connections
  BY CurrentFacts DEF Inv, CallInv
<1>3. \A i \in DOMAIN cs : Wired(cs[i]) /\ (cs[i].in_use \/ ~ cs[i].open)
  BY <1>1 DEF SurvInv
<1> HIDE DEF cs
<1>4. CASE Retries
  <2> DEFINE me   == [call EXCEPT !.attempt = 2]
             base == IF use_ssl THEN <<>> ELSE cs
  <2>1. Request(base, me) /\ call.attempt = 1
    BY <1>4 DEF Throws, Retries, cs
  <2>2. me \in Calls /\ me.attempt = 2
    BY <1>2 DEF Calls
  <2>3. Typed(base) /\ \A i \in DOMAIN base : Wired(base[i]) /\ (base[i].in_use \/ ~ base[i].open)
    <3>1. DOMAIN <<>> = {}
      OBVIOUS
    <3>2. Typed(<<>>)
      BY <3>1, FS_EmptySet DEF Typed
    <3> QED
      BY <1>1, <1>3, <3>1, <3>2
  <2> HIDE DEF me, base
  <2>4. PICK d : /\ connections'[call'.conn] = Renewed(d)
                 /\ d = Fresh \/ \E i \in DOMAIN base : ~ base[i].in_use /\ d = base[i]
    BY <2>1, <2>2, <2>3, RequestTakes
  <2>5. ~ Renewed(d).open
    <3>1. d = Fresh \/ d \in Connection
      BY <2>3, <2>4 DEF Typed
    <3>2. ~ d.open
      BY <2>3, <2>4 DEF Fresh
    <3>3. d \in Connection
      BY <3>1, FreshTyped
    <3> QED
      BY <3>2, <3>3 DEF Renewed, Connection
  <2>6. mishaps' = 2 \/ me.attempt - 1 <= mishaps'
    BY <2>1, <2>2
  <2> QED
    BY <2>1, <2>2, <2>3, <2>4, <2>5, <2>6, RequestSurvives
<1>5. CASE ~ Retries
  <2>1. connections' = cs /\ call' = [Idle EXCEPT !.last = "failed", !.gets = call.gets]
    BY <1>5 DEF Throws, cs
  <2>2. call'.pc = "idle"
    BY <2>1 DEF Idle
  <2>3. mishaps' = 2
    BY <1>2, <1>5 DEF Retries
  <2>4. \A x : Wired(x)' <=> Wired(x)
    BY DEF Wired
  <2>5. \A i \in DOMAIN connections' : Wired(connections'[i])
    BY <1>3, <2>1
  <2> QED
    BY <2>2, <2>3, <2>4, <2>5 DEF SurvInv, OneMishapIsSurvived, At
<1> QED
  BY <1>4, <1>5

\* The call goes on, on its connection
LEMMA CurrentAfter ==
    ASSUME Inv, ~ At("idle"), NEW c \in Connection, connections' = With(c), call'.conn = call.conn
    PROVE  Current' = c
  BY WithFacts, CurrentFacts DEF Current

LEMMA StaySurvives ==
    ASSUME Inv, SurvInv, ~ At("idle"), NEW c \in Connection, connections' = With(c),
           call'.conn = call.conn, call'.pc # "idle", UNCHANGED framing, Wired(c),
           Paid(Cost)', Reading'
    PROVE  SurvInv'
<1>1. /\ DOMAIN With(c) = DOMAIN connections /\ With(c)[call.conn] = c
      /\ \A i \in DOMAIN connections : i # call.conn => With(c)[i] = connections[i]
  BY WithFacts
<1>2. \A x : Wired(x)' <=> Wired(x)
  BY DEF Wired
<1>3. \A i \in DOMAIN connections' : Wired(connections'[i])
  BY <1>1 DEF SurvInv
<1> QED
  BY <1>1, <1>2, <1>3 DEF SurvInv, OneMishapIsSurvived, At

LEMMA ClosedWired ==
    ASSUME NEW c \in Connection
    PROVE  /\ Wired(Closed(c)) /\ Wired(Released(Closed(c)))
           /\ ~ Closed(c).open /\ ~ Released(Closed(c)).open
  BY DEF Closed, Released, Fresh, Wired

\* An error costs the try it ends
LEMMA ErrorSurvives ==
    ASSUME Inv, SurvInv, ~ At("idle"), Error, UNCHANGED framing,
           \/ Mishap
           \/ UNCHANGED mishaps /\ Paid(Cost + 1)
    PROVE  SurvInv'
<1> DEFINE c == Released(Closed(Current))
<1>1. c \in Connection /\ Wired(c) /\ ~ c.open
  BY CurrentFacts, ClosedFacts, ClosedWired
<1>2. Throws(With(c))
  BY DEF Error
<1>3. mishaps' \in 0..2 /\ (mishaps' = 2 \/ call.attempt <= mishaps')
  <2>1. call.attempt \in 1..2 /\ mishaps \in 0..2 /\ Paid(Cost)
    BY CurrentFacts, RestHolds DEF SurvInv, Rest
  <2> QED
    BY <2>1 DEF Mishap, Paid, Cost
<1> HIDE DEF c
<1> QED
  BY <1>1, <1>2, <1>3, ThrowsSurvives

LEMMA SurvTypes ==
    ASSUME Inv, SurvInv, ~ At("idle")
    PROVE  /\ call.conn \in DOMAIN connections /\ Current \in Connection /\ Current.in_use
           /\ call \in Calls /\ call.attempt \in 1..2 /\ mishaps \in 0..2 /\ Wired(Current)
           /\ Paid(Cost) /\ Reading /\ Cost \in 0..2
<1>1. /\ call.conn \in DOMAIN connections /\ Current \in Connection /\ Current.in_use
      /\ call \in Calls /\ call.attempt \in 1..2
  BY CurrentFacts DEF Inv, CallInv
<1>2. Wired(Current)
  BY <1>1 DEF SurvInv, Current
<1>3. Cost \in 0..2
  BY <1>1 DEF Cost
<1> QED
  BY <1>1, <1>2, <1>3, RestHolds DEF Rest, SurvInv

LEMMA InitSurvives == Init => SurvInv
<1> SUFFICES ASSUME Init PROVE SurvInv
  OBVIOUS
<1>1. DOMAIN connections = {} /\ call.pc = "idle" /\ call.last = "ok"
  BY DEF Init, Idle
<1> QED
  BY <1>1 DEF SurvInv, OneMishapIsSurvived, At

LEMMA CallSurvives == ASSUME Inv, SurvInv, Call PROVE SurvInv'
<1> DEFINE me == [Idle EXCEPT !.attempt = 1]
<1>1. me \in Calls /\ me.attempt = 1
  <2>1. me = [pc |-> "idle", last |-> "ok", attempt |-> 1, gets |-> 0, conn |-> 0,
              junk |-> "none", got |-> 0, reading |-> "none"]
    BY DEF Idle
  <2> QED
    BY <2>1 DEF Calls
<1>2. Request(Kept, me) /\ UNCHANGED framing
      /\ mishaps' = LET c == connections'[call'.conn] IN IF c.open /\ ~ c.peer THEN 1 ELSE 0
  BY DEF Call, server
<1>3. Typed(Kept) /\ \A i \in DOMAIN Kept : Wired(Kept[i])
  <2>1. DOMAIN <<>> = {} /\ Typed(connections)
    BY DEF Inv, CallInv
  <2>2. Typed(<<>>)
    BY <2>1, FS_EmptySet DEF Typed
  <2> QED
    BY <2>1, <2>2 DEF Kept, SurvInv
<1> HIDE DEF me
<1> QED
  BY <1>1, <1>2, <1>3, RequestSurvives

LEMMA ConnectSurvives == ASSUME Inv, SurvInv, Connect PROVE SurvInv'
<1> DEFINE c == [Current EXCEPT !.open = TRUE, !.peer = TRUE]
<1>1. At("connect") /\ ~ At("idle") /\ connections' = With(c) /\ UNCHANGED <<framing, mishaps>>
      /\ call'.conn = call.conn /\ call'.pc \in {"handshake", "write"}
      /\ call'.attempt = call.attempt /\ call'.junk = call.junk
  <2>1. call \in Calls
    BY DEF Inv, CallInv
  <2> QED
    BY <2>1 DEF Connect, Goto, Calls, server, ghosts, At
<1>2. Wired(Current) /\ ~ Current.open /\ Current \in Connection /\ Paid(Cost) /\ Reading
  BY <1>1, SurvTypes DEF Reading
<1>3. c \in Connection /\ Wired(c) /\ c.reconnecting = Current.reconnecting /\ c.peer
  <2>1. Current.wire = <<>> /\ 1..Len(Current.wire) = {} /\ Current.out = <<>> /\ 1..Len(Current.out) = {}
    <3>1. 1..Len(<<>>) = {}
      OBVIOUS
    <3> QED
      BY <1>2, <3>1 DEF Wired
  <2>2. c \in Connection /\ c.open /\ c.peer /\ c.wire = Current.wire /\ c.out = Current.out
        /\ c.reconnecting = Current.reconnecting
    BY <1>2 DEF Connection
  <2> HIDE DEF c
  <2> QED
    BY <2>1, <2>2 DEF Wired
<1> HIDE DEF c
<1>4. Current' = c
  BY <1>1, <1>3, CurrentAfter
<1>5. Paid(Cost)'
  BY <1>1, <1>2, <1>3, <1>4 DEF Paid, Cost
<1>6. Reading'
  BY <1>1, <1>2, <1>3, <1>4 DEF Reading, At, Lost
<1> QED
  BY <1>1, <1>3, <1>5, <1>6, StaySurvives

LEMMA HandshakeSurvives == ASSUME Inv, SurvInv, Handshake PROVE SurvInv'
<1>1. At("handshake") /\ ~ At("idle") /\ UNCHANGED <<framing, mishaps, connections>>
      /\ Current.peer
      /\ call'.conn = call.conn /\ call'.pc = "write"
      /\ call'.attempt = call.attempt /\ call'.junk = call.junk
  <2>1. call \in Calls
    BY DEF Inv, CallInv
  <2> QED
    BY <2>1 DEF Handshake, Goto, Calls, server, ghosts, At
<1>2. Paid(Cost) /\ Reading /\ Current' = Current
  BY <1>1, SurvTypes DEF Current
<1>3. Paid(Cost)' /\ Reading'
  BY <1>1, <1>2 DEF Paid, Cost, Reading, At, Lost
<1>4. \A x : Wired(x)' <=> Wired(x)
  BY <1>1 DEF Wired
<1> QED
  BY <1>1, <1>3, <1>4 DEF SurvInv, OneMishapIsSurvived, At

\* The three units of a reply
LEMMA UnitFacts ==
    /\ Units \in Seq({"head", "body", "end"}) /\ Len(Units) = 3
    /\ Units[1] = "head" /\ Units[2] = "body"
    /\ Units[3] = IF framing = "eof" THEN "end" ELSE "body"
  BY DEF Units

LEMMA AppendUnits ==
    ASSUME NEW s \in Seq({"head", "body", "end"})
    PROVE  /\ s \o Units \in Seq({"head", "body", "end"}) /\ HasHead(s \o Units)
           /\ framing # "eof" /\ (\A j \in 1..Len(s) : s[j] # "end")
                => \A j \in 1..Len(s \o Units) : (s \o Units)[j] # "end"
<1>1. /\ Len(s \o Units) = Len(s) + 3 /\ Len(s) \in Nat
      /\ s \o Units \in Seq({"head", "body", "end"})
      /\ \A j \in 1..Len(s) + 3 :
            (s \o Units)[j] = IF j <= Len(s) THEN s[j] ELSE Units[j - Len(s)]
  <2> DEFINE S == {"head", "body", "end"}
  <2>1. s \in Seq(S) /\ Units \in Seq(S) /\ Len(Units) = 3
    BY UnitFacts
  <2> HIDE DEF S
  <2>2. /\ s \o Units \in Seq(S) /\ Len(s \o Units) = Len(s) + Len(Units)
        /\ \A j \in 1..Len(s) + Len(Units) :
            (s \o Units)[j] = IF j <= Len(s) THEN s[j] ELSE Units[j - Len(s)]
    BY <2>1, ConcatProperties
  <2>3. Len(s) \in Nat
    BY <2>1, LenProperties
  <2> QED
    BY <2>1, <2>2, <2>3 DEF S
<1>2. (s \o Units)[Len(s) + 1] = "head"
  <2>1. Len(s) + 1 \in 1..Len(s) + 3 /\ ~ (Len(s) + 1 <= Len(s)) /\ Len(s) + 1 - Len(s) = 1
    BY <1>1
  <2> QED
    BY <1>1, <2>1, UnitFacts
<1>3. ASSUME framing # "eof", \A j \in 1..Len(s) : s[j] # "end", NEW j \in 1..Len(s \o Units)
      PROVE  (s \o Units)[j] # "end"
  <2>1. CASE j <= Len(s)
    BY <1>1, <1>3, <2>1
  <2>2. CASE ~ (j <= Len(s))
    <3>1. j - Len(s) \in 1..3
      BY <1>1, <2>2
    <3>2. \A i \in 1..3 : Units[i] # "end"
      BY <1>3, UnitFacts
    <3> QED
      BY <1>1, <2>2, <3>1, <3>2
  <2> QED
    BY <2>1, <2>2
<1> QED
  BY <1>1, <1>2, <1>3 DEF HasHead

LEMMA WriteSurvives == ASSUME Inv, SurvInv, Write PROVE SurvInv'
<1>1. At("write") /\ ~ At("idle") /\ UNCHANGED <<framing, mishaps>>
      /\ call'.conn = call.conn /\ call'.pc = "read"
      /\ call'.attempt = call.attempt /\ call'.junk = call.junk
  <2>1. call \in Calls
    BY DEF Inv, CallInv
  <2>2. call' = [call EXCEPT !.pc = "read", !.gets = @ + 1]
    BY DEF Write
  <2>3. call'.conn = call.conn /\ call'.pc = "read"
        /\ call'.attempt = call.attempt /\ call'.junk = call.junk
    BY <2>1, <2>2 DEF Calls
  <2> QED
    BY <2>3 DEF Write, server, At
<1>2. Wired(Current) /\ Current \in Connection /\ Paid(Cost) /\ Reading /\ Lost
  BY <1>1, SurvTypes DEF Reading
<1>3. CASE Current.peer /\ connections' = With([Current EXCEPT !.out = @ \o Units])
  <2> DEFINE s == Current.out \o Units
             c == [Current EXCEPT !.out = s]
  <2>1. s \in Seq({"head", "body", "end"}) /\ HasHead(s)
        /\ (framing # "eof" => \A j \in 1..Len(s) : s[j] # "end")
    BY <1>2, AppendUnits DEF Wired, Connection
  <2> HIDE DEF s
  <2>2. c \in Connection /\ Wired(c) /\ c.reconnecting = Current.reconnecting /\ c.peer /\ c.out = s
    BY <1>2, <1>3, <2>1 DEF Wired, Connection
  <2>3. connections' = With(c)
    BY <1>3 DEF s
  <2> HIDE DEF c
  <2>4. Current' = c
    BY <1>1, <2>2, <2>3, CurrentAfter
  <2>5. Paid(Cost)'
    BY <1>1, <1>2, <2>2, <2>4 DEF Paid, Cost
  <2>6. Reading'
    BY <1>1, <1>2, <2>1, <2>2, <2>4 DEF Reading, At, Lost
  <2> QED
    BY <1>1, <2>2, <2>3, <2>5, <2>6, StaySurvives
<1>4. CASE ~ Current.peer /\ connections' = connections
  <2>1. Current' = Current
    BY <1>1, <1>4 DEF Current
  <2>2. Paid(Cost)' /\ Reading'
    BY <1>1, <1>2, <1>4, <2>1 DEF Paid, Cost, Reading, At, Lost
  <2>3. \A x : Wired(x)' <=> Wired(x)
    BY <1>1 DEF Wired
  <2> QED
    BY <1>1, <1>4, <2>2, <2>3 DEF SurvInv, OneMishapIsSurvived, At
<1> QED
  BY <1>3, <1>4 DEF Write

\* What may be on the wire
WireUnits == {"head", "body", "end", "cut"}

\* The wire around the header that is read, and k units behind it
LEMMA WireFacts ==
    ASSUME NEW W \in Seq(WireUnits), NEW h \in 1..Len(W), NEW k \in 0..Len(SubSeq(W, h + 1, Len(W)))
    PROVE  LET rest == SubSeq(W, h + 1, Len(W))
               wire == SubSeq(rest, k + 1, Len(rest))
               before == SubSeq(W, 1, h - 1)
           IN  /\ Len(rest) = Len(W) - h /\ Len(W) \in Nat
               /\ wire \in Seq(WireUnits) /\ Len(wire) = Len(W) - h - k
               /\ \A j \in 1..Len(wire) : wire[j] = W[h + k + j]
               /\ Len(before) = h - 1 /\ \A j \in 1..Len(before) : before[j] = W[j]
               /\ h = 1 => before = <<>>
<1> DEFINE n == Len(W)
           rest == SubSeq(W, h + 1, n)
           wire == SubSeq(rest, k + 1, Len(rest))
           before == SubSeq(W, 1, h - 1)
<1>1. n \in Nat /\ h \in 1..n /\ \A j \in 1..n : W[j] \in WireUnits
  BY LenProperties
<1> HIDE DEF n
<1>2. /\ rest \in Seq(WireUnits) /\ Len(rest) = n - h
      /\ \A j \in 1..n - h : rest[j] = W[h + j]
  <2>1. h + 1 \in Int /\ n \in Int /\ \A j \in h + 1 .. n : W[j] \in WireUnits
    BY <1>1
  <2>2. /\ rest \in Seq(WireUnits) /\ Len(rest) = IF h + 1 <= n THEN n - (h + 1) + 1 ELSE 0
        /\ \A j \in 1..n - (h + 1) + 1 : rest[j] = W[h + 1 + j - 1]
    BY <2>1, SubSeqProperties
  <2>3. \A j \in 1..n - h : h + 1 + j - 1 = h + j /\ j \in 1..n - (h + 1) + 1
    BY <1>1
  <2>4. \A j \in 1..n - h : rest[j] = W[h + j]
    BY <2>2, <2>3
  <2> QED
    BY <1>1, <2>2, <2>4
<1>3. k \in 0..n - h
  BY <1>2 DEF n
<1> HIDE DEF rest
<1>4. /\ wire \in Seq(WireUnits) /\ Len(wire) = n - h - k
      /\ \A j \in 1..n - h - k : wire[j] = W[h + k + j]
  <2>1. k + 1 \in Int /\ Len(rest) \in Int /\ \A j \in k + 1 .. Len(rest) : rest[j] \in WireUnits
    <3>1. \A j \in k + 1 .. Len(rest) : j \in 1..n - h /\ h + j \in 1..n
      BY <1>1, <1>2, <1>3
    <3> QED
      BY <1>1, <1>2, <1>3, <3>1
  <2>2. /\ wire \in Seq(WireUnits)
        /\ Len(wire) = IF k + 1 <= Len(rest) THEN Len(rest) - (k + 1) + 1 ELSE 0
        /\ \A j \in 1..Len(rest) - (k + 1) + 1 : wire[j] = rest[k + 1 + j - 1]
    BY <2>1, SubSeqProperties
  <2>3. \A j \in 1..n - h - k : /\ k + 1 + j - 1 = k + j /\ j \in 1..Len(rest) - (k + 1) + 1
                               /\ k + j \in 1..n - h /\ h + (k + j) = h + k + j
    BY <1>1, <1>2, <1>3
  <2>4. \A j \in 1..n - h - k : wire[j] = W[h + k + j]
    BY <1>2, <2>2, <2>3
  <2> QED
    BY <1>1, <1>2, <1>3, <2>2, <2>4
<1>5. Len(before) = h - 1 /\ (\A j \in 1..h - 1 : before[j] = W[j]) /\ (h = 1 => before = <<>>)
  <2>1. 1 \in Int /\ h - 1 \in Int /\ \A j \in 1..h - 1 : W[j] \in WireUnits
    BY <1>1
  <2>2. /\ Len(before) = IF 1 <= h - 1 THEN (h - 1) - 1 + 1 ELSE 0
        /\ \A j \in 1..(h - 1) - 1 + 1 : before[j] = W[1 + j - 1]
    BY <2>1, SubSeqProperties
  <2>3. \A j \in 1..h - 1 : 1 + j - 1 = j /\ j \in 1..(h - 1) - 1 + 1
    BY <1>1
  <2>4. h = 1 => before = <<>>
    <3>1. ASSUME h = 1 PROVE h - 1 < 1
      BY <3>1
    <3> QED
      BY <2>1, <3>1, SubSeqEmpty
  <2> QED
    BY <1>1, <2>2, <2>3, <2>4
<1> QED
  BY <1>1, <1>2, <1>4, <1>5 DEF rest, n

\* The first header
LEMMA HeadFacts ==
    ASSUME NEW W \in Seq(WireUnits), NEW hs, hs = {i \in 1..Len(W) : W[i] = "head"}, hs # {}
    PROVE  LET h == CHOOSE i \in hs : \A j \in hs : i <= j IN
           h \in 1..Len(W) /\ W[h] = "head" /\ \A j \in hs : h <= j
<1>1. hs \subseteq Nat
  OBVIOUS
<1>2. \E i \in hs : \A j \in hs : i <= j
  BY <1>1, LeastNumber
<1> QED
  BY <1>2

LEMMA ReplySurvives ==
    ASSUME Inv, SurvInv, ~ At("idle"), NEW c \in Connection, Wired(c), NEW whole, Reply(c, whole),
           UNCHANGED framing
    PROVE  SurvInv'
<1>1. Released(c) \in Connection /\ Wired(Released(c))
  BY DEF Released, Wired, Connection
<1>2. /\ DOMAIN With(Released(c)) = DOMAIN connections /\ With(Released(c))[call.conn] = Released(c)
      /\ \A i \in DOMAIN connections : i # call.conn => With(Released(c))[i] = connections[i]
  BY <1>1, WithFacts
<1>3. connections' = With(Released(c))
  BY DEF Reply
<1>4. call'.pc = "idle" /\ call'.last # "failed"
  BY DEF Reply, Idle
<1>5. \A x : Wired(x)' <=> Wired(x)
  BY DEF Wired
<1>6. \A i \in DOMAIN connections' : Wired(connections'[i])
  BY <1>1, <1>2, <1>3 DEF SurvInv
<1> QED
  BY <1>4, <1>5, <1>6 DEF SurvInv, OneMishapIsSurvived, At

LEMMA ReadHeadSurvives == ASSUME Inv, SurvInv, ReadHead PROVE SurvInv'
<1>1. At("read") /\ ~ At("idle") /\ Heads # {} /\ UNCHANGED <<framing, mishaps>>
  BY DEF ReadHead, At, server
<1>2. /\ Current \in Connection /\ Wired(Current) /\ Paid(Cost) /\ Reading /\ Current.in_use
      /\ call \in Calls /\ call.attempt \in 1..2 /\ mishaps \in 0..2
  BY <1>1, SurvTypes
<1> DEFINE W == Current.wire
           head == CHOOSE i \in Heads : \A j \in Heads : i <= j
           rest == SubSeq(W, head + 1, Len(W))
           before == SubSeq(W, 1, head - 1)
           junk == Behind(before)
<1>3. PICK r \in Readings(junk), k \in 0..Len(rest) :
         LET c == [Current EXCEPT !.reconnecting = FALSE,
                                  !.wire = SubSeq(rest, k + 1, Len(rest))]
         IN  CASE r = "throws" -> Throws(With(c)) /\ thrown' = thrown + 1
             []   r = "none"   -> Reply(c, junk = "none" /\ k = 2) /\ UNCHANGED thrown
             []   OTHER        ->
                    /\ connections' = With(c)
                    /\ call' = [call EXCEPT !.pc = "body", !.reading = r, !.got = k,
                                            !.junk = "none"]
                    /\ UNCHANGED <<count, thrown>>
  BY DEF ReadHead
<1> DEFINE wire == SubSeq(rest, k + 1, Len(rest))
           c == [Current EXCEPT !.reconnecting = FALSE, !.wire = wire]
<1>4. W \in Seq(WireUnits)
  BY <1>2 DEF Connection, WireUnits
<1>5. head \in 1..Len(W) /\ W[head] = "head"
  <2>1. PICK w \in Seq(WireUnits) : w = W
    BY <1>4
  <2>2. PICK hs : hs = Heads
    OBVIOUS
  <2>3. hs = {i \in 1..Len(w) : w[i] = "head"} /\ hs # {}
    BY <1>1, <2>1, <2>2 DEF Heads
  <2> DEFINE h == CHOOSE i \in hs : \A j \in hs : i <= j
  <2>4. h \in 1..Len(w) /\ w[h] = "head"
    BY <2>3, HeadFacts
  <2>5. head = h
    BY <2>2
  <2> QED
    BY <2>1, <2>4, <2>5
<1> HIDE DEF head
<1>6. /\ Len(W) \in Nat
      /\ wire \in Seq(WireUnits) /\ Len(wire) = Len(W) - head - k
      /\ \A j \in 1..Len(wire) : wire[j] = W[head + k + j]
      /\ Len(before) = head - 1 /\ \A j \in 1..Len(before) : before[j] = W[j]
  <2>1. PICK w \in Seq(WireUnits) : w = W
    BY <1>4
  <2>2. PICK h \in 1..Len(w) : h = head
    BY <1>5, <2>1
  <2>3. k \in 0..Len(SubSeq(w, h + 1, Len(w)))
    BY <2>1, <2>2
  <2> HIDE DEF rest, junk
  <2> DEFINE rest1 == SubSeq(w, h + 1, Len(w))
             wire1 == SubSeq(rest1, k + 1, Len(rest1))
             before1 == SubSeq(w, 1, h - 1)
  <2>4. /\ Len(w) \in Nat
        /\ wire1 \in Seq(WireUnits) /\ Len(wire1) = Len(w) - h - k
        /\ \A j \in 1..Len(wire1) : wire1[j] = w[h + k + j]
        /\ Len(before1) = h - 1 /\ \A j \in 1..Len(before1) : before1[j] = w[j]
    BY <2>3, WireFacts
  <2> USE DEF rest
  <2>5. wire1 = wire /\ before1 = before
    BY <2>1, <2>2
  <2> HIDE DEF rest1, wire1, before1
  <2> QED
    BY <2>1, <2>2, <2>4, <2>5
<1>7. k \in Nat
  OBVIOUS
<1> HIDE DEF wire, before
<1>8. /\ c \in Connection /\ c.in_use /\ ~ c.reconnecting /\ c.wire = wire
      /\ c.open = Current.open /\ c.peer = Current.peer /\ c.out = Current.out
  BY <1>2, <1>6 DEF Connection, WireUnits
<1>9. /\ r = "throws" => Throws(With(c))
      /\ r = "none" => Reply(c, junk = "none" /\ k = 2)
      /\ r \notin {"throws", "none"} =>
            /\ connections' = With(c)
            /\ call' = [call EXCEPT !.pc = "body", !.reading = r, !.got = k, !.junk = "none"]
  BY <1>3 DEF wire
<1> HIDE DEF c
<1>10. Wired(c)
  <2>1. ASSUME NEW j \in 1..Len(wire), wire[j] = "cut" PROVE j = Len(wire) /\ ~ Current.peer
    <3>1. head + k + j \in 1..Len(W)
      BY <1>5, <1>6, <1>7
    <3>2. W[head + k + j] = "cut"
      BY <1>6, <2>1
    <3>3. head + k + j = Len(W) /\ ~ Current.peer
      BY <1>2, <3>1, <3>2 DEF Wired
    <3> QED
      BY <1>5, <1>6, <1>7, <3>3
  <2>2. ~ Current.open => FALSE
    <3>1. ASSUME ~ Current.open PROVE FALSE
      <4>1. W = <<>>
        BY <1>2, <3>1 DEF Wired
      <4>2. 1..Len(<<>>) = {}
        OBVIOUS
      <4> QED
        BY <1>5, <4>1, <4>2
    <3> QED
      BY <3>1
  <2> QED
    BY <1>2, <1>8, <2>1, <2>2 DEF Wired
<1>11. CASE r = "throws"
  <2>1. junk = "cut"
    <3> HIDE DEF junk
    <3>1. framing # "throws"
      BY HttpAssumption, RestHolds DEF Rest
    <3> QED
      BY <1>11, <3>1 DEF Readings
  <2>2. ~ \E j \in 1..Len(before) : before[j] = "cut"
    <3> SUFFICES ASSUME NEW j \in 1..Len(before), before[j] = "cut" PROVE FALSE
      OBVIOUS
    <3>1. j \in 1..Len(W) /\ j < Len(W) /\ W[j] = "cut"
      BY <1>5, <1>6
    <3> QED
      BY <1>2, <3>1 DEF Wired
  <2>3. call.junk = "cut"
    BY <2>1, <2>2 DEF Behind
  <2>4. call.attempt <= mishaps \/ mishaps = 2
    BY <1>2, <2>3 DEF Reading, Paid, Cost
  <2> QED
    BY <1>1, <1>2, <1>8, <1>9, <1>10, <1>11, <2>4, ThrowsSurvives
<1>12. CASE r = "none"
  <2> DEFINE whole == junk = "none" /\ k = 2
  <2>1. Reply(c, whole)
    BY <1>9, <1>12
  <2> HIDE DEF whole
  <2> QED
    BY <1>1, <1>8, <1>10, <2>1, ReplySurvives
<1>13. CASE r \notin {"throws", "none"}
  <2>1. connections' = With(c) /\ r \in {framing, "garbage"}
    BY <1>9, <1>13 DEF Readings
  <2>2. /\ call'.pc = "body" /\ call'.conn = call.conn /\ call'.attempt = call.attempt
        /\ call'.junk = "none" /\ call'.reading = r
    BY <1>2, <1>9, <1>13 DEF Calls
  <2>3. Current' = c
    BY <1>1, <1>8, <2>1, <2>2, CurrentAfter
  <2>4. Cost' \in Nat /\ Cost' <= Cost /\ Cost \in Nat
    <3>1. Cost' = call.attempt - 1
      BY <1>2, <1>8, <2>2, <2>3 DEF Cost
    <3>2. Cost \in {call.attempt - 1, call.attempt - 1 + 1}
      BY <1>2 DEF Cost
    <3> QED
      BY <1>2, <3>1, <3>2
  <2>5. Paid(Cost)'
    BY <1>1, <1>2, <2>4 DEF Paid
  <2>6. framing # "eof" => Lost'
    <3>1. ASSUME framing # "eof", ~ Current.peer PROVE Paid(Cost + 1)'
      <4>1. Paid(Cost + 1)
        BY <1>1, <1>2, <3>1 DEF Reading, Lost
      <4>2. PICK n \in Nat, m \in Nat : n = Cost /\ m = Cost'
        BY <2>4
      <4>3. mishaps = 2 \/ n + 1 <= mishaps
        BY <4>1, <4>2 DEF Paid
      <4>4. m <= n /\ mishaps' = mishaps /\ mishaps \in 0..2
        BY <1>1, <1>2, <2>4, <4>2
      <4>5. mishaps' = 2 \/ m + 1 <= mishaps'
        BY <4>3, <4>4
      <4> QED
        BY <4>2, <4>5 DEF Paid
    <3> QED
      BY <1>8, <2>3, <3>1 DEF Lost
  <2>7. Reading'
    BY <1>1, <2>1, <2>2, <2>6 DEF Reading, At
  <2> QED
    BY <1>1, <1>8, <1>10, <2>1, <2>2, <2>5, <2>7, StaySurvives
<1> QED
  BY <1>11, <1>12, <1>13

LEMMA ReadFailsSurvives == ASSUME Inv, SurvInv, ReadFails PROVE SurvInv'
<1>1. At("read") /\ ~ At("idle") /\ UNCHANGED <<framing, mishaps>> /\ Heads = {} /\ ~ Current.peer
  BY DEF ReadFails, At, server, ghosts
<1>2. /\ Current \in Connection /\ Reading /\ Current.in_use
      /\ call \in Calls /\ call.attempt \in 1..2 /\ mishaps \in 0..2
  BY <1>1, SurvTypes
<1>3. Paid(Cost + 1)
  BY <1>1, <1>2 DEF Reading, Lost, HasHead, Heads
<1>4. CASE Current.reconnecting
  BY <1>1, <1>3, <1>4, ErrorSurvives DEF ReadFails
<1>5. CASE ~ Current.reconnecting
  <2> DEFINE closed == Closed(Current)
             c == Reconnecting(closed)
  <2>1. closed \in Connection /\ Wired(closed) /\ ~ closed.open
    BY <1>2, ClosedFacts, ClosedWired
  <2> HIDE DEF closed
  <2>2. c \in Connection /\ Wired(c) /\ ~ c.open /\ c.reconnecting
    BY <2>1 DEF Reconnecting, Wired, Connection
  <2>3. connections' = With(c) /\ call' = [call EXCEPT !.pc = "connect", !.junk = Behind(Current.wire)]
    BY <1>5 DEF ReadFails, closed
  <2> HIDE DEF c
  <2>4. call'.pc = "connect" /\ call'.conn = call.conn /\ call'.attempt = call.attempt
    BY <1>2, <2>3 DEF Calls
  <2>5. Current' = c
    BY <1>1, <2>2, <2>3, <2>4, CurrentAfter
  <2>6. Paid(Cost)'
    BY <1>1, <1>2, <1>3, <1>5, <2>2, <2>4, <2>5 DEF Paid, Cost
  <2>7. Reading'
    BY <2>2, <2>4, <2>5 DEF Reading, At
  <2> QED
    BY <1>1, <2>2, <2>3, <2>4, <2>6, <2>7, StaySurvives
<1> QED
  BY <1>4, <1>5

\* The rest of the wire
LEMMA TailFacts ==
    ASSUME NEW S, NEW W \in Seq(S), W # <<>>
    PROVE  /\ Tail(W) \in Seq(S) /\ Len(Tail(W)) = Len(W) - 1 /\ Len(W) \in Nat \ {0}
           /\ \A j \in 1..Len(Tail(W)) : Tail(W)[j] = W[j + 1] /\ j + 1 \in 1..Len(W)
<1>1. Len(W) \in Nat \ {0}
  BY EmptySeq
<1>2. /\ Tail(W) \in Seq(S) /\ Len(Tail(W)) = Len(W) - 1
      /\ \A j \in 1..Len(Tail(W)) : Tail(W)[j] = W[j + 1]
  BY HeadTailProperties
<1> QED
  BY <1>1, <1>2

LEMMA ReadUnitSurvives == ASSUME Inv, SurvInv, NEW readings, ReadUnit(readings) PROVE SurvInv'
<1> DEFINE wire == Tail(Current.wire)
           c == [Current EXCEPT !.wire = wire]
<1>1. /\ At("body") /\ ~ At("idle") /\ Current.wire # <<>> /\ connections' = With(c)
      /\ call' = [call EXCEPT !.got = IF @ = 3 THEN 3 ELSE @ + 1] /\ UNCHANGED <<framing, mishaps>>
  BY DEF ReadUnit, At, server, ghosts
<1>2. Current \in Connection /\ Wired(Current) /\ Paid(Cost) /\ Reading /\ call \in Calls
  BY <1>1, SurvTypes
<1>3. /\ wire \in Seq(WireUnits) /\ Len(wire) = Len(Current.wire) - 1 /\ Len(Current.wire) \in Nat \ {0}
      /\ \A j \in 1..Len(wire) : wire[j] = Current.wire[j + 1] /\ j + 1 \in 1..Len(Current.wire)
  BY <1>1, <1>2, TailFacts DEF Connection, WireUnits
<1> HIDE DEF wire
<1>4. /\ c \in Connection /\ c.reconnecting = Current.reconnecting /\ c.wire = wire
      /\ c.open = Current.open /\ c.peer = Current.peer /\ c.out = Current.out
  BY <1>2, <1>3 DEF Connection, WireUnits
<1> HIDE DEF c
<1>5. Wired(c)
  <2>1. ASSUME NEW j \in 1..Len(wire), wire[j] = "cut" PROVE j = Len(wire) /\ ~ Current.peer
    BY <1>2, <1>3, <2>1 DEF Wired
  <2> QED
    BY <1>1, <1>2, <1>4, <2>1 DEF Wired
<1>6. /\ call'.pc = "body" /\ call'.conn = call.conn /\ call'.attempt = call.attempt
      /\ call'.junk = call.junk /\ call'.reading = call.reading
  BY <1>1, <1>2 DEF Calls, At
<1>7. Current' = c
  BY <1>1, <1>4, <1>6, CurrentAfter
<1>8. Paid(Cost)' /\ Reading'
  BY <1>1, <1>2, <1>4, <1>6, <1>7 DEF Paid, Cost, Reading, At, Lost
<1> QED
  BY <1>1, <1>4, <1>5, <1>6, <1>8, StaySurvives

LEMMA BodyEndsSurvives == ASSUME Inv, SurvInv, BodyEnds PROVE SurvInv'
<1>1. At("body") /\ ~ At("idle") /\ UNCHANGED framing
  BY DEF BodyEnds, At, server
<1>2. /\ Current \in Connection /\ Wired(Current)
      /\ Closed(Current) \in Connection /\ Wired(Closed(Current))
  BY <1>1, SurvTypes, ClosedFacts, ClosedWired
<1>3. \E c \in Connection : Wired(c) /\ \E whole : Reply(c, whole)
  BY <1>2 DEF BodyEnds
<1> QED
  BY <1>1, <1>3, ReplySurvives

LEMMA BodyFailsSurvives == ASSUME Inv, SurvInv, BodyFails PROVE SurvInv'
<1>1. At("body") /\ ~ At("idle") /\ UNCHANGED <<framing, mishaps>> /\ Error /\ ~ Current.peer
      /\ call.reading \in {"length", "chunked"}
  BY DEF BodyFails, At, server, ghosts
<1>2. Paid(Cost + 1)
  BY <1>1, SurvTypes DEF Reading, Lost
<1> QED
  BY <1>1, <1>2, ErrorSurvives

LEMMA FailSurvives ==
    ASSUME Inv, SurvInv, ConnectFails \/ HandshakeFails \/ BodyBreaks \/ WriteFails PROVE SurvInv'
<1>1. CASE ConnectFails \/ HandshakeFails \/ BodyBreaks
  BY <1>1, ErrorSurvives DEF ConnectFails, HandshakeFails, BodyBreaks, At, server
<1>2. CASE WriteFails
  <2>1. At("write") /\ ~ At("idle") /\ UNCHANGED <<framing, mishaps>> /\ Error /\ ~ Current.peer
    BY <1>2 DEF WriteFails, At, server, ghosts
  <2>2. Paid(Cost + 1)
    BY <2>1, SurvTypes DEF Reading, Lost
  <2> QED
    BY <2>1, <2>2, ErrorSurvives
<1> QED
  BY <1>1, <1>2

\* The agent, or the network, at work on a connection
LEMMA OutsideSurvives ==
    ASSUME Inv, SurvInv, NEW i \in DOMAIN connections, NEW c, Wired(c),
           c.in_use = connections[i].in_use,
           connections' = [connections EXCEPT ![i] = c], UNCHANGED <<framing, call>>,
           UNCHANGED mishaps \/ Mishap,
           ~ At("idle") => Paid(Cost)' /\ Reading'
    PROVE  SurvInv'
<1>1. /\ DOMAIN connections' = DOMAIN connections /\ connections'[i] = c
      /\ \A j \in DOMAIN connections : j # i => connections'[j] = connections[j]
  OBVIOUS
<1>2. \A x : Wired(x)' <=> Wired(x)
  BY DEF Wired
<1>3. \A j \in DOMAIN connections' : Wired(connections'[j])
  BY <1>1 DEF SurvInv
<1>4. mishaps = 2 => mishaps' = 2
  BY DEF Mishap
<1> QED
  BY <1>1, <1>2, <1>3, <1>4 DEF SurvInv, OneMishapIsSurvived, At

\* One mishap pays for one more
LEMMA PaidOnce ==
    ASSUME mishaps \in 0..2, NEW n \in 0..2, Paid(n)
    PROVE  /\ Mishap => Paid(n)' /\ Paid(n + 1)'
           /\ UNCHANGED mishaps => Paid(n)'
  BY DEF Paid, Mishap

LEMMA AgentSendsSurvives == ASSUME Inv, SurvInv, AgentSends PROVE SurvInv'
<1>1. ~ At("idle") /\ Current.out # <<>> /\ UNCHANGED <<framing, call>>
  BY DEF AgentSends, server
<1>2. /\ Current \in Connection /\ Wired(Current) /\ Paid(Cost) /\ Reading /\ Cost \in 0..2
      /\ call.conn \in DOMAIN connections /\ mishaps \in 0..2
  BY <1>1, SurvTypes
<1>3. PICK n \in 0..2 : n = Cost
  BY <1>2
<1> DEFINE u == Head(Current.out)
           wire == Append(Current.wire, u)
           out == IF u = "end" THEN <<>> ELSE Tail(Current.out)
           p == u # "end"
           c == [Current EXCEPT !.wire = wire, !.peer = p, !.out = out]
<1>4. /\ connections' = With(c)
      /\ IF u = "end" /\ (At("write") \/ Len(Current.out) > 1) THEN Mishap ELSE UNCHANGED mishaps
  BY DEF AgentSends
<1>5. Current.out \in Seq({"head", "body", "end"}) /\ Current.wire \in Seq(WireUnits)
  BY <1>2 DEF Connection, WireUnits
<1>6. /\ u \in {"head", "body", "end"} /\ u = Current.out[1] /\ Tail(Current.out) \in Seq({"head", "body", "end"})
      /\ Len(Current.out) \in Nat \ {0} /\ Len(Tail(Current.out)) = Len(Current.out) - 1
      /\ \A j \in 1..Len(Tail(Current.out)) : Tail(Current.out)[j] = Current.out[j + 1]
  <2>1. Head(Current.out) = Current.out[1]
    BY <1>1, <1>5
  <2> QED
    BY <1>1, <1>5, <2>1, HeadTailProperties, TailFacts
<1> HIDE DEF u
<1>7. /\ wire \in Seq(WireUnits) /\ Len(wire) = Len(Current.wire) + 1 /\ Len(Current.wire) \in Nat
      /\ (\A j \in 1..Len(Current.wire) : wire[j] = Current.wire[j]) /\ wire[Len(Current.wire) + 1] = u
  <2>1. u \in WireUnits
    BY <1>6 DEF WireUnits
  <2> QED
    BY <1>5, <2>1, AppendProperties, LenProperties
<1>8. out \in Seq({"head", "body", "end"}) /\ p \in BOOLEAN
  BY <1>6, EmptySequence
<1> HIDE DEF wire, out, p
<1>9. /\ c \in Connection /\ c.wire = wire /\ c.peer = p /\ c.out = out
      /\ c.open = Current.open /\ c.in_use = Current.in_use /\ c.reconnecting = Current.reconnecting
  BY <1>2, <1>7, <1>8 DEF Connection, WireUnits
<1> HIDE DEF c
<1>10. Current.peer /\ Current.open
  BY <1>1, <1>2 DEF Wired
<1>11. Wired(c)
  <2>1. ASSUME NEW j \in 1..Len(wire), wire[j] = "cut" PROVE FALSE
    <3>1. CASE j = Len(Current.wire) + 1
      BY <1>6, <1>7, <2>1, <3>1
    <3>2. CASE j # Len(Current.wire) + 1
      <4>1. j \in 1..Len(Current.wire) /\ Current.wire[j] = "cut"
        BY <1>7, <2>1, <3>2
      <4> QED
        BY <1>2, <1>10, <4>1 DEF Wired
    <3> QED
      BY <3>1, <3>2
  <2>2. ASSUME framing # "eof", NEW j \in 1..Len(out) PROVE out[j] # "end"
    <3>1. u # "end"
      BY <1>2, <1>6, <2>2 DEF Wired
    <3>2. out[j] = Current.out[j + 1] /\ j + 1 \in 1..Len(Current.out)
      BY <1>6, <2>2, <3>1 DEF out
    <3> QED
      BY <1>2, <2>2, <3>2 DEF Wired
  <2>3. ~ p => out = <<>>
    BY DEF p, out
  <2> QED
    BY <1>9, <1>10, <2>1, <2>2, <2>3 DEF Wired
<1>12. Current' = c
  BY <1>1, <1>4, <1>9, CurrentAfter
<1>13. Cost' = n /\ (UNCHANGED mishaps \/ Mishap)
  BY <1>1, <1>3, <1>4, <1>9, <1>12 DEF Cost
<1>14. Paid(n)' /\ Paid(Cost)' /\ (Mishap => Paid(Cost + 1)')
  <2>1. Paid(n)' /\ (Mishap => Paid(n + 1)')
    BY <1>2, <1>3, <1>13, PaidOnce
  <2> QED
    BY <1>13, <2>1 DEF Paid
<1>15. Reading'
  <2>1. ~ At("connect")
    BY <1>2, <1>10 DEF Reading
  <2>2. At("write") => Lost'
    BY <1>4, <1>9, <1>12, <1>14 DEF Lost, p
  <2>3. framing # "eof" => Lost'
    <3>1. framing # "eof" => u # "end"
      BY <1>2, <1>6 DEF Wired
    <3> QED
      BY <1>9, <1>12, <3>1 DEF Lost, p
  <2>4. HasHead(Current.wire) => HasHead(wire)
    BY <1>7 DEF HasHead
  <2>5. ASSUME HasHead(Current.out) PROVE HasHead(wire) \/ (u # "end" /\ HasHead(out)) \/ (u = "end" /\ Len(Current.out) > 1)
    <3>1. PICK j \in 1..Len(Current.out) : Current.out[j] = "head"
      BY <2>5 DEF HasHead
    <3>2. CASE j = 1
      BY <1>6, <1>7, <3>1, <3>2 DEF HasHead
    <3>3. CASE j # 1
      <4>1. Len(Current.out) > 1 /\ j - 1 \in 1..Len(Tail(Current.out)) /\ Tail(Current.out)[j - 1] = "head"
        BY <1>6, <3>1, <3>3
      <4> QED
        BY <4>1 DEF HasHead, out
    <3> QED
      BY <3>2, <3>3
  <2>6. At("read") => /\ p => HasHead(wire) \/ HasHead(out)
                      /\ ~ HasHead(wire) => Lost'
    <3>1. At("read") => HasHead(Current.wire) \/ HasHead(Current.out)
      BY <1>2, <1>10 DEF Reading
    <3>2. ASSUME u = "end", Len(Current.out) > 1 PROVE Lost'
      BY <1>4, <1>14, <3>2 DEF Lost
    <3>3. u # "end" => Lost'
      BY <1>9, <1>12 DEF Lost, p
    <3> QED
      BY <2>4, <2>5, <3>1, <3>2, <3>3 DEF p
  <2>7. call.junk # "none" => Current.reconnecting /\ ~ At("body")
    BY <1>2 DEF Reading
  <2>8. At("body") => call.reading \in {framing, "garbage"}
    BY <1>2 DEF Reading
  <2> QED
    BY <1>1, <1>9, <1>12, <2>1, <2>2, <2>3, <2>6, <2>7, <2>8 DEF Reading, At
<1> QED
  BY <1>1, <1>2, <1>4, <1>9, <1>11, <1>13, <1>14, <1>15, OutsideSurvives DEF With, Current

LEMMA AgentClosesSurvives ==
    ASSUME Inv, SurvInv, NEW i \in DOMAIN connections, AgentCloses(i) PROVE SurvInv'
<1>1. PICK broken \in {<<>>, <<"cut">>} :
        connections' = [connections EXCEPT ![i].peer = FALSE, ![i].out = <<>>,
                                           ![i].wire = @ \o broken]
  BY DEF AgentCloses
<1>2. /\ UNCHANGED <<framing, call>> /\ connections[i].peer
      /\ IF i = call.conn THEN Mishap ELSE UNCHANGED mishaps
  BY DEF AgentCloses, server
<1> DEFINE old == connections[i]
           wire == old.wire \o broken
           c == [old EXCEPT !.peer = FALSE, !.out = <<>>, !.wire = wire]
<1>3. connections' = [connections EXCEPT ![i] = c]
  BY <1>1
<1>4. old \in Connection /\ Wired(old) /\ old.open
  BY <1>2 DEF Inv, CallInv, Typed, SurvInv, Wired
<1> HIDE DEF old
<1>5. /\ wire \in Seq(WireUnits) /\ Len(old.wire) \in Nat /\ Len(wire) \in Nat
      /\ \A j \in 1..Len(wire) : IF j <= Len(old.wire) THEN wire[j] = old.wire[j] ELSE j = Len(wire)
  <2>1. old.wire \in Seq(WireUnits)
    BY <1>4 DEF Connection, WireUnits
  <2>2. /\ <<>> \in Seq(WireUnits) /\ Len(<<>>) = 0
        /\ <<"cut">> \in Seq(WireUnits) /\ Len(<<"cut">>) = 1
    BY DEF WireUnits
  <2>3. broken \in Seq(WireUnits) /\ Len(broken) \in 0..1
    <3>1. CASE broken = <<>>
      BY <2>2, <3>1
    <3>2. CASE broken = <<"cut">>
      BY <2>2, <3>2
    <3> QED
      BY <1>1, <3>1, <3>2
  <2>4. /\ wire \in Seq(WireUnits) /\ Len(wire) = Len(old.wire) + Len(broken)
        /\ \A j \in 1..Len(old.wire) + Len(broken) :
              wire[j] = IF j <= Len(old.wire) THEN old.wire[j] ELSE broken[j - Len(old.wire)]
    <3>1. PICK p \in Seq(WireUnits) : p = old.wire
      BY <2>1
    <3>2. PICK q \in Seq(WireUnits) : q = broken
      BY <2>3
    <3>3. /\ p \o q \in Seq(WireUnits) /\ Len(p \o q) = Len(p) + Len(q)
          /\ \A j \in 1..Len(p) + Len(q) : (p \o q)[j] = IF j <= Len(p) THEN p[j] ELSE q[j - Len(p)]
      BY ConcatProperties
    <3> QED
      BY <3>1, <3>2, <3>3
  <2>5. PICK o \in Nat, n \in 0..1 : o = Len(old.wire) /\ n = Len(broken)
    BY <2>1, <2>3, LenProperties
  <2>6. ASSUME NEW j \in 1..o + n
        PROVE  IF j <= o THEN wire[j] = old.wire[j] ELSE j = o + n
    <3>1. j > o => j = o + n
      OBVIOUS
    <3> QED
      BY <2>4, <2>5, <3>1
  <2>7. o + n \in Nat
    BY <2>5
  <2> QED
    BY <2>4, <2>5, <2>6, <2>7
<1> HIDE DEF wire
<1>6. /\ c \in Connection /\ ~ c.peer /\ c.out = <<>> /\ c.wire = wire
      /\ c.open /\ c.in_use = old.in_use /\ c.reconnecting = old.reconnecting
  BY <1>4, <1>5, EmptySequence DEF Connection, WireUnits
<1> HIDE DEF c
<1>7. Wired(c)
  <2>1. 1..Len(<<>>) = {}
    OBVIOUS
  <2>2. ASSUME NEW j \in 1..Len(wire), wire[j] = "cut" PROVE j = Len(wire)
    <3>1. CASE j <= Len(old.wire)
      <4>1. j \in 1..Len(old.wire) /\ old.wire[j] = "cut"
        BY <1>5, <2>2, <3>1
      <4> QED
        BY <1>2, <1>4, <4>1 DEF Wired, old
    <3>2. CASE ~ (j <= Len(old.wire))
      BY <1>5, <3>2
    <3> QED
      BY <3>1, <3>2
  <2> QED
    BY <1>6, <2>1, <2>2 DEF Wired
<1>8. ASSUME ~ At("idle") PROVE Paid(Cost)' /\ Reading'
  <2>1. /\ Paid(Cost) /\ Reading /\ Cost \in 0..2 /\ mishaps \in 0..2
        /\ call.conn \in DOMAIN connections
    BY <1>8, SurvTypes
  <2>2. PICK n \in 0..2 : n = Cost
    BY <2>1
  <2>3. CASE i = call.conn
    <3>1. Current' = c /\ Current = old
      BY <1>2, <1>3, <2>3 DEF Current, old
    <3>2. Cost' = n
      BY <1>2, <1>6, <2>2, <3>1 DEF Cost
    <3>3. Paid(n)' /\ Paid(n + 1)'
      BY <1>2, <2>1, <2>2, <2>3, PaidOnce
    <3>4. Paid(Cost)' /\ Lost'
      BY <3>2, <3>3 DEF Paid, Lost
    <3>5. ~ At("connect")
      BY <1>4, <2>1, <3>1 DEF Reading
    <3> QED
      BY <1>2, <1>6, <2>1, <3>1, <3>4, <3>5 DEF Reading, At
  <2>4. CASE i # call.conn
    <3>1. Current' = Current /\ UNCHANGED mishaps
      BY <1>2, <1>3, <2>1, <2>4 DEF Current
    <3> QED
      BY <1>2, <2>1, <3>1 DEF Reading, At, Paid, Cost, Lost
  <2> QED
    BY <2>3, <2>4
<1> QED
  BY <1>2, <1>3, <1>6, <1>7, <1>8, OutsideSurvives DEF old

LEMMA NextSurvives == Inv /\ SurvInv /\ [Next]_vars => SurvInv'
<1> SUFFICES ASSUME Inv, SurvInv, [Next]_vars PROVE SurvInv'
  OBVIOUS
<1>1. CASE Call
  BY <1>1, CallSurvives
<1>2. CASE UNCHANGED vars \/ Report
  BY <1>2 DEF Report, vars, server, ghosts, SurvInv, OneMishapIsSurvived, Wired, Reading, Paid, Cost, Lost, At, Current
<1>3. CASE Client
  BY <1>3, ConnectSurvives, HandshakeSurvives, WriteSurvives, FailSurvives, ReadHeadSurvives, ReadFailsSurvives,
     ReadUnitSurvives, BodyEndsSurvives, BodyFailsSurvives DEF Client, ReadLength, ReadChunked, ReadToEnd
<1>4. CASE BodyBreaks \/ AgentSends \/ \E i \in DOMAIN connections : AgentCloses(i)
  BY <1>4, FailSurvives, AgentSendsSurvives, AgentClosesSurvives
<1> QED
  BY <1>1, <1>2, <1>3, <1>4 DEF Next

\* A call that fails met two refusals or lost connections, whatever connections earlier
\* calls left behind and however the agent frames its replies
THEOREM OneIsSurvived == Spec => []OneMishapIsSurvived
<1>1. Init => SurvInv
  BY InitSurvives
<1>2. Inv /\ SurvInv /\ [Next]_vars => SurvInv'
  BY NextSurvives
<1>3. SurvInv => OneMishapIsSurvived
  BY DEF SurvInv
<1> QED
  BY <1>1, <1>2, <1>3, InvHolds, PTL DEF Spec

(***************************************************************************)
(* A reply is taken for broken JSON only if the agent garbled one          *)
(***************************************************************************)
\* Nothing of an earlier reply can come on it
Quiet(c) == c.wire = <<>> /\ c.out = <<>>

\* A reply to read: of the units of the reply, some are on the wire, and the rest is to
\* be sent unless the agent has closed
Sent(c) ==
    /\ Len(c.wire) <= 3
    /\ \A j \in 1..Len(c.wire) : c.wire[j] = Units[j]
    /\ c.peer \/ framing = "eof" =>
         /\ Len(c.wire) + Len(c.out) = 3
         /\ \A j \in 1..Len(c.out) : c.out[j] = Units[Len(c.wire) + j]

\* A body to read, of which the client has got so many units
Whole(c, got) ==
    /\ got + Len(c.wire) <= 2
    /\ c.peer \/ framing = "eof" => got + Len(c.wire) + Len(c.out) = 2
    /\ framing = "eof" => \A j \in 1..Len(c.out) :
                             c.out[j] = IF j = Len(c.out) THEN "end" ELSE "body"

\* Where the call is, with its connection
Clear(me, c) ==
    /\ me.junk = "none"
    /\ ~ c.peer => c.out = <<>>
    /\ me.pc \in {"connect", "handshake", "write"} => Quiet(c)
    /\ me.pc = "read" => (Quiet(c) /\ ~ c.peer) \/ (framing # "none" /\ Sent(c))
    /\ me.pc = "body" => framing # "none" /\ me.reading = framing /\ Whole(c, me.got)

\* Nothing was garbled: no broken JSON, and only the reply of the call is under way
Clean ==
    /\ count.parse = 0 /\ rows.parse = 0
    /\ \A i \in DOMAIN connections : At("idle") \/ i # call.conn => Quiet(connections[i])
    /\ ~ At("idle") => Clear(call, Current)

CleanInv == garbled \/ Clean

LEMMA QuietFacts ==
    ASSUME NEW c \in Connection
    PROVE  /\ Quiet(Fresh) /\ Quiet(Closed(c)) /\ Quiet(Released(Closed(c)))
           /\ Quiet(c) => Quiet(Renewed(c)) /\ Quiet(Released(c))
           /\ Renewed(c).out = c.out /\ Renewed(c).wire = c.wire /\ ~ Closed(c).open
  BY DEF Quiet, Closed, Released, Renewed, Fresh, Connection

\* A request on quiet connections
LEMMA RequestClean ==
    ASSUME NEW cs, Typed(cs), NEW me \in Calls, Request(cs, me), UNCHANGED framing,
           \A i \in DOMAIN cs : Quiet(cs[i]), count'.parse = 0, rows'.parse = 0
    PROVE  Clean'
<1>1. /\ call'.conn \in DOMAIN connections' /\ Typed(connections')
      /\ DOMAIN connections' = Used(cs) \cup {call'.conn}
      /\ \A i \in DOMAIN connections' : i # call'.conn => connections'[i] = cs[i]
      /\ call' \in Calls /\ call'.pc \in {"connect", "write"}
  BY RequestFacts
<1>2. PICK c : /\ connections'[call'.conn] = Renewed(c)
               /\ c = Fresh \/ \E i \in DOMAIN cs : ~ cs[i].in_use /\ c = cs[i]
  BY RequestTakes
<1>3. call'.junk = "none"
  BY RequestTakes
<1>4. c \in Connection /\ Quiet(c)
  <2>1. Fresh \in Connection /\ Quiet(Fresh)
    BY FreshTyped, QuietFacts
  <2> QED
    BY <1>2, <2>1 DEF Typed
<1>5. Quiet(Current') /\ Current'.out = <<>>
  BY <1>2, <1>4, QuietFacts DEF Current, Quiet
<1>6. \A i \in DOMAIN connections' : i # call'.conn => Quiet(connections'[i])
  BY <1>1 DEF Used
<1> QED
  BY <1>1, <1>3, <1>5, <1>6 DEF Clean, Clear, At, Quiet

LEMMA ClearStays ==
    ASSUME UNCHANGED framing PROVE \A me, c : Clear(me, c)' <=> Clear(me, c)
  BY DEF Clear, Sent, Whole, Units, Quiet

LEMMA CleanTypes ==
    ASSUME Inv, Clean, ~ At("idle")
    PROVE  /\ call.conn \in DOMAIN connections /\ Current \in Connection /\ Current.in_use
           /\ call \in Calls /\ call.attempt \in 1..2
           /\ count \in [ok : Nat, failed : Nat, parse : Nat]
           /\ Clear(call, Current) /\ count.parse = 0 /\ rows.parse = 0
           /\ \A i \in DOMAIN connections : i # call.conn => Quiet(connections[i])
  BY CurrentFacts DEF Inv, CallInv, Clean

\* Closing the connection discards what is left of the reply
LEMMA ErrorClean ==
    ASSUME Inv, Clean, ~ At("idle"), Error, UNCHANGED <<framing, rows>> PROVE Clean'
<1> DEFINE c == Released(Closed(Current))
           cs == With(c)
<1>1. c \in Connection /\ Quiet(c) /\ Throws(cs)
  BY CurrentFacts, ClosedFacts, QuietFacts DEF Error
<1> HIDE DEF c
<1>2. /\ Typed(cs) /\ DOMAIN cs = DOMAIN connections /\ cs[call.conn] = c
      /\ \A i \in DOMAIN connections : i # call.conn => cs[i] = connections[i]
  BY <1>1, WithFacts
<1> HIDE DEF cs
<1>3. \A i \in DOMAIN cs : Quiet(cs[i])
  BY <1>1, <1>2, CleanTypes
<1>4. CASE Retries
  <2> DEFINE me   == [call EXCEPT !.attempt = 2]
             base == IF use_ssl THEN <<>> ELSE cs
  <2>1. Request(base, me) /\ UNCHANGED count
    BY <1>1, <1>4 DEF Throws
  <2>2. me \in Calls
    BY CleanTypes DEF Calls
  <2>3. Typed(base) /\ \A i \in DOMAIN base : Quiet(base[i])
    <3>1. DOMAIN <<>> = {}
      OBVIOUS
    <3>2. Typed(<<>>)
      BY <3>1, FS_EmptySet DEF Typed
    <3> QED
      BY <1>2, <1>3, <3>1, <3>2
  <2> HIDE DEF me, base
  <2> QED
    BY <2>1, <2>2, <2>3, CleanTypes, RequestClean
<1>5. CASE ~ Retries
  <2>1. connections' = cs /\ call' = [Idle EXCEPT !.last = "failed", !.gets = call.gets]
        /\ count' = [count EXCEPT !.failed = @ + 1]
    BY <1>1, <1>5 DEF Throws
  <2>2. call'.pc = "idle"
    BY <2>1 DEF Idle
  <2>3. count'.parse = count.parse
    BY <2>1, CleanTypes
  <2> QED
    BY <1>3, <2>1, <2>2, <2>3, CleanTypes DEF Clean, At
<1> QED
  BY <1>4, <1>5

\* After the whole body nothing is left of it
LEMMA ReplyClean ==
    ASSUME Inv, Clean, ~ At("idle"), NEW c \in Connection, Quiet(c), Reply(c, TRUE),
           UNCHANGED <<framing, rows>>
    PROVE  Clean'
<1>1. Released(c) \in Connection /\ Quiet(Released(c)) /\ connections' = With(Released(c))
  BY ClosedFacts, QuietFacts DEF Reply
<1>2. /\ DOMAIN With(Released(c)) = DOMAIN connections /\ With(Released(c))[call.conn] = Released(c)
      /\ \A i \in DOMAIN connections : i # call.conn => With(Released(c))[i] = connections[i]
  BY <1>1, WithFacts
<1>3. \A i \in DOMAIN connections' : Quiet(connections'[i])
  BY <1>1, <1>2, CleanTypes
<1>4. call'.pc = "idle" /\ count'.parse = count.parse
  BY CleanTypes DEF Reply, Idle
<1> QED
  BY <1>3, <1>4, CleanTypes DEF Clean, At

\* The call goes on, on its connection
LEMMA StayClean ==
    ASSUME Inv, Clean, ~ At("idle"), NEW c \in Connection, connections' = With(c),
           call'.conn = call.conn, call'.pc # "idle", Clear(call', c),
           UNCHANGED <<framing, count, rows>>
    PROVE  Clean'
<1>1. /\ DOMAIN With(c) = DOMAIN connections
      /\ \A i \in DOMAIN connections : i # call.conn => With(c)[i] = connections[i]
  BY WithFacts
<1>2. Current' = c
  BY CurrentAfter
<1>3. \A i \in DOMAIN connections' : i # call'.conn => Quiet(connections'[i])
  BY <1>1, CleanTypes
<1>4. Clear(call, Current)'
  <2>1. PICK me : me = call'
    OBVIOUS
  <2> QED
    BY <1>2, <2>1, ClearStays DEF Clear, Sent, Whole, Units, Quiet
<1> QED
  BY <1>3, <1>4, CleanTypes DEF Clean, At

LEMMA CallClean == ASSUME Inv, Clean, Call PROVE Clean'
<1> DEFINE me == [Idle EXCEPT !.attempt = 1]
<1>1. me \in Calls
  <2>1. me = [pc |-> "idle", last |-> "ok", attempt |-> 1, gets |-> 0, conn |-> 0,
              junk |-> "none", got |-> 0, reading |-> "none"]
    BY DEF Idle
  <2> QED
    BY <2>1 DEF Calls
<1>2. At("idle") /\ Request(Kept, me) /\ UNCHANGED <<framing, count, rows>>
  BY DEF Call, server
<1>3. Typed(Kept) /\ \A i \in DOMAIN Kept : Quiet(Kept[i])
  <2>1. DOMAIN <<>> = {} /\ Typed(connections)
    BY DEF Inv, CallInv
  <2>2. Typed(<<>>)
    BY <2>1, FS_EmptySet DEF Typed
  <2> QED
    BY <1>2, <2>1, <2>2 DEF Kept, Clean
<1>4. count'.parse = 0 /\ rows'.parse = 0
  BY <1>2 DEF Clean
<1> HIDE DEF me
<1> QED
  BY <1>1, <1>2, <1>3, <1>4, RequestClean

LEMMA ReportClean == ASSUME Inv, Clean, Report PROVE Clean'
<1>1. /\ At("idle") /\ count' = NoCount /\ UNCHANGED <<server, connections, call, ghosts>>
      /\ rows'.parse \in {rows.parse + count.parse, rows.parse}
  <2>1. rows \in [ok : Nat, failed : Nat, missing : Nat, parse : Nat, lost : Nat]
    BY RestHolds DEF Rest
  <2> QED
    BY <2>1 DEF Report, Reset, NewRow, LostRow
<1> QED
  BY <1>1 DEF Clean, NoCount, At, server

LEMMA ConnectClean == ASSUME Inv, Clean, Connect PROVE Clean'
<1> DEFINE c == [Current EXCEPT !.open = TRUE, !.peer = TRUE]
<1>1. At("connect") /\ ~ At("idle") /\ connections' = With(c) /\ UNCHANGED <<framing, count, rows>>
      /\ call'.conn = call.conn /\ call'.pc \in {"handshake", "write"} /\ call'.junk = call.junk
  <2>1. call \in Calls
    BY DEF Inv, CallInv
  <2> QED
    BY <2>1 DEF Connect, Goto, Calls, server, At
<1>2. Quiet(Current) /\ Current \in Connection /\ call.junk = "none"
  BY <1>1, CleanTypes DEF Clear, At
<1>3. c \in Connection /\ Quiet(c) /\ c.peer
  BY <1>2 DEF Quiet, Connection
<1> HIDE DEF c
<1>4. Clear(call', c)
  BY <1>1, <1>2, <1>3 DEF Clear
<1> QED
  BY <1>1, <1>3, <1>4, StayClean

LEMMA HandshakeClean == ASSUME Inv, Clean, Handshake PROVE Clean'
<1>1. At("handshake") /\ ~ At("idle") /\ UNCHANGED <<connections, framing, count, rows>>
      /\ call'.conn = call.conn /\ call'.pc = "write" /\ call'.junk = call.junk
  <2>1. call \in Calls
    BY DEF Inv, CallInv
  <2> QED
    BY <2>1 DEF Handshake, Goto, Calls, server, At
<1>2. Current' = Current
  BY <1>1 DEF Current
<1> QED
  BY <1>1, <1>2 DEF Clean, Clear, At, Quiet

LEMMA WriteClean == ASSUME Inv, Clean, Write, ~ garbled' PROVE Clean'
<1>1. At("write") /\ ~ At("idle") /\ UNCHANGED <<framing, count, rows>>
      /\ call'.conn = call.conn /\ call'.pc = "read" /\ call'.junk = call.junk
  <2>1. call \in Calls
    BY DEF Inv, CallInv
  <2>2. call' = [call EXCEPT !.pc = "read", !.gets = @ + 1]
    BY DEF Write
  <2>3. call'.conn = call.conn /\ call'.pc = "read" /\ call'.junk = call.junk
    BY <2>1, <2>2 DEF Calls
  <2> QED
    BY <2>3 DEF Write, server, At
<1>2. Quiet(Current) /\ Current \in Connection /\ call.junk = "none"
  BY <1>1, CleanTypes DEF Clear, At
<1>3. CASE Current.peer /\ connections' = With([Current EXCEPT !.out = @ \o Units]) /\ garbled' = (garbled \/ framing = "none")
  <2> DEFINE s == Current.out \o Units
             c == [Current EXCEPT !.out = s]
  <2>1. s = Units
    BY <1>2, UnitFacts, ConcatEmptySeq DEF Quiet
  <2> HIDE DEF s
  <2>2. c \in Connection /\ c.peer /\ c.out = Units /\ c.wire = <<>> /\ connections' = With(c)
    BY <1>2, <1>3, <2>1, UnitFacts DEF Quiet, Connection, s
  <2> HIDE DEF c
  <2>3. framing # "none"
    BY <1>3
  <2>4. Len(c.wire) = 0 /\ 1..0 = {} /\ Len(c.out) = 3
    BY <2>2, UnitFacts
  <2>5. \A j \in 1..3 : c.out[j] = Units[0 + j]
    <3>1. \A j \in 1..3 : 0 + j = j
      OBVIOUS
    <3> QED
      BY <2>2, <3>1
  <2>6. Sent(c)
    BY <2>4, <2>5 DEF Sent
  <2>7. Clear(call', c)
    BY <1>1, <1>2, <2>2, <2>3, <2>6 DEF Clear
  <2> QED
    BY <1>1, <2>2, <2>7, StayClean
<1>4. CASE ~ Current.peer /\ connections' = connections
  <2>1. Current' = Current
    BY <1>1, <1>4 DEF Current
  <2> QED
    BY <1>1, <1>2, <1>4, <2>1 DEF Clean, Clear, At, Quiet
<1> QED
  BY <1>3, <1>4 DEF Write

LEMMA FailClean ==
    ASSUME Inv, Clean, ConnectFails \/ HandshakeFails \/ WriteFails \/ BodyFails \/ BodyBreaks
    PROVE  Clean'
  BY ErrorClean DEF ConnectFails, HandshakeFails, WriteFails, BodyFails, BodyBreaks, At, server

\* The header of a reply is the first unit of it
LEMMA SentHead ==
    ASSUME NEW c \in Connection, Sent(c), c.wire # <<>>
    PROVE  Len(c.wire) \in 1..3 /\ c.wire[1] = "head"
<1>1. Len(c.wire) \in Nat \ {0}
  BY EmptySeq DEF Connection
<1>2. PICK n \in Nat \ {0} : n = Len(c.wire)
  BY <1>1
<1>3. n <= 3 /\ \A j \in 1..n : c.wire[j] = Units[j]
  BY <1>2 DEF Sent
<1>4. n <= 3
  BY <1>3
<1>5. n \in 1..3 /\ 1 \in 1..n
  BY <1>4
<1> QED
  BY <1>2, <1>3, <1>5, UnitFacts

\* Without a header nothing was sent: nothing gets in front of the next one
LEMMA NoHeads ==
    ASSUME Inv, Clean, At("read"), Heads = {} PROVE Quiet(Current) \/ Current.wire = <<>>
<1>1. Current \in Connection /\ Clear(call, Current)
  BY CleanTypes DEF At
<1>2. ASSUME Sent(Current), Current.wire # <<>> PROVE FALSE
  <2>1. 1 \in 1..Len(Current.wire) /\ Current.wire[1] = "head"
    BY <1>1, <1>2, SentHead
  <2> QED
    BY <2>1 DEF Heads
<1> QED
  BY <1>1, <1>2 DEF Clear, At

LEMMA NothingBehind == call.junk = "none" => Behind(<<>>) = "none"
<1>1. 1..Len(<<>>) = {}
  OBVIOUS
<1> QED
  BY <1>1 DEF Behind

LEMMA ReadFailsClean == ASSUME Inv, Clean, ReadFails PROVE Clean'
<1>1. At("read") /\ ~ At("idle") /\ UNCHANGED <<framing, rows>> /\ Heads = {} /\ ~ Current.peer
  BY DEF ReadFails, At, server
<1>2. Current \in Connection /\ Clear(call, Current) /\ call \in Calls
  BY <1>1, CleanTypes
<1>3. CASE Current.reconnecting
  BY <1>1, <1>3, ErrorClean DEF ReadFails
<1>4. CASE ~ Current.reconnecting
  <2> DEFINE closed == Closed(Current)
             c == Reconnecting(closed)
  <2>1. closed \in Connection /\ Quiet(closed)
    BY <1>2, ClosedFacts, QuietFacts
  <2> HIDE DEF closed
  <2>2. c \in Connection /\ Quiet(c)
    BY <2>1 DEF Reconnecting, Quiet, Connection
  <2>3. connections' = With(c) /\ call' = [call EXCEPT !.pc = "connect", !.junk = Behind(Current.wire)]
        /\ UNCHANGED count
    BY <1>4 DEF ReadFails, closed
  <2> HIDE DEF c
  <2>4. Behind(Current.wire) = "none"
    BY <1>1, <1>2, NoHeads, NothingBehind DEF Quiet, Clear
  <2>5. call'.pc = "connect" /\ call'.conn = call.conn /\ call'.junk = "none"
    BY <1>2, <2>3, <2>4 DEF Calls
  <2>6. Clear(call', c)
    BY <2>2, <2>5 DEF Clear, Quiet
  <2> QED
    BY <1>1, <2>2, <2>3, <2>5, <2>6, StayClean
<1> QED
  BY <1>3, <1>4

LEMMA ReadHeadClean == ASSUME Inv, Clean, ReadHead PROVE Clean'
<1>1. At("read") /\ ~ At("idle") /\ Heads # {} /\ UNCHANGED <<framing, rows>>
  BY DEF ReadHead, At, server
<1>2. Current \in Connection /\ Clear(call, Current) /\ call \in Calls
  BY <1>1, CleanTypes
<1> DEFINE W == Current.wire
           head == CHOOSE i \in Heads : \A j \in Heads : i <= j
           rest == SubSeq(W, head + 1, Len(W))
           before == SubSeq(W, 1, head - 1)
           junk == Behind(before)
<1>3. PICK r \in Readings(junk), k \in 0..Len(rest) :
         LET c == [Current EXCEPT !.reconnecting = FALSE,
                                  !.wire = SubSeq(rest, k + 1, Len(rest))]
         IN  CASE r = "throws" -> Throws(With(c)) /\ thrown' = thrown + 1
             []   r = "none"   -> Reply(c, junk = "none" /\ k = 2) /\ UNCHANGED thrown
             []   OTHER        ->
                    /\ connections' = With(c)
                    /\ call' = [call EXCEPT !.pc = "body", !.reading = r, !.got = k,
                                            !.junk = "none"]
                    /\ UNCHANGED <<count, thrown>>
  BY DEF ReadHead
<1> DEFINE wire == SubSeq(rest, k + 1, Len(rest))
           c == [Current EXCEPT !.reconnecting = FALSE, !.wire = wire]
<1>4. W \in Seq(WireUnits)
  BY <1>2 DEF Connection, WireUnits
<1>5. head \in 1..Len(W) /\ \A j \in Heads : head <= j
  <2>1. PICK w \in Seq(WireUnits) : w = W
    BY <1>4
  <2>2. Heads = {i \in 1..Len(w) : w[i] = "head"}
    BY <2>1 DEF Heads
  <2> QED
    BY <1>1, <2>1, <2>2, HeadFacts
<1>6. Sent(Current) /\ framing # "none" /\ W # <<>>
  <2>1. W # <<>>
    <3>1. 1..Len(<<>>) = {}
      OBVIOUS
    <3> QED
      BY <1>5, <3>1
  <2> QED
    BY <1>1, <1>2, <2>1 DEF Clear, Quiet, At
<1>7. head = 1
  <2>1. 1 \in Heads
    BY <1>2, <1>6, SentHead DEF Heads
  <2> QED
    BY <1>5, <2>1
<1> HIDE DEF head
<1>8. /\ Len(W) \in Nat /\ wire \in Seq(WireUnits) /\ Len(wire) = Len(W) - 1 - k /\ before = <<>>
  BY <1>4, <1>5, <1>7, WireFacts
<1>9. k \in Nat /\ junk = "none"
  <2>1. k \in Nat
    OBVIOUS
  <2>2. before = <<>> /\ call.junk = "none"
    BY <1>2, <1>8 DEF Clear
  <2> QED
    BY <2>1, <2>2, NothingBehind
<1> HIDE DEF junk, before
<1>10. r = framing /\ r \notin {"throws", "none"}
  BY <1>6, <1>9, HttpAssumption, RestHolds DEF Readings, Rest
<1>11. connections' = With(c) /\ UNCHANGED count
       /\ call' = [call EXCEPT !.pc = "body", !.reading = r, !.got = k, !.junk = "none"]
  BY <1>3, <1>10 DEF wire
<1> HIDE DEF wire
<1>12. c \in Connection /\ c.wire = wire /\ c.peer = Current.peer /\ c.out = Current.out
  BY <1>2, <1>8 DEF Connection, WireUnits
<1> HIDE DEF c
<1>13. /\ call'.pc = "body" /\ call'.conn = call.conn /\ call'.junk = "none"
       /\ call'.reading = framing /\ call'.got = k
  BY <1>2, <1>10, <1>11 DEF Calls
<1>14. Whole(c, k)
  <2>1. Len(Current.out) \in Nat /\ Len(W) \in 1..3
    BY <1>2, <1>6, SentHead, LenProperties DEF Connection
  <2>2. PICK w \in 1..3, o \in Nat : w = Len(W) /\ o = Len(Current.out)
    BY <2>1
  <2>3. PICK n : n = Len(wire) /\ n = w - 1 - k
    BY <1>8, <2>2
  <2>4. k + n <= 2 /\ (w + o = 3 => k + n + o = 2)
    <3>1. n = w - 1 - k
      BY <2>3
    <3> QED
      BY <1>9, <3>1
  <2>5. ASSUME framing = "eof", NEW j \in 1..o
        PROVE  Current.out[j] = IF j = o THEN "end" ELSE "body"
    <3>1. w + o = 3 /\ Current.out[j] = Units[w + j]
      BY <1>6, <2>2, <2>5 DEF Sent
    <3>2. w + o = 3
      BY <3>1
    <3>3. w + j \in 2..3 /\ (w + j = 3 <=> j = o)
      BY <3>2
    <3> QED
      BY <2>5, <3>1, <3>3, UnitFacts
  <2>6. Current.peer \/ framing = "eof" => w + o = 3
    BY <1>6, <2>2 DEF Sent
  <2> QED
    BY <1>12, <2>2, <2>3, <2>4, <2>5, <2>6 DEF Whole
<1>15. Clear(call', c)
  BY <1>2, <1>6, <1>12, <1>13, <1>14 DEF Clear
<1> QED
  BY <1>1, <1>11, <1>12, <1>13, <1>15, StayClean

LEMMA BodyClear ==
    ASSUME Inv, Clean, At("body")
    PROVE  /\ framing # "none" /\ call.reading = framing /\ Whole(Current, call.got) /\ call.junk = "none"
           /\ Current \in Connection /\ Len(Current.wire) \in Nat /\ Len(Current.out) \in Nat
           /\ call \in Calls /\ call.got \in Nat /\ (~ Current.peer => Current.out = <<>>)
<1>1. Current \in Connection /\ Clear(call, Current) /\ call \in Calls
  BY CleanTypes DEF At
<1>2. Len(Current.wire) \in Nat /\ Len(Current.out) \in Nat
  BY <1>1, LenProperties DEF Connection
<1> QED
  BY <1>1, <1>2 DEF Clear, At, Calls

LEMMA ReadUnitClean == ASSUME Inv, Clean, NEW readings, ReadUnit(readings) PROVE Clean'
<1> DEFINE wire == Tail(Current.wire)
           c == [Current EXCEPT !.wire = wire]
<1>1. /\ At("body") /\ ~ At("idle") /\ Current.wire # <<>> /\ connections' = With(c)
      /\ call' = [call EXCEPT !.got = IF @ = 3 THEN 3 ELSE @ + 1] /\ UNCHANGED <<framing, count, rows>>
  BY DEF ReadUnit, At, server
<1>2. /\ framing # "none" /\ call.reading = framing /\ Whole(Current, call.got) /\ call.junk = "none"
      /\ Current \in Connection /\ Len(Current.wire) \in Nat /\ Len(Current.out) \in Nat
      /\ call \in Calls /\ call.got \in Nat /\ (~ Current.peer => Current.out = <<>>)
  BY <1>1, BodyClear
<1>3. wire \in Seq(WireUnits) /\ Len(wire) = Len(Current.wire) - 1 /\ Len(Current.wire) \in Nat \ {0}
  BY <1>1, <1>2, TailFacts DEF Connection, WireUnits
<1> HIDE DEF wire
<1>4. c \in Connection /\ c.wire = wire /\ c.peer = Current.peer /\ c.out = Current.out
  BY <1>2, <1>3 DEF Connection, WireUnits
<1> HIDE DEF c
<1>5. call.got # 3
  BY <1>2, <1>3 DEF Whole
<1>6. /\ call'.pc = "body" /\ call'.conn = call.conn /\ call'.got = call.got + 1
      /\ call'.junk = call.junk /\ call'.reading = call.reading
  BY <1>1, <1>2, <1>5 DEF Calls, At
<1>7. Whole(c, call.got + 1)
  <2>1. PICK g \in Nat, n \in Nat \ {0}, o \in Nat :
         g = call.got /\ n = Len(Current.wire) /\ o = Len(Current.out)
    BY <1>2, <1>3
  <2>2. g + 1 + (n - 1) = g + n /\ g + 1 + (n - 1) + o = g + n + o
    OBVIOUS
  <2>3. Len(c.wire) = n - 1 /\ Len(c.out) = o /\ c.out = Current.out
    BY <1>3, <1>4, <2>1
  <2>4. Whole(Current, g)
    BY <1>2, <2>1
  <2>5. Whole(c, g + 1)
    BY <1>4, <2>1, <2>2, <2>3, <2>4 DEF Whole
  <2> QED
    BY <2>1, <2>5
<1>8. Clear(call', c)
  BY <1>2, <1>4, <1>6, <1>7 DEF Clear
<1> QED
  BY <1>1, <1>4, <1>6, <1>8, StayClean

LEMMA BodyEndsClean == ASSUME Inv, Clean, BodyEnds PROVE Clean'
<1>1. At("body") /\ ~ At("idle") /\ UNCHANGED <<framing, rows>>
  BY DEF BodyEnds, At, server
<1>2. /\ framing # "none" /\ call.reading = framing /\ Whole(Current, call.got)
      /\ Current \in Connection /\ Len(Current.wire) \in Nat /\ Len(Current.out) \in Nat
      /\ call.got \in Nat /\ (~ Current.peer => Current.out = <<>>)
  BY <1>1, BodyClear
<1>3. \A s : s \in Seq(WireUnits) /\ Len(s) = 0 => s = <<>>
  BY EmptySeq
<1>4. Current.wire \in Seq(WireUnits) /\ Current.out \in Seq(WireUnits)
  BY <1>2 DEF Connection, WireUnits
<1>5. CASE call.reading \in {"length", "chunked"} /\ Done /\ Reply(Current, TRUE)
  <2>1. Len(Current.wire) = 0
    BY <1>2, <1>5 DEF Whole, Done
  <2>2. Current.peer => Len(Current.out) = 0
    BY <1>2, <1>5, <2>1 DEF Whole, Done
  <2>3. Quiet(Current)
    BY <1>2, <1>3, <1>4, <2>1, <2>2 DEF Quiet
  <2> QED
    BY <1>1, <1>2, <1>5, <2>3, ReplyClean
<1>6. CASE /\ call.reading \in {"eof", "garbage"} /\ Current.wire = <<>> /\ ~ Current.peer
           /\ Reply(Closed(Current), call.reading = "eof" /\ Done)
  <2>1. framing = "eof"
    BY <1>2, <1>6, HttpAssumption, RestHolds DEF Rest
  <2>2. Len(Current.wire) = 0 /\ Len(Current.out) = 0
    <3>1. Len(<<>>) = 0
      OBVIOUS
    <3> QED
      BY <1>2, <1>6, <3>1
  <2>3. Done
    BY <1>2, <2>1, <2>2 DEF Whole, Done
  <2>4. (call.reading = "eof" /\ Done) = TRUE
    BY <1>2, <2>1, <2>3
  <2>5. Reply(Closed(Current), TRUE)
    BY <1>6, <2>4
  <2>6. Closed(Current) \in Connection /\ Quiet(Closed(Current))
    BY <1>2, ClosedFacts, QuietFacts
  <2> QED
    BY <1>1, <2>5, <2>6, ReplyClean
<1> QED
  BY <1>5, <1>6 DEF BodyEnds

LEMMA AgentSendsClean == ASSUME Inv, Clean, AgentSends PROVE Clean'
<1>1. ~ At("idle") /\ Current.out # <<>> /\ UNCHANGED <<framing, call, count, rows>>
  BY DEF AgentSends, server
<1>2. Current \in Connection /\ Clear(call, Current) /\ Current.peer
  BY <1>1, CleanTypes DEF Clear
<1> DEFINE u == Head(Current.out)
           wire == Append(Current.wire, u)
           out == IF u = "end" THEN <<>> ELSE Tail(Current.out)
           p == u # "end"
           c == [Current EXCEPT !.wire = wire, !.peer = p, !.out = out]
<1>3. connections' = With(c)
  BY DEF AgentSends
<1>4. Current.out \in Seq({"head", "body", "end"}) /\ Current.wire \in Seq(WireUnits)
  BY <1>2 DEF Connection, WireUnits
<1>5. /\ u \in {"head", "body", "end"} /\ u = Current.out[1] /\ Tail(Current.out) \in Seq({"head", "body", "end"})
      /\ Len(Current.out) \in Nat \ {0} /\ Len(Tail(Current.out)) = Len(Current.out) - 1
      /\ \A j \in 1..Len(Tail(Current.out)) : Tail(Current.out)[j] = Current.out[j + 1]
  <2>1. Head(Current.out) = Current.out[1]
    BY <1>1, <1>4
  <2> QED
    BY <1>1, <1>4, <2>1, HeadTailProperties, TailFacts
<1> HIDE DEF u
<1>6. /\ wire \in Seq(WireUnits) /\ Len(wire) = Len(Current.wire) + 1 /\ Len(Current.wire) \in Nat
      /\ (\A j \in 1..Len(Current.wire) : wire[j] = Current.wire[j]) /\ wire[Len(Current.wire) + 1] = u
  <2>1. u \in WireUnits
    BY <1>5 DEF WireUnits
  <2> QED
    BY <1>4, <2>1, AppendProperties, LenProperties
<1>7. out \in Seq({"head", "body", "end"}) /\ p \in BOOLEAN
  BY <1>5, EmptySequence
<1> HIDE DEF wire, out, p
<1>8. c \in Connection /\ c.wire = wire /\ c.peer = p /\ c.out = out
  BY <1>2, <1>6, <1>7 DEF Connection, WireUnits
<1> HIDE DEF c
<1>9. PICK o \in Nat \ {0}, w \in Nat : o = Len(Current.out) /\ w = Len(Current.wire)
  BY <1>5, <1>6
<1>10. /\ Len(wire) = w + 1 /\ (\A j \in 1..w : wire[j] = Current.wire[j]) /\ wire[w + 1] = u
       /\ u = Current.out[1]
       /\ IF u = "end" THEN out = <<>> /\ Len(out) = 0
          ELSE Len(out) = o - 1 /\ \A j \in 1..o - 1 : out[j] = Current.out[j + 1]
  <2>1. Len(<<>>) = 0
    OBVIOUS
  <2> QED
    BY <1>5, <1>6, <1>9, <2>1 DEF out
<1>11. ASSUME At("read") PROVE framing # "none" /\ Sent(c)
  <2>1. framing # "none" /\ Sent(Current)
    BY <1>1, <1>2, <1>11 DEF Clear, Quiet, At
  <2>2. /\ w + o = 3 /\ \A j \in 1..w : Current.wire[j] = Units[j]
        /\ \A j \in 1..o : Current.out[j] = Units[w + j]
    BY <1>2, <1>9, <2>1 DEF Sent
  <2>3. w + o = 3
    BY <2>2
  <2>4. w + 1 <= 3 /\ 1 \in 1..o /\ w + 1 \in 1..3 /\ (w + 1) + (o - 1) = 3
        /\ \A j \in 1..w + 1 : j \in 1..w \/ j = w + 1
    BY <2>3
  <2>5. u = Units[w + 1]
    BY <1>10, <2>2, <2>4
  <2>6. \A j \in 1..w + 1 : wire[j] = Units[j]
    BY <1>10, <2>2, <2>4, <2>5
  <2>7. u = "end" => framing = "eof" /\ w + 1 = 3
    <3>1. \A j \in 1..3 : Units[j] = "end" => framing = "eof" /\ j = 3
      <4>1. \A j \in 1..3 : j = 1 \/ j = 2 \/ j = 3
        OBVIOUS
      <4> QED
        BY <4>1, UnitFacts
    <3> QED
      BY <2>4, <2>5, <3>1
  <2>8. CASE u = "end"
    <3>1. (w + 1) + 0 = 3 /\ 1..0 = {}
      BY <2>7, <2>8
    <3> QED
      BY <1>8, <1>10, <2>1, <2>4, <2>6, <2>8, <3>1 DEF Sent
  <2>9. CASE u # "end"
    <3>1. \A j \in 1..o - 1 : j + 1 \in 1..o /\ w + (j + 1) = (w + 1) + j
      OBVIOUS
    <3>2. \A j \in 1..o - 1 : out[j] = Units[(w + 1) + j]
      BY <1>10, <2>2, <2>9, <3>1
    <3> QED
      BY <1>8, <1>10, <2>1, <2>4, <2>6, <2>9, <3>2 DEF Sent
  <2> QED
    BY <2>8, <2>9
<1>12. ASSUME At("body") PROVE framing # "none" /\ call.reading = framing /\ Whole(c, call.got)
  <2>1. framing # "none" /\ call.reading = framing /\ Whole(Current, call.got) /\ call.got \in Nat
    BY <1>12, BodyClear
  <2>2. PICK g \in Nat : g = call.got
    BY <2>1
  <2>3. /\ g + w + o = 2
        /\ framing = "eof" => \A j \in 1..o : Current.out[j] = IF j = o THEN "end" ELSE "body"
    BY <1>2, <1>9, <2>1, <2>2 DEF Whole
  <2>4. g + w + o = 2
    BY <2>3
  <2>5. g + (w + 1) <= 2 /\ g + (w + 1) + (o - 1) = 2 /\ (o = 1 => g + (w + 1) + 0 = 2) /\ 1 \in 1..o
    BY <2>4
  <2>6. CASE u = "end"
    <3>1. framing = "eof" => o = 1
      BY <1>10, <2>3, <2>5, <2>6
    <3>2. 1..0 = {}
      OBVIOUS
    <3> QED
      BY <1>8, <1>10, <2>1, <2>2, <2>5, <2>6, <3>1, <3>2 DEF Whole, p
  <2>7. CASE u # "end"
    <3>1. \A j \in 1..o - 1 : j + 1 \in 1..o /\ (j + 1 = o <=> j = o - 1)
      OBVIOUS
    <3>2. framing = "eof" => \A j \in 1..o - 1 : out[j] = IF j = o - 1 THEN "end" ELSE "body"
      BY <1>10, <2>3, <2>7, <3>1
    <3> QED
      BY <1>8, <1>10, <2>1, <2>2, <2>5, <2>7, <3>2 DEF Whole
  <2> QED
    BY <2>6, <2>7
<1>13. ~ p => out = <<>>
  BY DEF p, out
<1>14. Clear(call', c)
  BY <1>1, <1>2, <1>8, <1>11, <1>12, <1>13 DEF Clear, Quiet, At
<1> QED
  BY <1>1, <1>3, <1>8, <1>14, StayClean DEF At

LEMMA AgentClosesClean ==
    ASSUME Inv, Clean, NEW i \in DOMAIN connections, AgentCloses(i), ~ garbled' PROVE Clean'
<1>1. /\ UNCHANGED <<framing, call, count, rows>> /\ connections[i].peer
  BY DEF AgentCloses, server
<1> DEFINE old == connections[i]
<1>2. PICK broken \in {<<>>, <<"cut">>} :
        /\ connections' = [connections EXCEPT ![i].peer = FALSE, ![i].out = <<>>,
                                              ![i].wire = @ \o broken]
        /\ garbled' = (garbled \/ broken # <<>> \/ (\E j \in 1..Len(old.out) : old.out[j] = "end"
                                                     /\ old.out[1] # "head"))
  BY DEF AgentCloses
<1>3. broken = <<>> /\ \A j \in 1..Len(old.out) : old.out[j] = "end" => old.out[1] = "head"
  BY <1>2
<1>4. old \in Connection
  BY DEF Inv, CallInv, Typed
<1> DEFINE c == [old EXCEPT !.peer = FALSE, !.out = <<>>]
<1>5. old.wire \o broken = old.wire
  BY <1>3, <1>4, ConcatEmptySeq DEF Connection
<1>6. connections' = [connections EXCEPT ![i] = c]
  BY <1>2, <1>4, <1>5 DEF Connection
<1> HIDE DEF old
<1>7. c \in Connection /\ ~ c.peer /\ c.out = <<>> /\ c.wire = old.wire
  BY <1>4, EmptySequence DEF Connection
<1> HIDE DEF c
<1>8. \A j \in DOMAIN connections' : At("idle") \/ j # call.conn => Quiet(connections'[j])
  <2>1. /\ DOMAIN connections' = DOMAIN connections /\ connections'[i] = c
        /\ \A j \in DOMAIN connections : j # i => connections'[j] = connections[j]
    BY <1>6
  <2>2. \A j \in DOMAIN connections : At("idle") \/ j # call.conn => Quiet(connections[j])
    BY DEF Clean
  <2>3. Quiet(old) => Quiet(c)
    BY <1>7 DEF Quiet
  <2> QED
    BY <2>1, <2>2, <2>3 DEF old
<1>9. ASSUME ~ At("idle") PROVE Clear(call, Current)'
  <2>1. Clear(call, Current) /\ call.conn \in DOMAIN connections
    BY <1>9, CleanTypes
  <2>2. CASE i # call.conn
    <3>1. Current' = Current
      BY <1>1, <1>6, <2>1, <2>2 DEF Current
    <3>2. PICK me, d : me = call /\ d = Current /\ Clear(me, d)
      BY <2>1
    <3>3. Clear(me, d)'
      BY <1>1, <3>2, ClearStays
    <3>4. call' = me /\ Current' = d
      BY <1>1, <3>1, <3>2
    <3> QED
      BY <3>3, <3>4 DEF Clear, Sent, Whole, Units, Quiet
  <2>3. CASE i = call.conn
    <3>1. Current' = c /\ Current = old
      BY <1>1, <1>6, <2>3 DEF Current, old
    <3>2. PICK o \in Nat, w \in Nat : o = Len(old.out) /\ w = Len(old.wire)
      BY <1>4, LenProperties DEF Connection
    <3>3. old.peer
      BY <1>1 DEF old
    <3>4. Len(<<>>) = 0 /\ 1..0 = {}
      OBVIOUS
    <3>5. o = 0 => old.out = <<>>
      BY <1>4, <3>2, EmptySeq DEF Connection
    <3>6. ASSUME At("read") PROVE Quiet(c) \/ (framing # "none" /\ Sent(c))
      <4>1. framing # "none" /\ Sent(old)
        BY <2>1, <3>1, <3>3, <3>6 DEF Clear, At
      <4>2. /\ w <= 3 /\ w + o = 3 /\ \A j \in 1..w : old.wire[j] = Units[j]
            /\ \A j \in 1..o : old.out[j] = Units[w + j]
        BY <3>2, <3>3, <4>1 DEF Sent
      <4>3. w + o = 3 /\ w <= 3
        BY <4>2
      <4>4. CASE framing = "eof" /\ o # 0
        <5>1. o \in 1..o /\ 1 \in 1..o
          BY <4>4
        <5>2. w + o = 3
          BY <4>2
        <5>3. old.out[o] = "end"
          BY <4>2, <4>4, <5>1, <5>2, UnitFacts
        <5>4. Units[w + 1] = "head"
          BY <1>3, <3>2, <4>2, <5>1, <5>3
        <5>5. w + 1 \in 1..3 /\ (w + 1 = 1 => w = 0)
          BY <4>3, <4>4
        <5>6. \A j \in 1..3 : Units[j] = "head" => j = 1
          <6>1. \A j \in 1..3 : j = 1 \/ j = 2 \/ j = 3
            OBVIOUS
          <6> QED
            BY <6>1, UnitFacts
        <5>7. w = 0
          BY <5>4, <5>5, <5>6
        <5>8. old.wire = <<>>
          BY <1>4, <3>2, <5>7, EmptySeq DEF Connection
        <5> QED
          BY <1>7, <5>8 DEF Quiet
      <4>5. CASE framing = "eof" /\ o = 0
        BY <1>7, <3>2, <3>4, <4>1, <4>2, <4>5 DEF Sent
      <4>6. CASE framing # "eof"
        BY <1>7, <3>2, <4>1, <4>2, <4>6 DEF Sent
      <4> QED
        BY <4>4, <4>5, <4>6
    <3>7. ASSUME At("body")
          PROVE  framing # "none" /\ call.reading = framing /\ Whole(c, call.got)
      <4>1. framing # "none" /\ call.reading = framing /\ Whole(old, call.got)
        BY <3>1, <3>7, BodyClear
      <4>2. CASE framing = "eof"
        <5>1. \A j \in 1..o : old.out[j] = IF j = o THEN "end" ELSE "body"
          BY <3>2, <4>1, <4>2 DEF Whole
        <5>2. o = 0
          <6>1. ASSUME o # 0 PROVE FALSE
            <7>1. o \in 1..o /\ 1 \in 1..o
              BY <6>1
            <7>2. old.out[o] = "end" /\ old.out[1] # "head"
              BY <5>1, <7>1
            <7> QED
              BY <1>3, <3>2, <7>1, <7>2
          <6> QED
            BY <6>1
        <5> QED
          BY <1>7, <3>1, <3>2, <3>3, <3>5, <4>1, <5>2 DEF Whole
      <4>3. CASE framing # "eof"
        BY <1>7, <4>1, <4>3 DEF Whole
      <4> QED
        BY <4>2, <4>3
    <3>8. Clear(call, c)
      <4>1. call.pc \in {"connect", "handshake", "write"} => Quiet(c)
        BY <1>7, <2>1, <3>1 DEF Clear, Quiet
      <4> QED
        BY <1>7, <2>1, <3>6, <3>7, <4>1 DEF Clear, At
    <3>9. PICK me, d : me = call /\ d = c /\ Clear(me, d)
      BY <3>8
    <3>10. Clear(me, d)'
      BY <1>1, <3>9, ClearStays
    <3>11. call' = me /\ Current' = d
      BY <1>1, <3>1, <3>9
    <3> QED
      BY <3>10, <3>11 DEF Clear, Sent, Whole, Units, Quiet
  <2> QED
    BY <2>2, <2>3
<1> QED
  BY <1>1, <1>8, <1>9 DEF Clean, At

LEMMA GarbledStays == [Next]_vars => (garbled => garbled')
  BY DEF Next, Client, vars, ghosts, Call, Report, Connect, ConnectFails, Handshake, HandshakeFails, Write,
         WriteFails, ReadHead, ReadFails, ReadLength, ReadChunked, ReadToEnd, ReadUnit, BodyEnds, BodyFails,
         BodyBreaks, AgentSends, AgentCloses

LEMMA NextClean == Inv /\ CleanInv /\ [Next]_vars => CleanInv'
<1> SUFFICES ASSUME Inv, CleanInv, [Next]_vars, ~ garbled' PROVE Clean'
  BY DEF CleanInv
<1>1. Clean
  BY GarbledStays DEF CleanInv
<1>2. CASE UNCHANGED vars
  BY <1>1, <1>2 DEF vars, server, Clean, Clear, Sent, Whole, Units, Quiet, At, Current
<1>3. CASE Call \/ Report
  BY <1>1, <1>3, CallClean, ReportClean
<1>4. CASE Client
  BY <1>1, <1>4, ConnectClean, HandshakeClean, WriteClean, FailClean, ReadHeadClean, ReadFailsClean,
     ReadUnitClean, BodyEndsClean DEF Client, ReadLength, ReadChunked, ReadToEnd
<1>5. CASE BodyBreaks \/ AgentSends \/ \E i \in DOMAIN connections : AgentCloses(i)
  BY <1>1, <1>5, FailClean, AgentSendsClean, AgentClosesClean
<1> QED
  BY <1>2, <1>3, <1>4, <1>5 DEF Next

\* As long as no header was cut, no body ended where nothing could tell, and no agent
\* left its bodies without an end, no reply is taken for broken JSON, whatever the
\* agent refuses, closes and sends again
THEOREM BrokenMeansGarbled == Spec => []ParseNeedsGarbled
<1>1. Init => CleanInv
  <2> SUFFICES ASSUME Init PROVE Clean
    BY DEF CleanInv
  <2>1. DOMAIN connections = {} /\ call.pc = "idle" /\ count.parse = 0 /\ rows.parse = 0
    BY DEF Init, Idle, NoCount
  <2> QED
    BY <2>1 DEF Clean, At
<1>2. Inv /\ CleanInv /\ [Next]_vars => CleanInv'
  BY NextClean
<1>3. CleanInv => ParseNeedsGarbled
  BY DEF CleanInv, Clean, ParseNeedsGarbled
<1> QED
  BY <1>1, <1>2, <1>3, InvHolds, PTL DEF Spec

=============================================================================
