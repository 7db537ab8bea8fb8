-------------------------- MODULE AggregationProofs --------------------------
(***************************************************************************)
(* Theorems about Aggregation, for any backends, samples, delays and       *)
(* retentions: type correctness; that the rows of minutes and hours are    *)
(* exact; that nothing is purged before it is condensed; and that a turn   *)
(* without failures makes up for those before.                             *)
(***************************************************************************)
EXTENDS Aggregation, TLAPS

-----------------------------------------------------------------------------
(***************************************************************************)
(* Numbers: spans                                                          *)
(***************************************************************************)
LEMMA DivFacts ==
    ASSUME NEW n \in Nat, NEW d \in Nat \ {0}
    PROVE  n \div d \in Nat /\ (n \div d) * d <= n /\ n < (n \div d) * d + d
OBVIOUS
LEMMA MulMono ==
    ASSUME NEW a \in Int, NEW b \in Int, NEW d \in Nat, a <= b PROVE a * d <= b * d
OBVIOUS
LEMMA DivLess ==
    ASSUME NEW n \in Nat, NEW d \in Nat \ {0}, NEW q \in Int
    PROVE  n \div d < q <=> n < q * d
<1>1. PICK k \in Nat : k = n \div d /\ k * d <= n /\ n < k * d + d
  BY DivFacts
<1>2. k < q => (k + 1) * d <= q * d
  BY MulMono
<1>3. q <= k => q * d <= k * d
  BY MulMono
<1>4. (k + 1) * d = k * d + d
  OBVIOUS
<1>5. k * d \in Int /\ q * d \in Int
  OBVIOUS
<1> QED
  BY <1>1, <1>2, <1>3, <1>4, <1>5
LEMMA DivMono ==
    ASSUME NEW n \in Nat, NEW m \in Nat, NEW d \in Nat \ {0}, n <= m PROVE n \div d <= m \div d
<1>1. m \div d + 1 \in Int /\ m \div d \in Nat /\ m < (m \div d + 1) * d
  BY DivFacts
<1>2. n < (m \div d + 1) * d
  BY <1>1
<1>3. n \div d < m \div d + 1
  BY <1>1, <1>2, DivLess
<1> QED
  BY <1>1, <1>3, DivFacts
LEMMA DivSame ==
    ASSUME NEW n \in Nat, NEW d \in Nat \ {0} PROVE ((n \div d) * d) \div d = n \div d
<1>1. PICK k \in Nat : k = n \div d 
  BY DivFacts
<1>2. k * d \in Nat
  OBVIOUS
<1>3. ~ (k * d < k * d)
  BY <1>2
<1>4. k * d < (k+1) * d
  OBVIOUS
<1>5. ~ ((k * d) \div d < k) /\ (k * d) \div d < k + 1
  BY <1>2, <1>3, <1>4, DivLess
<1>6. (k * d) \div d \in Nat
  BY <1>2, DivFacts
<1> QED
  BY <1>1, <1>5, <1>6

\* A span starts where a sample of it would, at or before its samples
LEMMA SpanFacts ==
    ASSUME NEW l \in Levels, NEW t \in Nat
    PROVE  /\ Width[l] \in Nat \ {0} /\ Span(l, t) \in Nat
           /\ Span(l, t) <= t /\ t < Span(l, t) + Width[l]
           /\ l = "am" => Span(l, t) = t
<1>1. Width[l] \in Nat \ {0} /\ (l = "am" => Width[l] = 1)
  BY AggregationAssumption DEF Width, Levels
<1>2. t \div 1 = t /\ t * 1 = t
  OBVIOUS
<1>3. PICK w \in Nat \ {0} : w = Width[l]
  BY <1>1
<1>4. t \div w \in Nat /\ (t \div w) * w <= t /\ t < (t \div w) * w + w /\ (t \div w) * w \in Nat
  BY DivFacts
<1>5. Span(l, t) = (t \div w) * w
  BY <1>3 DEF Span
<1> QED
  BY <1>1, <1>2, <1>3, <1>4, <1>5

\* A later sample is of no earlier span
LEMMA SpanMono ==
    ASSUME NEW l \in Levels, NEW t \in Nat, NEW u \in Nat, t <= u
    PROVE  Span(l, t) <= Span(l, u)
<1>1. Width[l] \in Nat \ {0}
  BY SpanFacts
<1>2. t \div Width[l] \in Nat /\ u \div Width[l] \in Nat /\ t \div Width[l] <= u \div Width[l]
  BY <1>1, DivMono, DivFacts
<1> QED
  BY <1>1, <1>2, MulMono DEF Span

\* The span of a span is the span
LEMMA SpanTwice ==
    ASSUME NEW l \in Levels, NEW t \in Nat PROVE Span(l, Span(l, t)) = Span(l, t)
BY SpanFacts, DivSame DEF Span

\* Spans are the same when the quotients are
LEMMA SpanDiv ==
    ASSUME NEW l \in Levels, NEW t \in Nat, NEW u \in Nat, Span(l, t) = Span(l, u)
    PROVE  t \div Width[l] = u \div Width[l]
BY SpanFacts, DivSame DEF Span

-----------------------------------------------------------------------------
(***************************************************************************)
(* The last row: every part of a table that is not empty has one           *)
(***************************************************************************)
Tops(S) == \A D \in SUBSET S : D # {} => \E m \in D : \A x \in D : x <= m

LEMMA TopsSubset == ASSUME NEW S, NEW T \in SUBSET S, Tops(S) PROVE Tops(T)
BY DEF Tops

LEMMA TopsUnion ==
    ASSUME NEW S \in SUBSET Int, NEW T \in SUBSET Int, Tops(S), Tops(T) PROVE Tops(S \cup T)
<1> SUFFICES ASSUME NEW D \in SUBSET (S \cup T), D # {} PROVE \E m \in D : \A x \in D : x <= m
  BY DEF Tops
<1>1. D \cap S # {} => \E m \in D \cap S : \A x \in D \cap S : x <= m
  BY DEF Tops
<1>2. D \cap T # {} => \E m \in D \cap T : \A x \in D \cap T : x <= m
  BY DEF Tops
<1>3. CASE D \cap S = {}
  BY <1>2, <1>3
<1>4. CASE D \cap T = {}
  BY <1>1, <1>4
<1>5. CASE D \cap S # {} /\ D \cap T # {}
  <2>1. PICK m \in D \cap S : \A x \in D \cap S : x <= m
    BY <1>1, <1>5
  <2>2. PICK n \in D \cap T : \A x \in D \cap T : x <= n
    BY <1>2, <1>5
  <2>3. CASE m <= n
    <3>1. \A x \in D : x <= n
      BY <2>1, <2>2, <2>3
    <3> QED
      BY <2>2, <3>1
  <2>4. CASE n <= m
    <3>1. \A x \in D : x <= m
      BY <2>1, <2>2, <2>4
    <3> QED
      BY <2>1, <3>1
  <2> QED
    BY <2>3, <2>4
<1> QED
  BY <1>3, <1>4, <1>5

\* Spans of rows
LEMMA TopsSpan ==
    ASSUME NEW S \in SUBSET Nat, Tops(S), NEW l \in Levels
    PROVE  Tops({Span(l, x) : x \in S})
<1> SUFFICES ASSUME NEW D \in SUBSET {Span(l, x) : x \in S}, D # {}
             PROVE  \E m \in D : \A x \in D : x <= m
  BY DEF Tops
<1> DEFINE E == {x \in S : Span(l, x) \in D}
<1>1. E # {} /\ E \in SUBSET S
  OBVIOUS
<1>2. PICK m \in E : \A x \in E : x <= m
  BY <1>1 DEF Tops
<1>3. ASSUME NEW d \in D PROVE d <= Span(l, m)
  <2>1. PICK x \in E : d = Span(l, x)
    OBVIOUS
  <2> QED
    BY <1>2, <2>1, SpanMono
<1> QED
  BY <1>2, <1>3

-----------------------------------------------------------------------------
(***************************************************************************)
(* The statements of a turn, by their places in it                         *)
(***************************************************************************)
Query == {[kind |-> "insert", table |-> l] : l \in Levels}
            \cup {[kind |-> "purge", table |-> t] : t \in Tables}

InsertRank == [am |-> 1, ah |-> 3, ad |-> 5]
PurgeRank  == [d |-> 2, am |-> 4, ah |-> 6, ad |-> 7]
Rank(q)    == IF q.kind = "insert" THEN InsertRank[q.table] ELSE PurgeRank[q.table]

Ordered(todo)   == \A i, j \in DOMAIN todo : i < j => Rank(todo[i]) < Rank(todo[j])
Has(todo, k)    == \E i \in DOMAIN todo : Rank(todo[i]) = k
Within(todo, a, c) == \A i \in DOMAIN todo : Rank(todo[i]) \in a..c

LEMMA QueryFacts ==
    ASSUME NEW q \in Query
    PROVE  /\ q.kind \in {"insert", "purge"} /\ q.table \in Tables
           /\ q.kind = "insert" => q.table \in Levels
           /\ Rank(q) \in 1..7
           /\ Rank(q) = 1 <=> q.kind = "insert" /\ q.table = "am"
           /\ Rank(q) = 2 <=> q.kind = "purge" /\ q.table = "d"
           /\ Rank(q) = 3 <=> q.kind = "insert" /\ q.table = "ah"
           /\ Rank(q) = 4 <=> q.kind = "purge" /\ q.table = "am"
<1>1. CASE \E l \in Levels : q = [kind |-> "insert", table |-> l]
  BY <1>1 DEF Rank, InsertRank, Levels, Tables
<1>2. CASE \E t \in Tables : q = [kind |-> "purge", table |-> t]
  BY <1>2 DEF Rank, PurgeRank, Levels, Tables
<1> QED
  BY <1>1, <1>2 DEF Query

\* One statement list after another
LEMMA Concat ==
    ASSUME NEW p \in Seq(Query), NEW q \in Seq(Query), NEW a \in Nat, NEW m \in Nat, NEW n \in Nat, NEW c \in Nat,
           Ordered(p), Ordered(q), Within(p, a, m), Within(q, n, c), a <= m, m < n, n <= c
    PROVE  /\ p \o q \in Seq(Query) /\ Ordered(p \o q) /\ Within(p \o q, a, c)
           /\ \A k : Has(p \o q, k) <=> Has(p, k) \/ Has(q, k)
<1> DEFINE r == p \o q
<1>1. /\ Len(p) \in Nat /\ Len(q) \in Nat /\ r \in Seq(Query)
      /\ DOMAIN p = 1..Len(p) /\ DOMAIN q = 1..Len(q) /\ DOMAIN r = 1..(Len(p) + Len(q))
  OBVIOUS
<1>2. /\ \A i \in DOMAIN p : i \in DOMAIN r /\ r[i] = p[i]
      /\ \A i \in DOMAIN q : Len(p) + i \in DOMAIN r /\ r[Len(p) + i] = q[i]
      /\ \A i \in DOMAIN r : i \in DOMAIN p \/ (i - Len(p) \in DOMAIN q /\ r[i] = q[i - Len(p)])
  BY <1>1
<1> HIDE DEF r
<1>3. \A i \in DOMAIN r : Rank(r[i]) \in Nat
  BY <1>1, QueryFacts
<1>4. ASSUME NEW i \in DOMAIN r, NEW j \in DOMAIN r, i < j PROVE Rank(r[i]) < Rank(r[j])
  <2>1. CASE i \in DOMAIN p /\ j \in DOMAIN p
    BY <1>2, <1>4, <2>1 DEF Ordered
  <2>2. CASE i \notin DOMAIN p
    <3>1. j \notin DOMAIN p
      BY <1>1, <1>4, <2>2
    <3>2. i - Len(p) < j - Len(p)
      BY <1>1, <1>4
    <3> QED
      BY <1>2, <2>2, <3>1, <3>2 DEF Ordered
  <2>3. CASE i \in DOMAIN p /\ j \notin DOMAIN p
    <3>1. Rank(r[i]) \in a..m /\ Rank(r[j]) \in n..c
      BY <1>2, <2>3 DEF Within
    <3> QED
      BY <3>1
  <2> QED
    BY <2>1, <2>2, <2>3
<1>5. Within(r, a, c)
  <2>1. \A i \in DOMAIN r : Rank(r[i]) \in a..m \/ Rank(r[i]) \in n..c
    BY <1>2 DEF Within
  <2> QED
    BY <2>1 DEF Within
<1>6. \A k : Has(r, k) <=> Has(p, k) \/ Has(q, k)
  BY <1>2 DEF Has
<1> QED
  BY <1>1, <1>4, <1>5, <1>6 DEF r, Ordered

LEMMA NoStatement == /\ <<>> \in Seq(Query) /\ Ordered(<<>>) /\ \A k : ~ Has(<<>>, k)
                     /\ \A a, c : Within(<<>>, a, c)
BY DEF Ordered, Has, Within

LEMMA OneStatement ==
    ASSUME NEW q \in Query
    PROVE  /\ <<q>> \in Seq(Query) /\ Ordered(<<q>>) /\ Within(<<q>>, Rank(q), Rank(q))
           /\ \A k : Has(<<q>>, k) <=> k = Rank(q)
<1>1. DOMAIN <<q>> = {1} /\ <<q>>[1] = q /\ <<q>> \in Seq(Query) /\ Rank(q) \in Nat
  BY QueryFacts
<1> QED
  BY <1>1 DEF Ordered, Has, Within

\* The statements left after one
LEMMA TailFacts ==
    ASSUME NEW todo \in Seq(Query), todo # <<>>, Ordered(todo)
    PROVE  /\ Head(todo) \in Query /\ Tail(todo) \in Seq(Query) /\ Ordered(Tail(todo))
           /\ \A k : Has(todo, k) <=> k = Rank(Head(todo)) \/ Has(Tail(todo), k)
           /\ \A k \in Nat : k <= Rank(Head(todo)) => ~ Has(Tail(todo), k)
<1> DEFINE t == Tail(todo)
<1>1. /\ Len(todo) \in Nat \ {0} /\ DOMAIN todo = 1..Len(todo)
      /\ t \in Seq(Query) /\ DOMAIN t = 1..(Len(todo) - 1) /\ Head(todo) = todo[1]
      /\ \A i \in DOMAIN t : t[i] = todo[i + 1] /\ i + 1 \in DOMAIN todo /\ i + 1 # 1 /\ 1 < i + 1
      /\ \A i \in DOMAIN todo : i = 1 \/ (i - 1 \in DOMAIN t /\ t[i - 1] = todo[i])
      /\ 1 \in DOMAIN todo
  OBVIOUS
<1> HIDE DEF t
<1>2. Head(todo) \in Query
  BY <1>1
<1>3. Ordered(t)
  BY <1>1 DEF Ordered
<1>4. \A k : Has(todo, k) <=> k = Rank(Head(todo)) \/ Has(t, k)
  BY <1>1 DEF Has
<1>5. ASSUME NEW k \in Nat, k <= Rank(Head(todo)), Has(t, k) PROVE FALSE
  <2>1. PICK i \in DOMAIN t : Rank(t[i]) = k
    BY <1>5 DEF Has
  <2>2. Rank(todo[1]) < Rank(todo[i + 1])
    BY <1>1 DEF Ordered
  <2>3. Rank(Head(todo)) \in Nat
    BY <1>2, QueryFacts
  <2> QED
    BY <1>1, <1>5, <2>1, <2>2, <2>3
<1> QED
  BY <1>1, <1>2, <1>3, <1>4, <1>5 DEF t

LEMMA PurgeStatements ==
    ASSUME NEW t \in Tables
    PROVE  /\ Purge(t) \in Seq(Query) /\ Ordered(Purge(t))
           /\ Within(Purge(t), PurgeRank[t], PurgeRank[t])
<1>1. [kind |-> "purge", table |-> t] \in Query /\ Rank([kind |-> "purge", table |-> t]) = PurgeRank[t]
  BY DEF Query, Rank
<1> QED
  BY <1>1, OneStatement, NoStatement DEF Purge

\* An insert goes before its purges
LEMMA InsertFirst ==
    ASSUME NEW l \in Levels, NEW p \in Seq(Query), NEW n \in Nat, NEW c \in Nat,
           Ordered(p), Within(p, n, c), InsertRank[l] < n, n <= c,
           NEW q, q = <<[kind |-> "insert", table |-> l]>> \o p
    PROVE  q \in Seq(Query) /\ Ordered(q) /\ Within(q, InsertRank[l], c) /\ Has(q, InsertRank[l])
<1>1. PICK s : s = [kind |-> "insert", table |-> l]
  OBVIOUS
<1>2. s \in Query /\ Rank(s) = InsertRank[l]
  BY <1>1 DEF Query, Rank
<1>3. PICK h : h = <<s>>
  OBVIOUS
<1>4. h \in Seq(Query) /\ Ordered(h) /\ Within(h, Rank(s), Rank(s)) /\ Has(h, Rank(s)) /\ Rank(s) \in Nat
  <2>1. PICK x \in Query : x = s
    BY <1>2
  <2>2. Rank(x) \in 1..7
    BY QueryFacts
  <2>3. PICK r \in Nat : r = Rank(x)
    BY <2>2
  <2>4. <<x>> \in Seq(Query) /\ Ordered(<<x>>) /\ Within(<<x>>, r, r) /\ Has(<<x>>, r)
    BY <2>3, OneStatement
  <2> QED
    BY <1>3, <2>1, <2>3, <2>4
<1>5. q = h \o p
  BY <1>1, <1>3
<1>6. PICK k \in Nat : k = InsertRank[l]
  BY <1>2, <1>4
<1>7. Ordered(h) /\ Within(h, k, k) /\ Has(h, k) /\ h \in Seq(Query) /\ k <= k /\ k < n
  BY <1>2, <1>4, <1>6
<1>8. /\ h \o p \in Seq(Query) /\ Ordered(h \o p) /\ Within(h \o p, k, c)
      /\ Has(h \o p, k) <=> Has(h, k) \/ Has(p, k)
  BY <1>7, Concat
<1> QED
  BY <1>5, <1>6, <1>7, <1>8

LEMMA LevelStatements ==
    /\ Statements("am") \in Seq(Query) /\ Ordered(Statements("am")) /\ Within(Statements("am"), 1, 2)
    /\ Statements("ah") \in Seq(Query) /\ Ordered(Statements("ah")) /\ Within(Statements("ah"), 3, 4)
    /\ Statements("ad") \in Seq(Query) /\ Ordered(Statements("ad")) /\ Within(Statements("ad"), 5, 7)
    /\ Has(Statements("am"), 1) /\ Has(Statements("ah"), 3)
<1>1. /\ "am" \in Levels /\ "ah" \in Levels /\ "ad" \in Levels
      /\ InsertRank["am"] = 1 /\ InsertRank["ah"] = 3 /\ InsertRank["ad"] = 5
      /\ PurgeRank["d"] = 2 /\ PurgeRank["am"] = 4 /\ PurgeRank["ah"] = 6 /\ PurgeRank["ad"] = 7
      /\ "d" \in Tables /\ "am" \in Tables /\ "ah" \in Tables /\ "ad" \in Tables
  BY DEF Levels, Tables, InsertRank, PurgeRank
<1>2. /\ Statements("am") = <<[kind |-> "insert", table |-> "am"]>> \o Purge("d")
      /\ Statements("ah") = <<[kind |-> "insert", table |-> "ah"]>> \o Purge("am")
      /\ Statements("ad") = <<[kind |-> "insert", table |-> "ad"]>> \o (Purge("ah") \o Purge("ad"))
  BY DEF Statements
<1>3. Within(Purge("d"), 2, 2) /\ Within(Purge("am"), 4, 4) /\ Within(Purge("ah"), 6, 6) /\ Within(Purge("ad"), 7, 7)
  BY <1>1, PurgeStatements
<1>4. Statements("am") \in Seq(Query) /\ Ordered(Statements("am")) /\ Within(Statements("am"), 1, 2)
      /\ Has(Statements("am"), 1)
  <2>1. Purge("d") \in Seq(Query) /\ Ordered(Purge("d")) /\ InsertRank["am"] < 2 /\ 2 <= 2 /\ 2 \in Nat
    BY <1>1, PurgeStatements
  <2> QED
    BY <1>1, <1>2, <1>3, <2>1, InsertFirst
<1>5. Statements("ah") \in Seq(Query) /\ Ordered(Statements("ah")) /\ Within(Statements("ah"), 3, 4)
      /\ Has(Statements("ah"), 3)
  <2>1. Purge("am") \in Seq(Query) /\ Ordered(Purge("am")) /\ InsertRank["ah"] < 4 /\ 4 <= 4 /\ 4 \in Nat
    BY <1>1, PurgeStatements
  <2> QED
    BY <1>1, <1>2, <1>3, <2>1, InsertFirst
<1>6. PICK p : p = Purge("ah") \o Purge("ad")
  OBVIOUS
<1>7. p \in Seq(Query) /\ Ordered(p) /\ Within(p, 6, 7)
  <2>1. PICK q : q = Purge("ah") /\ q \in Seq(Query) /\ Ordered(q) /\ Within(q, 6, 6)
    BY <1>1, <1>3, PurgeStatements
  <2>2. PICK r : r = Purge("ad") /\ r \in Seq(Query) /\ Ordered(r) /\ Within(r, 7, 7)
    BY <1>1, <1>3, PurgeStatements
  <2>3. q \o r \in Seq(Query) /\ Ordered(q \o r) /\ Within(q \o r, 6, 7)
    <3>1. 6 <= 6 /\ 6 < 7 /\ 7 <= 7 /\ 6 \in Nat /\ 7 \in Nat
      OBVIOUS
    <3> QED
      BY <2>1, <2>2, <3>1, Concat
  <2> QED
    BY <1>6, <2>1, <2>2, <2>3
<1>8. Statements("ad") \in Seq(Query) /\ Ordered(Statements("ad")) /\ Within(Statements("ad"), 5, 7)
  <2>1. InsertRank["ad"] < 6 /\ 6 <= 7 /\ 6 \in Nat /\ 7 \in Nat
    BY <1>1
  <2> QED
    BY <1>1, <1>2, <1>6, <1>7, <2>1, InsertFirst
<1> QED
  BY <1>4, <1>5, <1>8

-----------------------------------------------------------------------------
(***************************************************************************)
(* The memory of a thread                                                  *)
(***************************************************************************)
Memory == [pc : {"off", "sleep", "am", "ah", "ad", "turn"}, base : {"none", "whole", "cut"},
           cols : Nat, haveAM : BOOLEAN, next : [Levels -> Nat], fp : Nat, wake : Nat,
           todo : Seq(Query), broken : BOOLEAN]

\* At time n.  The minutes are due whenever the thread wakes.
MeOK(me, n) ==
    /\ me \in Memory
    /\ Ordered(me.todo)
    /\ me.pc \in {"am", "ah", "ad", "turn"} => me.fp <= n /\ n <= me.fp + Slack
    /\ me.pc # "turn" => me.todo = <<>>
    /\ me.pc = "sleep" => me.next["am"] <= me.wake
    /\ me.pc \in {"am", "ah", "ad"} => me.next["am"] <= n
    /\ me.pc = "turn" => me.next["am"] <= n + Delay["am"]

LEMMA OffOK == ASSUME NEW n PROVE MeOK(Off, n)
<1>1. [l \in Levels |-> 0] \in [Levels -> Nat]
  OBVIOUS
<1>2. Off \in Memory /\ Off.todo = <<>> /\ Off.pc = "off"
  BY <1>1, NoStatement DEF Off, Memory
<1> QED
  BY <1>2, NoStatement DEF MeOK

\* A turn starts with the insert of the minutes, and purges am$ only after the
\* insert of the hours
LEMMA TurnFacts ==
    ASSUME now \in Nat, NEW me \in Memory, me.next["am"] <= now, NEW t, t = Turn(me)
    PROVE  /\ MeOK(t, now) /\ t.pc = "turn" /\ t.fp = now /\ t.base = me.base
           /\ Has(t.todo, 1) /\ (Has(t.todo, 4) => Has(t.todo, 3))
           /\ me.next["ah"] <= now => Has(t.todo, 3) /\ t.next["ah"] = now + Hour
           /\ ~ (me.next["ah"] <= now) => t.next["ah"] = me.next["ah"]
<1>1. Period \in [Levels -> Nat] /\ Period["am"] = Delay["am"] /\ Delay["am"] \in Nat /\ Slack \in Nat
      /\ "am" \in Levels /\ "ah" \in Levels /\ Period["ah"] = Hour
  BY AggregationAssumption DEF Period, Levels
<1>2. PICK h : h = IF Due(me, "ah") THEN Statements("ah") ELSE <<>>
  OBVIOUS
<1>3. PICK d : d = IF Due(me, "ad") THEN Statements("ad") ELSE <<>>
  OBVIOUS
<1>4. PICK next : next = [l \in Levels |-> IF Due(me, l) THEN now + Period[l] ELSE me.next[l]]
  OBVIOUS
<1>5. Due(me, "am")
  BY DEF Due
<1>6. /\ h \in Seq(Query) /\ Ordered(h) /\ Within(h, 3, 4) /\ (Has(h, 4) => Has(h, 3))
      /\ Due(me, "ah") => Has(h, 3)
      /\ d \in Seq(Query) /\ Ordered(d) /\ Within(d, 5, 7)
  BY <1>2, <1>3, LevelStatements, NoStatement
<1>7. PICK m, q : m = Statements("am") /\ q = m \o h
  OBVIOUS
<1>14. m \in Seq(Query) /\ Ordered(m) /\ Within(m, 1, 2) /\ Has(m, 1)
  BY <1>7, LevelStatements
<1>8. /\ q \in Seq(Query) /\ Ordered(q) /\ Within(q, 1, 4) /\ Has(q, 1) /\ (Has(q, 4) => Has(q, 3))
      /\ Due(me, "ah") => Has(q, 3)
  <2>1. \A k : Has(q, k) <=> Has(m, k) \/ Has(h, k)
    BY <1>6, <1>7, <1>14, Concat
  <2>2. ~ Has(m, 4)
    BY <1>14 DEF Within, Has
  <2>3. q \in Seq(Query) /\ Ordered(q) /\ Within(q, 1, 4)
    <3>1. 1 \in Nat /\ 2 \in Nat /\ 3 \in Nat /\ 4 \in Nat /\ 1 <= 2 /\ 2 < 3 /\ 3 <= 4
      OBVIOUS
    <3> QED
      BY <1>6, <1>7, <1>14, <3>1, Concat
  <2> QED
    BY <1>6, <1>14, <2>1, <2>2, <2>3
<1>9. PICK todo : todo = q \o d
  OBVIOUS
<1>10. /\ todo \in Seq(Query) /\ Ordered(todo) /\ Has(todo, 1) /\ (Has(todo, 4) => Has(todo, 3))
       /\ Due(me, "ah") => Has(todo, 3)
  <2>1. \A k : Has(todo, k) <=> Has(q, k) \/ Has(d, k)
    BY <1>6, <1>8, <1>9, Concat
  <2>2. ~ Has(d, 4)
    BY <1>6 DEF Within, Has
  <2>3. todo \in Seq(Query) /\ Ordered(todo)
    BY <1>6, <1>8, <1>9, Concat
  <2> QED
    BY <1>8, <2>1, <2>2, <2>3
<1>11. /\ next \in [Levels -> Nat] /\ next["am"] = now + Delay["am"]
       /\ next["ah"] = IF Due(me, "ah") THEN now + Hour ELSE me.next["ah"]
  BY <1>1, <1>4, <1>5 DEF Memory
<1>12. t = [me EXCEPT !.pc = "turn", !.fp = now, !.wake = 0, !.haveAM = FALSE, !.broken = FALSE,
                      !.todo = todo, !.next = next]
  <2>1. todo = (Statements("am") \o h) \o d
    BY <1>7, <1>9
  <2> QED
    BY <1>2, <1>3, <1>4, <1>5, <2>1 DEF Turn, Memory
<1>13. /\ t \in Memory
      /\ t.pc = "turn" /\ t.fp = now /\ t.todo = todo /\ t.next = next
       /\ t.base = me.base
  <2>1. t \in Memory
    <3>1. t = [pc |-> "turn", base |-> me.base, cols |-> me.cols, haveAM |-> FALSE, next |-> next,
               fp |-> now, wake |-> 0, todo |-> todo, broken |-> FALSE]
      BY <1>12 DEF Memory
    <3> QED
      BY <1>10, <1>11, <3>1 DEF Memory
  <2>2. t.pc = "turn" /\ t.fp = now /\ t.todo = todo /\ t.next = next /\ t.base = me.base
    BY <1>12 DEF Memory
  <2> QED
    BY <2>1, <2>2
<1> QED
  BY <1>1, <1>10, <1>11, <1>13 DEF MeOK, Due

-----------------------------------------------------------------------------
(***************************************************************************)
(* The tables                                                              *)
(***************************************************************************)
RowsOf(st) == [at : Nat, of : SUBSET st]

Ats(tab) == {r.at : r \in tab}

\* Rows of a table condense samples of st, of their span; no two have the same
TableOK(t, tab, st) ==
    /\ tab \in SUBSET RowsOf(st)
    /\ Tops(Ats(tab))
    /\ \A r \in tab : r.of # {}
    /\ t = "d" => \A r \in tab : \E s \in st : r = [at |-> Stamp[s], of |-> {s}]
    /\ t # "d" => \A r1, r2 \in tab : r1.at = r2.at => r1 = r2
    /\ t \in {"am", "ah"} => \A r \in tab : \A s \in r.of : Span(t, Stamp[s]) = r.at

RowsOK(rs, st) ==
    /\ DOMAIN rs = Tables
    /\ rs["d"] # None
    /\ \A t \in Tables : rs[t] # None => TableOK(t, rs[t], st)

LEMMA NoneIsNoTable == ASSUME NEW st \in SUBSET Samples PROVE \A R \in SUBSET RowsOf(st) : R # None
<1> SUFFICES ASSUME NEW R \in SUBSET RowsOf(st), R = None PROVE FALSE
  OBVIOUS
<1>1. PICK r : r = [at |-> -1, of |-> {}]
  OBVIOUS
<1>2. r \in RowsOf(st)
  BY <1>1 DEF None
<1>3. r.at \in Nat /\ r.at = -1
  BY <1>1, <1>2 DEF RowsOf
<1> QED
  BY <1>3

LEMMA LevelFacts ==
    /\ Levels \subseteq Tables /\ "d" \in Tables /\ "d" \notin Levels
    /\ \A l \in Levels : Source[l] \in Tables /\ Source[l] # l
    /\ Source["am"] = "d" /\ Source["ah"] = "am" /\ Source["ad"] = "ah"
BY DEF Levels, Tables, Source

LEMMA TableSubset ==
    ASSUME NEW t, NEW st, NEW tab, TableOK(t, tab, st), NEW sub \in SUBSET tab
    PROVE  TableOK(t, sub, st)
<1>1. Ats(sub) \in SUBSET Ats(tab)
  BY DEF Ats
<1>2. Tops(Ats(sub))
  BY <1>1, TopsSubset DEF TableOK
<1> QED
  BY <1>2 DEF TableOK

LEMMA TableGrows ==
    ASSUME NEW t, NEW st, NEW tab, TableOK(t, tab, st), NEW su, st \subseteq su
    PROVE  TableOK(t, tab, su)
BY DEF TableOK, RowsOf

LEMMA TableUnion ==
    ASSUME NEW t, NEW st, NEW A, NEW B, TableOK(t, A, st), TableOK(t, B, st),
           t # "d" => Ats(A) \cap Ats(B) = {}
    PROVE  TableOK(t, A \cup B, st)
<1>1. Ats(A \cup B) = Ats(A) \cup Ats(B) /\ Ats(A) \in SUBSET Int /\ Ats(B) \in SUBSET Int
  BY DEF Ats, TableOK, RowsOf
<1>2. Tops(Ats(A \cup B))
  <2>1. Tops(Ats(A)) /\ Tops(Ats(B))
    BY DEF TableOK
  <2>2. Tops(Ats(A) \cup Ats(B))
    BY <1>1, <2>1, TopsUnion
  <2> QED
    BY <1>1, <2>2
<1>3. t # "d" => \A r1, r2 \in A \cup B : r1.at = r2.at => r1 = r2
  BY DEF TableOK, Ats
<1>4. t = "d" => \A r \in A \cup B : \E s \in st : r = [at |-> Stamp[s], of |-> {s}]
  BY DEF TableOK
<1>5. (A \cup B) \in SUBSET RowsOf(st) /\ \A r \in A \cup B : r.of # {}
  BY DEF TableOK
<1>6. t \in {"am", "ah"} => \A r \in A \cup B : \A s \in r.of : Span(t, Stamp[s]) = r.at
  BY DEF TableOK
<1> QED
  BY <1>2, <1>3, <1>4, <1>5, <1>6 DEF TableOK

\* What one row per span does
LEMMA CondensedFacts ==
    ASSUME NEW l \in Levels, NEW st, NEW old \in SUBSET RowsOf(st), NEW C, C = Condensed(l, old)
    PROVE  /\ C \in SUBSET RowsOf(st)
           /\ \A c \in C : /\ \E x \in old : Span(l, x.at) = c.at
                           /\ \A s : s \in c.of <=> \E x \in old : Span(l, x.at) = c.at /\ s \in x.of
           /\ \A x \in old : \E c \in C : c.at = Span(l, x.at) /\ x.of \subseteq c.of
           /\ \A c, d \in C : c.at = d.at => c = d
           /\ Ats(C) = {Span(l, x) : x \in Ats(old)}
<1> DEFINE part(k) == UNION {r.of : r \in {x \in old : Span(l, x.at) = k}}
           row(k)  == [at |-> k, of |-> part(k)]
           ks      == {Span(l, r.at) : r \in old}
<1>1. \A x \in old : x.at \in Nat /\ x.of \in SUBSET st /\ Span(l, x.at) \in Nat
  BY SpanFacts DEF RowsOf
<1>2. C = {row(k) : k \in ks}
  BY DEF Condensed
<1>3. \A k \in ks : k \in Nat /\ part(k) \in SUBSET st
  BY <1>1
<1>4. \A k, s : s \in part(k) <=> \E x \in old : Span(l, x.at) = k /\ s \in x.of
  OBVIOUS
<1>5. \A k : row(k).at = k /\ row(k).of = part(k)
  OBVIOUS
<1> HIDE DEF part
<1>6. C \in SUBSET RowsOf(st)
  BY <1>2, <1>3 DEF RowsOf
<1> HIDE DEF row
<1>7. Ats(C) = {Span(l, x) : x \in Ats(old)}
  <2>1. Ats(C) = ks
    BY <1>2, <1>5 DEF Ats
  <2>2. ks = {Span(l, x) : x \in Ats(old)}
    BY DEF Ats
  <2> QED
    BY <2>1, <2>2
<1>8. \A c, d \in C : c.at = d.at => c = d
  BY <1>2, <1>5
<1>9. \A x \in old : \E c \in C : c.at = Span(l, x.at) /\ x.of \subseteq c.of
  BY <1>2, <1>4, <1>5
<1>10. \A c \in C : /\ \E x \in old : Span(l, x.at) = c.at
                    /\ \A s : s \in c.of <=> \E x \in old : Span(l, x.at) = c.at /\ s \in x.of
  BY <1>2, <1>4, <1>5
<1> QED
  BY <1>6, <1>7, <1>8, <1>9, <1>10

\* The samples of a row of d$ or am$ are of the minute it is at
LEMMA MinuteRow ==
    ASSUME NEW t \in {"d", "am"}, NEW st \in SUBSET Samples, NEW tab, TableOK(t, tab, st),
           NEW r \in tab, NEW s \in r.of
    PROVE  s \in st /\ Stamp[s] = r.at /\ Stamp[s] \in Nat \ {0}
<1>1. s \in st /\ Stamp[s] \in Nat \ {0}
  BY AggregationAssumption DEF TableOK, RowsOf
<1>2. CASE t = "d"
  <2>1. PICK u \in st : r = [at |-> Stamp[u], of |-> {u}]
    BY <1>2 DEF TableOK
  <2> QED
    BY <1>1, <2>1
<1>3. CASE t = "am"
  <2>1. Span("am", Stamp[s]) = r.at /\ "am" \in Levels
    BY <1>3 DEF TableOK, Levels
  <2> QED
    BY <1>1, <2>1, SpanFacts
<1> QED
  BY <1>2, <1>3

LEMMA CondensedOK ==
    ASSUME NEW l \in Levels, NEW st \in SUBSET Samples, NEW src, TableOK(Source[l], src, st),
           NEW old \in SUBSET src
    PROVE  TableOK(l, Condensed(l, old), st)
<1>1. PICK C : C = Condensed(l, old)
  OBVIOUS
<1>2. TableOK(Source[l], old, st) /\ old \in SUBSET RowsOf(st)
  <2>1. TableOK(Source[l], old, st)
    BY TableSubset
  <2> QED
    BY <2>1 DEF TableOK
<1>3. /\ C \in SUBSET RowsOf(st)
      /\ \A c \in C : /\ \E x \in old : Span(l, x.at) = c.at
                      /\ \A s : s \in c.of <=> \E x \in old : Span(l, x.at) = c.at /\ s \in x.of
      /\ \A c, d \in C : c.at = d.at => c = d
      /\ Ats(C) = {Span(l, x) : x \in Ats(old)}
  BY <1>1, <1>2, CondensedFacts
<1>4. Tops(Ats(C))
  <2>1. Ats(old) \in SUBSET Nat /\ Tops(Ats(old))
    BY <1>2 DEF TableOK, Ats, RowsOf
  <2> QED
    BY <1>3, <2>1, TopsSpan
<1>5. ASSUME NEW c \in C PROVE c.of # {}
  <2>1. PICK x \in old : Span(l, x.at) = c.at
    BY <1>3
  <2>2. x.of # {}
    BY <1>2 DEF TableOK
  <2> QED
    BY <1>3, <2>1, <2>2
<1>6. ASSUME l \in {"am", "ah"}, NEW c \in C, NEW s \in c.of PROVE Span(l, Stamp[s]) = c.at
  <2>1. PICK x \in old : Span(l, x.at) = c.at /\ s \in x.of
    BY <1>3
  <2>2. PICK t \in {"d", "am"} : t = Source[l]
    BY <1>6, LevelFacts
  <2>3. Stamp[s] = x.at
    BY <1>2, <2>1, <2>2, MinuteRow DEF TableOK
  <2> QED
    BY <2>1, <2>3
<1> QED
  BY <1>1, <1>3, <1>4, <1>5, <1>6, LevelFacts DEF TableOK

-----------------------------------------------------------------------------
(***************************************************************************)
(* The shape of a state                                                    *)
(***************************************************************************)
ShapeInv ==
    /\ now \in Begin..MaxTime /\ mishaps \in 0..MaxMishaps /\ stored \subseteq Samples
    /\ resumed \in BOOLEAN
    /\ \A s \in stored : Stamp[s] <= now
    /\ columns \in [Tables -> Nat]
    /\ RowsOK(rows, stored)
    /\ DOMAIN backend = Backends /\ \A b \in Backends : MeOK(backend[b], now)

LEMMA Stamps == \A s \in Samples : Stamp[s] \in Nat \ {0} /\ Hour <= Stamp[s]
BY AggregationAssumption

LEMMA Clock == ASSUME ShapeInv PROVE now \in Nat
BY AggregationAssumption DEF ShapeInv

LEMMA LastFacts ==
    ASSUME RowsOK(rows, stored), NEW l \in Levels, rows[l] # None
    PROVE  /\ Last(l) \in Nat
           /\ \A r \in rows[l] : r.at \in Nat /\ r.at <= Last(l)
           /\ rows[l] # {} => \E r \in rows[l] : r.at = Last(l)
           /\ rows[l] = {} => Last(l) = 0
<1>1. TableOK(l, rows[l], stored)
  BY LevelFacts DEF RowsOK
<1>2. Ats(rows[l]) \in SUBSET Nat /\ Tops(Ats(rows[l]))
  BY <1>1 DEF TableOK, Ats, RowsOf
<1>3. CASE rows[l] = {}
  BY <1>3 DEF Last
<1>4. CASE rows[l] # {}
  <2>1. Ats(rows[l]) # {}
    BY <1>4 DEF Ats
  <2>2. PICK m \in Ats(rows[l]) : \A x \in Ats(rows[l]) : x <= m
    BY <1>2, <2>1 DEF Tops
  <2>3. \A r \in rows[l] : r.at <= m
    BY <2>2 DEF Ats
  <2>4. \E t \in {r.at : r \in rows[l]} : \A r \in rows[l] : r.at <= t
    BY <2>2, <2>3 DEF Ats
  <2>5. Last(l) \in {r.at : r \in rows[l]} /\ \A r \in rows[l] : r.at <= Last(l)
    BY <1>4, <2>4 DEF Last
  <2> QED
    BY <1>2, <1>4, <2>5 DEF Ats
<1> QED
  BY <1>3, <1>4

\* What the insert of level l puts into its table: the rows that are old, of spans
\* after the last one; nothing is there yet of these
Added(l) == Condensed(l, NewerOld(l))

LEMMA AddedFacts ==
    ASSUME ShapeInv, NEW l \in Levels, rows[l] # None, rows[Source[l]] # None
    PROVE  /\ TableOK(l, Added(l), stored) /\ TableOK(l, rows[l] \cup Added(l), stored)
           /\ NewerOld(l) \in SUBSET rows[Source[l]]
           /\ \A c \in Added(l) : Last(l) < c.at
<1>1. /\ TableOK(l, rows[l], stored) /\ TableOK(Source[l], rows[Source[l]], stored)
      /\ stored \in SUBSET Samples /\ RowsOK(rows, stored)
  BY LevelFacts DEF ShapeInv, RowsOK
<1>2. NewerOld(l) \in SUBSET rows[Source[l]]
  BY DEF NewerOld, AllOld
<1>3. TableOK(l, Added(l), stored)
  BY <1>1, <1>2, CondensedOK DEF Added
<1>4. NewerOld(l) \in SUBSET RowsOf(stored)
  BY <1>1, <1>2 DEF TableOK
<1>5. ASSUME NEW c \in Added(l) PROVE Last(l) < c.at
  <2>1. PICK x \in NewerOld(l) : Span(l, x.at) = c.at
    BY <1>4, CondensedFacts DEF Added
  <2>2. Last(l) \in Nat /\ Span(l, x.at) \in Nat
    BY <1>1, <1>4, LastFacts, SpanFacts DEF RowsOf
  <2> QED
    BY <2>1, <2>2 DEF NewerOld
<1>6. Ats(rows[l]) \cap Ats(Added(l)) = {}
  <2>1. \A r \in rows[l] : r.at \in Nat /\ r.at <= Last(l)
    BY <1>1, LastFacts
  <2>2. \A c \in Added(l) : c.at \in Nat /\ Last(l) \in Nat
    BY <1>1, <1>3, LastFacts DEF TableOK, RowsOf
  <2>3. \A r \in rows[l], c \in Added(l) : r.at # c.at
    BY <1>5, <2>1, <2>2
  <2> QED
    BY <2>3 DEF Ats
<1> QED
  BY <1>1, <1>2, <1>3, <1>5, <1>6, TableUnion

\* A step in which b becomes me, and nothing but the tables changes besides
LEMMA Becomes ==
    ASSUME ShapeInv, NEW b \in Backends, NEW me, Become(b, me), MeOK(me, now),
           UNCHANGED <<now, stored>>, Works \/ Mishap, columns' \in [Tables -> Nat], resumed' \in BOOLEAN,
           RowsOK(rows', stored)
    PROVE  ShapeInv'
<1>1. mishaps' \in 0..MaxMishaps
  BY AggregationAssumption DEF Works, Mishap, ShapeInv
<1>2. backend' = [backend EXCEPT ![b] = me] /\ DOMAIN backend = Backends
  BY DEF Become, ShapeInv
<1>3. DOMAIN backend' = Backends /\ \A c \in Backends : MeOK(backend'[c], now')
  BY <1>2 DEF ShapeInv
<1> QED
  BY <1>1, <1>3 DEF ShapeInv

LEMMA TickShape == ASSUME ShapeInv, Tick PROVE ShapeInv'
<1>1. /\ now \in Nat /\ now' = now + 1 /\ now' \in Begin..MaxTime
      /\ UNCHANGED <<stored, rows, columns, backend, resumed, mishaps>>
      /\ \A b \in Backends : ~ At(b, "off") => now < Slack + IF At(b, "sleep") THEN backend[b].wake ELSE backend[b].fp
  BY Clock, AggregationAssumption DEF Tick, ShapeInv
<1>2. ASSUME NEW b \in Backends PROVE MeOK(backend[b], now + 1)
  <2>1. MeOK(backend[b], now) /\ backend[b] \in Memory
    BY DEF ShapeInv, MeOK
  <2>2. backend[b].pc \in {"am", "ah", "ad", "turn"} => now < Slack + backend[b].fp
    BY <1>1 DEF At
  <2>3. backend[b].fp \in Nat /\ backend[b].next["am"] \in Nat /\ Slack \in Nat /\ Delay["am"] \in Nat
    BY <2>1, AggregationAssumption DEF Memory, Levels
  <2>4. backend[b].pc \in {"am", "ah", "ad", "turn"} => backend[b].fp <= now + 1 /\ now + 1 <= backend[b].fp + Slack
    BY <1>1, <2>1, <2>2, <2>3 DEF MeOK
  <2>5. /\ backend[b].pc \in {"am", "ah", "ad"} => backend[b].next["am"] <= now + 1
        /\ backend[b].pc = "turn" => backend[b].next["am"] <= now + 1 + Delay["am"]
    BY <1>1, <2>1, <2>3 DEF MeOK
  <2> QED
    BY <2>1, <2>4, <2>5 DEF MeOK
<1>3. \A s \in stored : Stamp[s] <= now + 1
  BY <1>1, AggregationAssumption DEF ShapeInv
<1> QED
  BY <1>1, <1>2, <1>3 DEF ShapeInv

LEMMA StoreShape == ASSUME ShapeInv, NEW s \in Samples, Store(s) PROVE ShapeInv'
<1>1. /\ stored' = stored \cup {s} /\ Stamp[s] <= now /\ Stamp[s] \in Nat
      /\ rows' = [rows EXCEPT !["d"] = rows["d"] \cup {[at |-> Stamp[s], of |-> {s}]}]
      /\ UNCHANGED <<now, columns, backend, resumed, mishaps>>
  BY Clock, AggregationAssumption DEF Store
<1> DEFINE new == {[at |-> Stamp[s], of |-> {s}]}
<1>2. RowsOK(rows, stored)
  BY DEF ShapeInv
<1>3. TableOK("d", new, stored')
  <2>1. Ats(new) = {Stamp[s]}
    BY DEF Ats
  <2>2. Tops(Ats(new))
    BY <1>1, <2>1 DEF Tops
  <2>3. new \in SUBSET RowsOf(stored')
    BY <1>1 DEF RowsOf
  <2>4. \A r \in new : r = [at |-> Stamp[s], of |-> {s}] /\ r.of # {}
    OBVIOUS
  <2>5. s \in stored'
    BY <1>1
  <2> HIDE DEF new
  <2> QED
    BY <2>2, <2>3, <2>4, <2>5 DEF TableOK
<1>4. \A t \in Tables : rows[t] # None => TableOK(t, rows[t], stored')
  <2>1. ASSUME NEW t \in Tables, rows[t] # None PROVE TableOK(t, rows[t], stored')
    <3>1. TableOK(t, rows[t], stored) /\ stored \subseteq stored'
      BY <1>1, <1>2, <2>1 DEF RowsOK
    <3> QED
      BY <3>1, TableGrows
  <2> QED
    BY <2>1
<1> HIDE DEF new
<1>5. TableOK("d", rows["d"] \cup new, stored')
  BY <1>2, <1>3, <1>4, TableUnion, LevelFacts DEF RowsOK
<1>6. stored' \subseteq Samples
  BY <1>1 DEF ShapeInv
<1>7. rows["d"] \cup new # None
  BY <1>5, <1>6, NoneIsNoTable DEF TableOK
<1>8. RowsOK(rows', stored')
  <2>1. rows' = [rows EXCEPT !["d"] = rows["d"] \cup new]
    BY <1>1 DEF new
  <2> QED
    BY <1>2, <1>4, <1>5, <1>7, <2>1, LevelFacts DEF RowsOK
<1> QED
  BY <1>1, <1>6, <1>8 DEF ShapeInv

LEMMA AddColumnShape == ASSUME ShapeInv, AddColumn PROVE ShapeInv'
<1>1. columns' \in [Tables -> Nat]
  BY LevelFacts DEF AddColumn, ShapeInv
<1> QED
  BY <1>1 DEF AddColumn, ShapeInv

LEMMA LifeShape ==
    ASSUME ShapeInv, NEW b \in Backends, Start(b) \/ Crash(b) PROVE ShapeInv'
<1>1. /\ UNCHANGED <<now, stored, rows, columns, resumed>> /\ (Works \/ Mishap)
      /\ Become(b, [Off EXCEPT !.pc = "sleep", !.wake = now]) \/ Become(b, Off)
  BY DEF Start, Crash, Works
<1>2. MeOK([Off EXCEPT !.pc = "sleep", !.wake = now], now)
  <2> DEFINE me == [Off EXCEPT !.pc = "sleep", !.wake = now]
  <2>1. now \in Nat /\ Off \in Memory /\ Ordered(<<>>)
    BY Clock, OffOK, NoStatement DEF MeOK
  <2>2. me \in Memory /\ me.pc = "sleep" /\ me.wake = now /\ me.todo = Off.todo /\ me.next = Off.next
    BY <2>1 DEF Memory
  <2>3. Off.todo = <<>> /\ Off.next["am"] = 0
    BY DEF Off, Levels
  <2> HIDE DEF me
  <2>4. MeOK(me, now)
    BY <2>1, <2>2, <2>3 DEF MeOK
  <2> QED
    BY <2>4 DEF me
<1> QED
  BY <1>1, <1>2, OffOK, Becomes DEF ShapeInv

\* A turn of a thread, at once or after a set-up without effect
LEMMA TurnShape ==
    ASSUME ShapeInv, NEW me \in Memory, me.next["am"] <= now PROVE MeOK(Turn(me), now)
BY Clock, TurnFacts

LEMMA WakeShape == ASSUME ShapeInv, NEW b \in Backends, Wake(b) PROVE ShapeInv'
<1>1. /\ UNCHANGED <<now, stored, rows, columns, resumed>> /\ Works /\ Become(b, Turn(backend[b]))
      /\ backend[b].pc = "sleep" /\ backend[b].wake <= now
  BY DEF Wake, At, Works
<1>2. backend[b] \in Memory /\ backend[b].next["am"] <= now
  <2>1. MeOK(backend[b], now) /\ backend[b] \in Memory
    BY DEF ShapeInv, MeOK
  <2>2. backend[b].next["am"] \in Nat /\ backend[b].wake \in Nat /\ now \in Nat
    BY <2>1, Clock DEF Memory, Levels
  <2> QED
    BY <1>1, <2>1, <2>2 DEF MeOK
<1> QED
  BY <1>1, <1>2, TurnShape, Becomes DEF ShapeInv

\* The thread is where it was, and sleeps on
LEMMA SelectFailsShape == ASSUME ShapeInv, NEW b \in Backends, SelectFails(b) PROVE ShapeInv'
<1> DEFINE old == backend[b]
           me == [old EXCEPT !.wake = now + ThreadFreq]
<1>1. /\ UNCHANGED <<now, stored, rows, columns, resumed>> /\ Mishap /\ Become(b, me)
      /\ old.pc = "sleep" /\ old.wake <= now
  BY DEF SelectFails, At
<1>0. ThreadFreq \in Nat
  BY AggregationAssumption
<1>a. /\ MeOK(old, now) /\ old \in Memory /\ old.next["am"] \in Nat /\ old.wake \in Nat
      /\ now \in Nat
  BY Clock, LevelFacts DEF ShapeInv, MeOK, Memory, Levels
<1>2. /\ MeOK(old, now) /\ old \in Memory /\ old.next["am"] \in Nat /\ old.wake \in Nat
      /\ now \in Nat /\ now + ThreadFreq \in Nat /\ now <= now + ThreadFreq
  BY <1>0, <1>a
<1>3. /\ me \in Memory /\ me.pc = "sleep" /\ me.wake = now + ThreadFreq
      /\ me.todo = old.todo /\ me.next = old.next
  BY <1>1, <1>2 DEF Memory
<1>4. old.next["am"] <= now + ThreadFreq
  BY <1>1, <1>2 DEF MeOK
<1> HIDE DEF me
<1>5. MeOK(me, now)
  BY <1>1, <1>2, <1>3, <1>4 DEF MeOK
<1> QED
  BY <1>1, <1>5, Becomes DEF ShapeInv

LEMMA SetUpShape == ASSUME ShapeInv, NEW b \in Backends, SetUp(b) PROVE ShapeInv'
<1> DEFINE old == backend[b]
           me == [old EXCEPT !.pc = "am", !.fp = now, !.base = "whole", !.cols = columns["d"],
                             !.haveAM = rows["am"] # None]
           cut == [old EXCEPT !.base = "cut"]
<1>1. /\ UNCHANGED <<now, stored, rows, columns, resumed>>
      /\ \/ Works /\ Become(b, me)
         \/ Mishap /\ Become(b, Turn(cut))
      /\ old.pc = "sleep" /\ old.wake <= now
  BY DEF SetUp, At
<1>2. /\ MeOK(old, now) /\ old \in Memory /\ old.next["am"] \in Nat /\ old.wake \in Nat
      /\ now \in Nat /\ Slack \in Nat /\ columns["d"] \in Nat
  BY Clock, LevelFacts, AggregationAssumption DEF ShapeInv, MeOK, Memory, Levels
<1>3. old.next["am"] <= now
  BY <1>1, <1>2 DEF MeOK
<1>4. /\ me \in Memory /\ me.pc = "am" /\ me.fp = now /\ me.todo = old.todo /\ me.next = old.next
      /\ cut \in Memory /\ cut.next = old.next
  BY <1>2 DEF Memory
<1> HIDE DEF me, cut
<1>5. MeOK(me, now)
  BY <1>1, <1>2, <1>3, <1>4 DEF MeOK
<1>6. MeOK(Turn(cut), now)
  BY <1>3, <1>4, TurnShape
<1> QED
  BY <1>1, <1>5, <1>6, Becomes DEF ShapeInv

\* create table as select: the table is made of all rows that are old, or nothing is done
LEMMA CreateEffect ==
    ASSUME ShapeInv, NEW b \in Backends, NEW l \in Levels, Create(b, l)
    PROVE  /\ UNCHANGED <<now, stored>> /\ (Works \/ Mishap) /\ backend[b].pc = l
           /\ \/ UNCHANGED <<rows, columns, resumed>>
              \/ /\ rows[l] = None /\ rows[Source[l]] # None
                 /\ rows' = [rows EXCEPT ![l] = Condensed(l, AllOld(l))]
                 /\ columns' = [columns EXCEPT ![l] = backend[b].cols]
                 /\ resumed' = (resumed \/ (l = "ah" /\ backend[b].haveAM))
           /\ \E me : /\ Become(b, me)
                      /\ me = CASE l = "am" -> [backend[b] EXCEPT !.pc = "ah"]
                              []   l = "ah" -> [backend[b] EXCEPT !.pc = "ad"]
                              []   l = "ad" -> Turn(backend[b])
BY DEF Create, At

LEMMA CreatedOK ==
    ASSUME ShapeInv, NEW l \in Levels, rows[Source[l]] # None
    PROVE  /\ TableOK(l, Condensed(l, AllOld(l)), stored) /\ Condensed(l, AllOld(l)) # None
           /\ AllOld(l) \in SUBSET RowsOf(stored)
<1>1. /\ TableOK(Source[l], rows[Source[l]], stored) /\ stored \in SUBSET Samples
      /\ AllOld(l) \in SUBSET rows[Source[l]]
  BY LevelFacts DEF ShapeInv, RowsOK, AllOld
<1>2. TableOK(l, Condensed(l, AllOld(l)), stored)
  BY <1>1, CondensedOK
<1> QED
  BY <1>1, <1>2, NoneIsNoTable DEF TableOK

\* A table that is another one by now
LEMMA RowsReplaced ==
    ASSUME ShapeInv, NEW t \in Tables, NEW tab, TableOK(t, tab, stored)
    PROVE  RowsOK([rows EXCEPT ![t] = tab], stored)
<1>1. tab # None
  BY NoneIsNoTable DEF ShapeInv, TableOK
<1> QED
  BY <1>1, LevelFacts DEF ShapeInv, RowsOK

LEMMA CreateShape == ASSUME ShapeInv, NEW b \in Backends, NEW l \in Levels, Create(b, l) PROVE ShapeInv'
<1>1. PICK me : /\ Become(b, me)
                /\ me = CASE l = "am" -> [backend[b] EXCEPT !.pc = "ah"]
                        []   l = "ah" -> [backend[b] EXCEPT !.pc = "ad"]
                        []   l = "ad" -> Turn(backend[b])
  BY CreateEffect
<1>2. backend[b] \in Memory /\ MeOK(backend[b], now) /\ backend[b].pc = l /\ backend[b].next["am"] <= now
  BY CreateEffect DEF ShapeInv, MeOK, Levels
<1>3. MeOK(me, now)
  <2>1. ASSUME NEW p \in {"ah", "ad"}, me = [backend[b] EXCEPT !.pc = p] PROVE MeOK(me, now)
    <3>1. me \in Memory /\ me.pc = p /\ me.fp = backend[b].fp /\ me.todo = backend[b].todo
          /\ me.next = backend[b].next
      BY <1>2, <2>1 DEF Memory
    <3> QED
      BY <1>2, <3>1 DEF MeOK, Levels
  <2> QED
    BY <1>1, <1>2, <2>1, TurnShape DEF Levels
<1>4. RowsOK(rows', stored) /\ columns' \in [Tables -> Nat] /\ resumed' \in BOOLEAN
  <2>1. CASE UNCHANGED <<rows, columns, resumed>>
    BY <2>1 DEF ShapeInv
  <2>2. CASE /\ rows[l] = None /\ rows[Source[l]] # None
             /\ rows' = [rows EXCEPT ![l] = Condensed(l, AllOld(l))]
             /\ columns' = [columns EXCEPT ![l] = backend[b].cols]
             /\ resumed' = (resumed \/ (l = "ah" /\ backend[b].haveAM))
    <3>1. RowsOK(rows', stored)
      BY <2>2, CreatedOK, RowsReplaced, LevelFacts
    <3>2. columns' \in [Tables -> Nat] /\ resumed' \in BOOLEAN
      BY <1>2, <2>2, LevelFacts DEF ShapeInv, Memory
    <3> QED
      BY <3>1, <3>2
  <2> QED
    BY <2>1, <2>2, CreateEffect
<1>5. UNCHANGED <<now, stored>> /\ (Works \/ Mishap)
  BY CreateEffect
<1> QED
  BY <1>1, <1>3, <1>4, <1>5, Becomes

\* A statement that works, or one that fails, whose text is not reset
LEMMA StatementEffect ==
    ASSUME ShapeInv, NEW b \in Backends, Statement(b)
    PROVE  LET me == backend[b] q == Head(me.todo) IN
           /\ UNCHANGED <<now, stored, columns, resumed>> /\ (Works \/ Mishap)
           /\ me.pc = "turn" /\ me.todo # <<>> /\ q \in Query
           /\ \/ /\ rows' = [rows EXCEPT ![q.table] = Effect(q)]
                 /\ ~ me.broken /\ rows[q.table] # None
                 /\ q.kind = "insert" => rows[Source[q.table]] # None
                 /\ Become(b, [me EXCEPT !.todo = Tail(@)])
              \/ /\ rows' = rows
                 /\ Become(b, [me EXCEPT !.todo = Tail(@), !.broken = TRUE])
<1>1. backend[b] \in Memory /\ Ordered(backend[b].todo)
  BY DEF ShapeInv, MeOK
<1>2. backend[b].todo \in Seq(Query)
  BY <1>1 DEF Memory
<1>3. backend[b].todo # <<>> => Head(backend[b].todo) \in Query
  BY <1>1, <1>2, TailFacts
<1> QED
  BY <1>3 DEF Statement, At, Breaks, Possible, Fits

LEMMA EffectFacts ==
    ASSUME ShapeInv, NEW q \in Query, rows[q.table] # None,
           q.kind = "insert" => rows[Source[q.table]] # None
    PROVE  /\ TableOK(q.table, Effect(q), stored)
           /\ q.kind = "insert" => Effect(q) = rows[q.table] \cup Added(q.table)
           /\ q.kind = "purge" => Effect(q) = {r \in rows[q.table] : ~ Expired(q.table, r.at)}
<1>1. q.table \in Tables /\ q.kind \in {"insert", "purge"} /\ (q.kind = "insert" => q.table \in Levels)
  BY QueryFacts
<1>2. TableOK(q.table, rows[q.table], stored)
  BY <1>1 DEF ShapeInv, RowsOK
<1>3. CASE q.kind = "insert"
  BY <1>1, <1>3, AddedFacts DEF Effect, Added
<1>4. CASE q.kind = "purge"
  <2>1. Effect(q) = {r \in rows[q.table] : ~ Expired(q.table, r.at)}
    BY <1>4 DEF Effect
  <2>2. TableOK(q.table, Effect(q), stored)
    BY <1>2, <2>1, TableSubset
  <2> QED
    BY <1>4, <2>1, <2>2
<1> QED
  BY <1>1, <1>3, <1>4

LEMMA StatementShape == ASSUME ShapeInv, NEW b \in Backends, Statement(b) PROVE ShapeInv'
<1>1. /\ backend[b] \in Memory /\ MeOK(backend[b], now) /\ backend[b].todo \in Seq(Query)
      /\ Ordered(backend[b].todo)
  BY DEF ShapeInv, MeOK, Memory
<1>2. /\ UNCHANGED <<now, stored, columns, resumed>> /\ (Works \/ Mishap)
      /\ backend[b].pc = "turn" /\ backend[b].todo # <<>>
  BY StatementEffect
<1>3. PICK me : /\ Become(b, me)
                /\ \/ me = [backend[b] EXCEPT !.todo = Tail(@)]
                   \/ me = [backend[b] EXCEPT !.todo = Tail(@), !.broken = TRUE]
  BY StatementEffect
<1>4. MeOK(me, now)
  <2>1. Tail(backend[b].todo) \in Seq(Query) /\ Ordered(Tail(backend[b].todo))
    BY <1>1, <1>2, TailFacts
  <2>2. /\ me \in Memory /\ me.pc = "turn" /\ me.todo = Tail(backend[b].todo) /\ me.fp = backend[b].fp
        /\ me.next = backend[b].next
    BY <1>1, <1>2, <1>3, <2>1 DEF Memory
  <2> QED
    BY <1>1, <1>2, <2>1, <2>2 DEF MeOK
<1>5. RowsOK(rows', stored)
  <2>1. rows' = rows \/ \E q \in Query : /\ rows' = [rows EXCEPT ![q.table] = Effect(q)]
                                         /\ TableOK(q.table, Effect(q), stored)
    BY StatementEffect, EffectFacts
  <2> QED
    BY <2>1, RowsReplaced, QueryFacts DEF ShapeInv
<1> QED
  BY <1>2, <1>3, <1>4, <1>5, Becomes DEF ShapeInv

LEMMA SleepShape == ASSUME ShapeInv, NEW b \in Backends, Sleep(b) PROVE ShapeInv'
<1> DEFINE me == [backend[b] EXCEPT !.pc = "sleep", !.wake = now + Delay["am"]]
<1>1. /\ UNCHANGED <<now, stored, rows, columns, resumed>> /\ Works /\ Become(b, me)
      /\ backend[b].pc = "turn" /\ backend[b].todo = <<>>
  BY DEF Sleep, At, Works
<1>2. backend[b] \in Memory /\ MeOK(backend[b], now) /\ now + Delay["am"] \in Nat
  BY Clock, AggregationAssumption DEF ShapeInv, MeOK, Levels
<1>3. me \in Memory /\ me.pc = "sleep" /\ me.wake = now + Delay["am"] /\ me.todo = <<>>
      /\ me.next = backend[b].next
  BY <1>1, <1>2 DEF Memory
<1> HIDE DEF me
<1>4. MeOK(me, now)
  BY <1>1, <1>2, <1>3, NoStatement DEF MeOK
<1> QED
  BY <1>1, <1>4, Becomes DEF ShapeInv

LEMMA StepShape == ShapeInv /\ [Next]_vars => ShapeInv'
<1> SUFFICES ASSUME ShapeInv, [Next]_vars PROVE ShapeInv'
  OBVIOUS
<1>1. CASE UNCHANGED vars
  BY <1>1 DEF vars, ShapeInv
<1>2. CASE Tick \/ AddColumn \/ \E s \in Samples : Store(s)
  BY <1>2, TickShape, AddColumnShape, StoreShape
<1>3. ASSUME NEW b \in Backends,
             \/ Start(b) \/ Crash(b) \/ Wake(b) \/ SelectFails(b) \/ SetUp(b)
             \/ \E l \in Levels : Create(b, l)
             \/ Statement(b) \/ Sleep(b)
      PROVE  ShapeInv'
  BY <1>3, LifeShape, WakeShape, SelectFailsShape, SetUpShape, CreateShape, StatementShape, SleepShape
<1> QED
  BY <1>1, <1>2, <1>3 DEF Next

LEMMA InitShape == Init => ShapeInv
<1> SUFFICES ASSUME Init PROVE ShapeInv
  OBVIOUS
<1>1. TableOK("d", {}, {})
  BY DEF TableOK, Tops, Ats, RowsOf
<1>2. {} # None
  BY DEF None
<1>3. RowsOK(rows, stored)
  BY <1>1, <1>2, LevelFacts DEF Init, RowsOK
<1>4. columns \in [Tables -> Nat]
  BY DEF Init
<1>5. now \in Begin..MaxTime /\ mishaps \in 0..MaxMishaps
  BY AggregationAssumption DEF Init
<1>6. \A b \in Backends : MeOK(backend[b], now)
  BY OffOK DEF Init
<1> QED
  BY <1>3, <1>4, <1>5, <1>6 DEF Init, ShapeInv

LEMMA ShapeInvariant == Spec => []ShapeInv
BY InitShape, StepShape, PTL DEF Spec

\* Whatever the threads of the backends do, whatever fails and when: every state is well
\* typed, and no table has two rows of one span (what the primary key is for).
THEOREM TypeCorrect == Spec => []TypeOK
<1>1. ShapeInv => TypeOK
  <2> SUFFICES ASSUME ShapeInv PROVE TypeOK
    OBVIOUS
  <2>1. ASSUME NEW t \in Tables, rows[t] # None, NEW r1 \in rows[t], NEW r2 \in rows[t]
        PROVE  r1.of \subseteq stored /\ (t # "d" /\ r1.at = r2.at => r1 = r2)
    <3>1. TableOK(t, rows[t], stored)
      BY <2>1 DEF ShapeInv, RowsOK
    <3> QED
      BY <3>1 DEF TableOK, RowsOf
  <2>2. ASSUME NEW b \in Backends
        PROVE  /\ backend[b].base \in {"none", "whole", "cut"}
               /\ backend[b].todo # <<>> => At(b, "turn")
    BY DEF ShapeInv, MeOK, Memory, At
  <2> QED
    BY <2>1, <2>2 DEF ShapeInv, TypeOK
<1> QED
  BY <1>1, ShapeInvariant, PTL

-----------------------------------------------------------------------------
(***************************************************************************)
(* The samples of a table, and what a statement does to them               *)
(***************************************************************************)
SamplesOf(tab) == UNION {r.of : r \in tab}

LEMMA InTable == ASSUME NEW t PROVE In(t) = IF rows[t] = None THEN {} ELSE SamplesOf(rows[t])
BY DEF In, SamplesOf

LEMMA InSame == ASSUME NEW t, rows'[t] = rows[t] PROVE In(t)' = In(t)
BY DEF In

\* A sample of d$ or am$ is in a row of its minute; one of ah$, in a row of its hour
LEMMA InRow ==
    ASSUME ShapeInv, NEW t \in {"d", "am", "ah"}, NEW s
    PROVE  /\ s \in In(t) => /\ s \in stored /\ Stamp[s] \in Nat \ {0} /\ rows[t] # None
                             /\ \E r \in rows[t] : s \in r.of
           /\ rows[t] # None => \A r \in rows[t] : s \in r.of =>
                  /\ s \in In(t) /\ r.at \in Nat
                  /\ t \in {"d", "am"} => r.at = Stamp[s]
                  /\ t = "ah" => r.at = Span("ah", Stamp[s])
<1>1. /\ t \in Tables /\ stored \in SUBSET Samples
      /\ rows[t] # None => TableOK(t, rows[t], stored)
  BY DEF Tables, Levels, ShapeInv, RowsOK
<1>2. ASSUME s \in In(t)
      PROVE  /\ s \in stored /\ Stamp[s] \in Nat \ {0} /\ rows[t] # None
             /\ \E r \in rows[t] : s \in r.of
  <2>1. rows[t] # None /\ \E r \in rows[t] : s \in r.of
    BY <1>2 DEF In
  <2>2. s \in stored
    BY <1>1, <2>1 DEF TableOK, RowsOf
  <2> QED
    BY <1>1, <2>1, <2>2, AggregationAssumption
<1>3. ASSUME rows[t] # None, NEW r \in rows[t], s \in r.of
      PROVE  /\ s \in In(t) /\ r.at \in Nat
             /\ t \in {"d", "am"} => r.at = Stamp[s]
             /\ t = "ah" => r.at = Span("ah", Stamp[s])
  <2>1. s \in In(t)
    BY <1>3 DEF In
  <2>2. r.at \in Nat
    BY <1>1, <1>3 DEF TableOK, RowsOf
  <2>3. ASSUME t \in {"d", "am"} PROVE r.at = Stamp[s]
    <3>1. TableOK(t, rows[t], stored) /\ Stamp[s] \in Nat
      <4>1. s \in stored
        BY <1>1, <1>3 DEF TableOK, RowsOf
      <4> QED
        BY <1>1, <1>3, <4>1, AggregationAssumption
    <3>2. CASE t = "d"
      BY <1>3, <3>1, <3>2 DEF TableOK
    <3>3. CASE t = "am"
      <4>1. Span("am", Stamp[s]) = r.at /\ "am" \in Levels
        BY <1>3, <3>1, <3>3 DEF TableOK, Levels
      <4> QED
        BY <3>1, <4>1, SpanFacts
    <3> QED
      BY <2>3, <3>2, <3>3
  <2>4. t = "ah" => r.at = Span("ah", Stamp[s])
    BY <1>1, <1>3 DEF TableOK
  <2> QED
    BY <2>1, <2>2, <2>3, <2>4
<1> QED
  BY <1>2, <1>3

\* The samples of rows that are condensed are those of the rows
LEMMA CondensedSamples ==
    ASSUME NEW l \in Levels, NEW st, NEW old \in SUBSET RowsOf(st)
    PROVE  SamplesOf(Condensed(l, old)) = SamplesOf(old)
<1>1. PICK C : C = Condensed(l, old)
  OBVIOUS
<1>2. /\ \A c \in C : \A s : s \in c.of <=> \E x \in old : Span(l, x.at) = c.at /\ s \in x.of
      /\ \A x \in old : \E c \in C : c.at = Span(l, x.at) /\ x.of \subseteq c.of
  BY <1>1, CondensedFacts
<1>3. \A s : s \in SamplesOf(C) => s \in SamplesOf(old)
  BY <1>2 DEF SamplesOf
<1>4. \A s : s \in SamplesOf(old) => s \in SamplesOf(C)
  BY <1>2 DEF SamplesOf
<1> QED
  BY <1>1, <1>3, <1>4

\* create table: the samples of the source that are old
LEMMA CreatedSamples ==
    ASSUME ShapeInv, NEW l \in {"am", "ah"}, rows[Source[l]] # None,
           rows' = [rows EXCEPT ![l] = Condensed(l, AllOld(l))]
    PROVE  /\ In(l)' = {s \in In(Source[l]) : Old(l, Stamp[s])}
           /\ rows'[l] # None /\ \A t \in Tables \ {l} : rows'[t] = rows[t]
<1>1. l \in Levels /\ l \in Tables /\ DOMAIN rows = Tables
  BY LevelFacts DEF Levels, Tables, ShapeInv, RowsOK
<1>2. Condensed(l, AllOld(l)) # None /\ AllOld(l) \in SUBSET RowsOf(stored)
  BY <1>1, CreatedOK
<1>3. rows'[l] = Condensed(l, AllOld(l))
  BY <1>1
<1>4. In(l)' = SamplesOf(AllOld(l))
  <2>1. In(l)' = SamplesOf(rows'[l])
    BY <1>2, <1>3 DEF In, SamplesOf
  <2> QED
    BY <1>1, <1>2, <1>3, <2>1, CondensedSamples
<1>5. ASSUME NEW s PROVE s \in SamplesOf(AllOld(l)) <=> s \in In(Source[l]) /\ Old(l, Stamp[s])
  <2>1. PICK t \in {"d", "am"} : t = Source[l]
    BY LevelFacts
  <2>2. /\ s \in In(t) => \E r \in rows[t] : s \in r.of
        /\ \A r \in rows[t] : s \in r.of => s \in In(t) /\ r.at = Stamp[s]
    BY <2>1, InRow
  <2>3. s \in SamplesOf(AllOld(l)) <=> \E r \in rows[t] : Old(l, r.at) /\ s \in r.of
    BY <2>1 DEF SamplesOf, AllOld
  <2> QED
    BY <2>1, <2>2, <2>3
<1> QED
  BY <1>1, <1>2, <1>3, <1>4, <1>5

\* insert: those of spans after the last row
LEMMA AddedSamples ==
    ASSUME ShapeInv, NEW l \in {"am", "ah"}, rows[l] # None, rows[Source[l]] # None,
           rows' = [rows EXCEPT ![l] = rows[l] \cup Added(l)]
    PROVE  /\ In(l)' = In(l) \cup {s \in In(Source[l]) : Old(l, Stamp[s]) /\ Span(l, Stamp[s]) > Last(l)}
           /\ rows'[l] # None /\ \A t \in Tables \ {l} : rows'[t] = rows[t]
<1>1. l \in Levels /\ l \in Tables /\ DOMAIN rows = Tables /\ stored \in SUBSET Samples
  BY LevelFacts DEF Levels, Tables, ShapeInv, RowsOK
<1>2. /\ TableOK(l, rows[l] \cup Added(l), stored)
      /\ NewerOld(l) \in SUBSET rows[Source[l]]
  BY <1>1, AddedFacts
<1>3. NewerOld(l) \in SUBSET RowsOf(stored)
  <2>1. TableOK(Source[l], rows[Source[l]], stored)
    BY <1>1, LevelFacts DEF ShapeInv, RowsOK
  <2> QED
    BY <1>2, <2>1 DEF TableOK
<1>4. rows'[l] = rows[l] \cup Added(l) /\ rows'[l] # None
  BY <1>1, <1>2, NoneIsNoTable DEF TableOK
<1>5. SamplesOf(Added(l)) = SamplesOf(NewerOld(l))
  BY <1>1, <1>3, CondensedSamples DEF Added
<1>6. In(l)' = In(l) \cup SamplesOf(NewerOld(l))
  <2>1. In(l)' = SamplesOf(rows'[l]) /\ In(l) = SamplesOf(rows[l])
    BY <1>4 DEF In, SamplesOf
  <2>2. SamplesOf(rows[l] \cup Added(l)) = SamplesOf(rows[l]) \cup SamplesOf(Added(l))
    BY DEF SamplesOf
  <2> QED
    BY <1>4, <1>5, <2>1, <2>2
<1>7. ASSUME NEW s
      PROVE  s \in SamplesOf(NewerOld(l)) <=>
                s \in In(Source[l]) /\ Old(l, Stamp[s]) /\ Span(l, Stamp[s]) > Last(l)
  <2>1. PICK t \in {"d", "am"} : t = Source[l]
    BY LevelFacts
  <2>2. /\ s \in In(t) => \E r \in rows[t] : s \in r.of
        /\ \A r \in rows[t] : s \in r.of => s \in In(t) /\ r.at = Stamp[s]
    BY <2>1, InRow
  <2>3. s \in SamplesOf(NewerOld(l)) <=> \E r \in rows[t] : Old(l, r.at) /\ Span(l, r.at) > Last(l) /\ s \in r.of
    BY <2>1 DEF SamplesOf, AllOld, NewerOld
  <2> QED
    BY <2>1, <2>2, <2>3
<1> QED
  BY <1>1, <1>4, <1>6, <1>7

\* delete: the rows whose start is expired
LEMMA PurgedSamples ==
    ASSUME ShapeInv, NEW t \in {"d", "am", "ah"}, rows[t] # None,
           rows' = [rows EXCEPT ![t] = {r \in rows[t] : ~ Expired(t, r.at)}]
    PROVE  /\ In(t)' = {s \in In(t) : ~ Expired(t, IF t = "ah" THEN Span("ah", Stamp[s]) ELSE Stamp[s])}
           /\ rows'[t] # None /\ \A u \in Tables \ {t} : rows'[u] = rows[u]
<1>1. t \in Tables /\ DOMAIN rows = Tables /\ TableOK(t, rows[t], stored) /\ stored \in SUBSET Samples
  BY DEF Levels, Tables, ShapeInv, RowsOK
<1>2. rows'[t] = {r \in rows[t] : ~ Expired(t, r.at)} /\ rows'[t] # None
  BY <1>1, NoneIsNoTable DEF TableOK
<1>3. ASSUME NEW s
      PROVE  s \in In(t)' <=> /\ s \in In(t)
                              /\ ~ Expired(t, IF t = "ah" THEN Span("ah", Stamp[s]) ELSE Stamp[s])
  <2>1. s \in In(t)' <=> \E r \in rows[t] : s \in r.of /\ ~ Expired(t, r.at)
    BY <1>2 DEF In
  <2> QED
    BY <2>1, InRow
<1> QED
  BY <1>1, <1>2, <1>3

LEMMA StoredSample ==
    ASSUME ShapeInv, NEW s \in Samples, Store(s)
    PROVE  /\ In("d")' = In("d") \cup {s} /\ stored' = stored \cup {s} /\ now' = now
           /\ s \notin stored /\ now \in Stamp[s]..(Stamp[s] + Late)
           /\ rows'["d"] # None /\ \A t \in Levels : rows'[t] = rows[t]
<1>1. rows' = [rows EXCEPT !["d"] = rows["d"] \cup {[at |-> Stamp[s], of |-> {s}]}]
  BY DEF Store
<1>2. DOMAIN rows = Tables /\ rows["d"] # None /\ "d" \in Tables /\ "d" \notin Levels /\ Levels \subseteq Tables
  BY LevelFacts DEF ShapeInv, RowsOK
<1>3. TableOK("d", rows["d"], stored)
  BY <1>2 DEF ShapeInv, RowsOK
<1>4. rows'["d"] = rows["d"] \cup {[at |-> Stamp[s], of |-> {s}]}
  BY <1>1, <1>2
<1>5. rows'["d"] # None
  BY StoreShape DEF ShapeInv, RowsOK
<1>6. In("d")' = In("d") \cup {s}
  <2>1. In("d") = UNION {r.of : r \in rows["d"]} /\ In("d")' = UNION {r.of : r \in rows'["d"]}
    BY <1>2, <1>5 DEF In
  <2>2. [at |-> Stamp[s], of |-> {s}].of = {s}
    OBVIOUS
  <2> QED
    BY <1>4, <2>1, <2>2
<1>7. /\ stored' = stored \cup {s} /\ now' = now /\ s \notin stored /\ now \in Stamp[s]..(Stamp[s] + Late)
  BY DEF Store
<1>8. \A t \in Levels : rows'[t] = rows[t]
  BY <1>1, <1>2
<1> QED
  BY <1>5, <1>6, <1>7, <1>8

\* What a step does to the tables
LEMMA TableSteps ==
    ASSUME ShapeInv, [Next]_vars
    PROVE  \/ \E s \in Samples : Store(s)
           \/ UNCHANGED <<rows, stored>> /\ now' \in {now, now + 1}
           \/ UNCHANGED <<now, stored>> /\ \E l \in Levels :
                 /\ rows[l] = None /\ rows[Source[l]] # None
                 /\ rows' = [rows EXCEPT ![l] = Condensed(l, AllOld(l))]
           \/ UNCHANGED <<now, stored>> /\ \E l \in Levels :
                 /\ rows[l] # None /\ rows[Source[l]] # None
                 /\ rows' = [rows EXCEPT ![l] = rows[l] \cup Added(l)]
           \/ UNCHANGED <<now, stored>> /\ \E t \in Tables :
                 /\ rows[t] # None
                 /\ rows' = [rows EXCEPT ![t] = {r \in rows[t] : ~ Expired(t, r.at)}]
<1>1. CASE UNCHANGED vars
  BY <1>1 DEF vars
<1>2. CASE Tick \/ AddColumn \/ \E s \in Samples : Store(s)
  BY <1>2 DEF Tick, AddColumn
<1>3. ASSUME NEW b \in Backends, Start(b) \/ Crash(b) \/ Wake(b) \/ SelectFails(b) \/ SetUp(b) \/ Sleep(b)
      PROVE  UNCHANGED <<rows, stored, now>>
  BY <1>3 DEF Start, Crash, Wake, SelectFails, SetUp, Sleep
<1>4. ASSUME NEW b \in Backends, NEW l \in Levels, Create(b, l)
      PROVE  /\ UNCHANGED <<now, stored>>
             /\ \/ UNCHANGED rows
                \/ /\ rows[l] = None /\ rows[Source[l]] # None
                   /\ rows' = [rows EXCEPT ![l] = Condensed(l, AllOld(l))]
  BY <1>4, CreateEffect
<1>5. ASSUME NEW b \in Backends, Statement(b)
      PROVE  /\ UNCHANGED <<now, stored>>
             /\ \/ UNCHANGED rows
                \/ \E l \in Levels : /\ rows[l] # None /\ rows[Source[l]] # None
                                     /\ rows' = [rows EXCEPT ![l] = rows[l] \cup Added(l)]
                \/ \E t \in Tables : /\ rows[t] # None
                                     /\ rows' = [rows EXCEPT ![t] = {r \in rows[t] : ~ Expired(t, r.at)}]
  <2>1. UNCHANGED <<now, stored>>
    BY <1>5, StatementEffect
  <2>2. CASE UNCHANGED rows
    BY <2>1, <2>2
  <2>3. CASE rows' # rows
    <3>1. PICK q \in Query : /\ rows' = [rows EXCEPT ![q.table] = Effect(q)]
                             /\ rows[q.table] # None
                             /\ q.kind = "insert" => rows[Source[q.table]] # None
      BY <1>5, <2>3, StatementEffect
    <3>2. /\ q.kind \in {"insert", "purge"} /\ q.table \in Tables /\ (q.kind = "insert" => q.table \in Levels)
          /\ q.kind = "insert" => Effect(q) = rows[q.table] \cup Added(q.table)
          /\ q.kind = "purge" => Effect(q) = {r \in rows[q.table] : ~ Expired(q.table, r.at)}
      BY <3>1, QueryFacts, EffectFacts
    <3> QED
      BY <2>1, <3>1, <3>2
  <2> QED
    BY <2>2, <2>3
<1> QED
  BY <1>1, <1>2, <1>3, <1>4, <1>5 DEF Next

-----------------------------------------------------------------------------
(***************************************************************************)
(* The rows of minutes                                                     *)
(***************************************************************************)
\* d$ lacks whole days of samples only, and none of these can still be stored
DataWhole ==
    \E c \in Nat : /\ c = 0 \/ c * Day + Late <= now
                  /\ In("d") = {s \in stored : Stamp[s] >= c * Day}

\* A row of a minute has all its samples, and it is too late for another
MinuteRows ==
    rows["am"] # None =>
        \A r \in rows["am"] : r.at + Late < now /\ r.of = {s \in stored : Stamp[s] = r.at}

MinuteInv == ShapeInv /\ DataWhole /\ MinuteRows

\* A sample is kept in d$ while it may come late
Kept == Retention["d"] > 0 => Late <= Retention["d"] * Day

LEMMA Numbers ==
    /\ Late \in Nat /\ Slack \in Nat /\ Hour \in Nat \ {0} /\ Day \in Nat \ {0}
    /\ Delay["am"] \in Nat /\ Delay["ah"] \in Nat
    /\ \A t \in Tables : Retention[t] \in Nat
    /\ "d" \in Tables /\ "am" \in Tables /\ "ah" \in Tables /\ "am" \in Levels /\ "ah" \in Levels
    /\ Width["am"] = 1 /\ Width["ah"] = Hour
BY AggregationAssumption DEF Levels, Tables, Width

\* Rows that are condensed out of all that d$ has of their minutes
LEMMA MinutesCondensed ==
    ASSUME ShapeInv, DataWhole, Late <= Delay["am"], NEW old \in SUBSET AllOld("am"),
           \A x \in old : \A y \in rows["d"] : y.at = x.at => y \in old,
           NEW c \in Condensed("am", old)
    PROVE  c.at + Late < now /\ c.of = {s \in stored : Stamp[s] = c.at}
<1>1. /\ TableOK("d", rows["d"], stored) /\ old \in SUBSET rows["d"] /\ rows["d"] # None
      /\ \A x \in old : Old("am", x.at)
  BY LevelFacts DEF ShapeInv, RowsOK, AllOld
<1>2. old \in SUBSET RowsOf(stored) /\ \A x \in old : x.at \in Nat /\ Span("am", x.at) = x.at /\ x.of # {}
  BY <1>1, SpanFacts, Numbers DEF TableOK, RowsOf
<1>3. PICK C : C = Condensed("am", old)
  OBVIOUS
<1>4. /\ \E x \in old : Span("am", x.at) = c.at
      /\ \A s : s \in c.of <=> \E x \in old : Span("am", x.at) = c.at /\ s \in x.of
  BY <1>2, <1>3, CondensedFacts, Numbers
<1>5. PICK x \in old : x.at = c.at
  BY <1>2, <1>4
<1>6. c.at + Late < now
  <2>1. now \in Nat /\ c.at \in Nat
    BY <1>2, <1>5, Clock
  <2>2. c.at \div 1 = c.at /\ now \div 1 = now
    BY <2>1
  <2>3. c.at < now - Delay["am"]
    BY <1>1, <1>5, <2>2, Numbers DEF Old
  <2> QED
    BY <2>1, <2>3, Numbers
<1>7. ASSUME NEW s \in c.of PROVE s \in stored /\ Stamp[s] = c.at
  <2>1. PICK y \in old : y.at = c.at /\ s \in y.of
    BY <1>2, <1>4
  <2>2. y \in rows["d"]
    BY <1>1
  <2>3. y.at = Stamp[s] /\ s \in In("d")
    BY <1>1, <2>1, <2>2, InRow
  <2> QED
    BY <2>1, <2>3, InRow
<1>8. ASSUME NEW s \in stored, Stamp[s] = c.at PROVE s \in c.of
  <2>1. PICK u : u \in x.of
    BY <1>2
  <2>2. u \in In("d") /\ Stamp[u] = c.at
    BY <1>1, <1>5, <2>1, InRow
  <2>3. s \in In("d")
    BY <1>8, <2>2 DEF DataWhole
  <2>4. PICK y \in rows["d"] : s \in y.of
    BY <2>3, InRow
  <2>5. y.at = c.at
    BY <1>1, <1>8, <2>4, InRow
  <2>6. y \in old /\ Span("am", y.at) = c.at
    BY <1>2, <1>5, <2>5
  <2> QED
    BY <1>4, <2>4, <2>6
<1> QED
  BY <1>6, <1>7, <1>8

LEMMA DataKept ==
    ASSUME MinuteInv, [Next]_vars, Kept PROVE DataWhole'
<1>0. ShapeInv /\ DataWhole /\ now \in Nat /\ rows["d"] # None /\ DOMAIN rows = Tables
  BY Clock DEF MinuteInv, ShapeInv, RowsOK
<1>1. PICK c \in Nat : /\ c = 0 \/ c * Day + Late <= now
                       /\ In("d") = {s \in stored : Stamp[s] >= c * Day}
  BY <1>0 DEF DataWhole
<1>2. PICK e \in Nat : e = c * Day
  BY Numbers
<1>3. ASSUME NEW s \in Samples, Store(s) PROVE DataWhole'
  <2>1. /\ In("d")' = In("d") \cup {s} /\ stored' = stored \cup {s} /\ now' = now
        /\ now \in Stamp[s]..(Stamp[s] + Late)
    BY <1>0, <1>3, StoredSample
  <2>2. Stamp[s] \in Nat
    BY AggregationAssumption
  <2>3. Stamp[s] >= c * Day
    <3>1. c = 0 => e = 0
      BY <1>2, Numbers
    <3> QED
      BY <1>0, <1>1, <1>2, <2>1, <2>2, <3>1, Numbers
  <2>4. In("d")' = {u \in stored' : Stamp[u] >= c * Day}
    BY <1>1, <2>1, <2>3
  <2> QED
    BY <1>1, <2>1, <2>4 DEF DataWhole
<1>4. ASSUME UNCHANGED <<rows, stored>>, now' \in {now, now + 1} PROVE DataWhole'
  <2>1. In("d")' = In("d")
    BY <1>4 DEF In
  <2>2. c = 0 \/ c * Day + Late <= now'
    BY <1>0, <1>1, <1>2, <1>4, Numbers
  <2> QED
    BY <1>1, <1>4, <2>1, <2>2 DEF DataWhole
<1>5. ASSUME UNCHANGED <<now, stored>>, rows'["d"] = rows["d"] PROVE DataWhole'
  <2>1. In("d")' = In("d")
    BY <1>5 DEF In
  <2> QED
    BY <1>1, <1>5, <2>1 DEF DataWhole
<1>6. ASSUME UNCHANGED <<now, stored>>, rows' = [rows EXCEPT !["d"] = {r \in rows["d"] : ~ Expired("d", r.at)}]
      PROVE  DataWhole'
  <2>1. In("d")' = {s \in In("d") : ~ Expired("d", Stamp[s])}
    BY <1>0, <1>6, PurgedSamples
  <2>2. CASE Retention["d"] = 0
    <3>1. In("d")' = In("d")
      BY <2>1, <2>2 DEF Expired
    <3> QED
      BY <1>1, <1>6, <3>1 DEF DataWhole
  <2>3. CASE Retention["d"] > 0
    <3>1. PICK k \in Nat : k = now \div Day /\ k * Day <= now
      BY <1>0, DivFacts, Numbers
    <3>2. PICK n \in Nat : n = Retention["d"]
      BY Numbers
    <3>3. PICK g \in Int : g = k - n
      OBVIOUS
    <3>4. \A s : Expired("d", Stamp[s]) <=> Stamp[s] < g * Day
      BY <2>3, <3>1, <3>2, <3>3 DEF Expired
    <3>5. \A s \in In("d") : Stamp[s] \in Nat
      BY <1>0, InRow
    <3>6. PICK f \in Int : f = g * Day
      BY Numbers
    <3>7. CASE g <= c
      <4>1. f <= e
        BY <1>2, <3>6, <3>7, MulMono, Numbers
      <4>2. \A s \in In("d") : Stamp[s] >= e
        BY <1>1, <1>2
      <4>3. \A s \in In("d") : ~ Expired("d", Stamp[s])
        BY <3>4, <3>5, <3>6, <4>1, <4>2
      <4>4. In("d")' = In("d")
        BY <2>1, <4>3
      <4> QED
        BY <1>1, <1>6, <4>4 DEF DataWhole
    <3>8. CASE c < g
      <4>1. e <= f
        <5>1. c <= g /\ c \in Int
          BY <3>8
        <5> QED
          BY <1>2, <3>6, <5>1, MulMono, Numbers
      <4>2. \A s \in stored : Stamp[s] \in Nat
        BY <1>0, AggregationAssumption DEF ShapeInv
      <4>3. In("d")' = {s \in stored : Stamp[s] >= g * Day}
        BY <1>1, <1>2, <2>1, <3>4, <3>5, <3>6, <4>1, <4>2
      <4>4. g * Day + Late <= now
        <5>1. Late <= n * Day
          BY <2>3, <3>2 DEF Kept
        <5>2. (k - n) * Day = k * Day - n * Day
          BY Numbers
        <5>3. n * Day \in Int /\ k * Day \in Int
          BY Numbers
        <5> QED
          BY <1>0, <3>1, <3>3, <5>1, <5>2, <5>3, Numbers
      <4>5. g \in Nat
        BY <3>8
      <4> QED
        BY <1>6, <4>3, <4>4, <4>5 DEF DataWhole
    <3> QED
      BY <3>7, <3>8
  <2> QED
    BY <2>2, <2>3, Numbers
<1>7. ASSUME UNCHANGED <<now, stored>>, NEW t \in Tables \ {"d"}, NEW tab, rows' = [rows EXCEPT ![t] = tab]
      PROVE  DataWhole'
  BY <1>0, <1>5, <1>7, LevelFacts
<1> QED
  BY <1>0, <1>3, <1>4, <1>6, <1>7, TableSteps, LevelFacts

LEMMA MinutesKept ==
    ASSUME MinuteInv, [Next]_vars, Late <= Delay["am"] PROVE MinuteRows'
<1>0. /\ ShapeInv /\ DataWhole /\ MinuteRows /\ now \in Nat /\ DOMAIN rows = Tables /\ rows["d"] # None
      /\ Source["am"] = "d"
  BY Clock, LevelFacts DEF MinuteInv, ShapeInv, RowsOK
<1>1. \A r \in rows["am"] : rows["am"] # None => r.at \in Nat
  BY <1>0, InRow, Numbers DEF ShapeInv, RowsOK, TableOK, RowsOf
<1>2. ASSUME NEW s \in Samples, Store(s) PROVE MinuteRows'
  <2>1. /\ stored' = stored \cup {s} /\ now' = now /\ now \in Stamp[s]..(Stamp[s] + Late)
        /\ rows'["am"] = rows["am"] /\ Stamp[s] \in Nat
    BY <1>0, <1>2, StoredSample, AggregationAssumption, Numbers
  <2>2. ASSUME rows["am"] # None, NEW r \in rows["am"]
        PROVE  r.at + Late < now /\ r.of = {u \in stored' : Stamp[u] = r.at}
    <3>1. r.at + Late < now /\ r.of = {u \in stored : Stamp[u] = r.at} /\ r.at \in Nat
      BY <1>0, <1>1, <2>2 DEF MinuteRows
    <3>2. Stamp[s] # r.at
      BY <1>0, <2>1, <3>1, Numbers
    <3> QED
      BY <2>1, <3>1, <3>2
  <2> QED
    BY <2>1, <2>2 DEF MinuteRows
<1>3. ASSUME UNCHANGED <<rows, stored>>, now' \in {now, now + 1} PROVE MinuteRows'
  <2>1. \A r \in rows["am"] : rows["am"] # None => r.at + Late < now'
    BY <1>0, <1>1, <1>3, Numbers DEF MinuteRows
  <2> QED
    BY <1>0, <1>3, <2>1 DEF MinuteRows
<1>4. ASSUME UNCHANGED <<now, stored>>, rows'["am"] = rows["am"] PROVE MinuteRows'
  BY <1>0, <1>4 DEF MinuteRows
<1>5. ASSUME UNCHANGED <<now, stored>>, rows'["am"] = Condensed("am", AllOld("am"))
      PROVE  MinuteRows'
  <2>1. \A x \in AllOld("am") : \A y \in rows["d"] : y.at = x.at => y \in AllOld("am")
    BY <1>0 DEF AllOld
  <2>2. \A r \in Condensed("am", AllOld("am")) : r.at + Late < now /\ r.of = {s \in stored : Stamp[s] = r.at}
    BY <1>0, <2>1, MinutesCondensed
  <2> QED
    BY <1>5, <2>2 DEF MinuteRows
<1>6. ASSUME UNCHANGED <<now, stored>>, rows["am"] # None, rows'["am"] = rows["am"] \cup Added("am")
      PROVE  MinuteRows'
  <2>1. NewerOld("am") \in SUBSET AllOld("am")
    BY DEF NewerOld
  <2>2. \A x \in NewerOld("am") : \A y \in rows["d"] : y.at = x.at => y \in NewerOld("am")
    BY <1>0 DEF AllOld, NewerOld
  <2>3. \A r \in Added("am") : r.at + Late < now /\ r.of = {s \in stored : Stamp[s] = r.at}
    BY <1>0, <2>1, <2>2, MinutesCondensed DEF Added
  <2> QED
    BY <1>0, <1>6, <2>3 DEF MinuteRows
<1>7. ASSUME UNCHANGED <<now, stored>>, rows["am"] # None, rows'["am"] \in SUBSET rows["am"]
      PROVE  MinuteRows'
  BY <1>0, <1>7 DEF MinuteRows
<1>8. ASSUME UNCHANGED <<now, stored>>, NEW t \in Tables \ {"am"}, NEW tab, rows' = [rows EXCEPT ![t] = tab]
      PROVE  MinuteRows'
  BY <1>0, <1>4, <1>8, Numbers
<1>9. ASSUME NEW tab, rows' = [rows EXCEPT !["am"] = tab] PROVE rows'["am"] = tab
  BY <1>0, <1>9, Numbers
<1> QED
  BY <1>0, <1>2, <1>3, <1>5, <1>6, <1>7, <1>8, <1>9, TableSteps, LevelFacts

LEMMA MinuteInvariant == ASSUME Kept, Late <= Delay["am"] PROVE Spec => []MinuteInv
<1>1. Init => MinuteInv
  <2> SUFFICES ASSUME Init PROVE MinuteInv
    OBVIOUS
  <2>1. In("d") = {} /\ stored = {} /\ rows["am"] = None
    BY LevelFacts, Numbers DEF Init, In
  <2> QED
    BY <2>1, InitShape DEF MinuteInv, DataWhole, MinuteRows
<1>2. MinuteInv /\ [Next]_vars => MinuteInv'
  BY StepShape, DataKept, MinutesKept DEF MinuteInv
<1> QED
  BY <1>1, <1>2, PTL DEF Spec

\* If d$ keeps samples for as long as they may come late: whichever backends create,
\* fill and purge the tables, and whatever fails, the row of a minute has all samples of
\* that minute.
THEOREM MinutesExact == ASSUME Kept PROVE Spec => []MinuteExact
<1>1. CASE Late <= Delay["am"]
  <2>1. MinuteInv => MinuteExact
    BY DEF MinuteInv, MinuteRows, MinuteExact
  <2>2. Spec => []MinuteInv
    BY <1>1, MinuteInvariant
  <2> QED
    BY <2>1, <2>2, PTL
<1>2. CASE ~ (Late <= Delay["am"])
  <2>1. MinuteExact
    BY <1>2 DEF MinuteExact
  <2> QED
    BY <2>1, PTL
<1> QED
  BY <1>1, <1>2

-----------------------------------------------------------------------------
(***************************************************************************)
(* The threads: what the place one is at says of the tables                *)
(***************************************************************************)
\* It has the minutes behind it: it made am$ itself, or has filled it in this turn
AmDone(me) == \/ me.pc \in {"am", "ah"} /\ ~ me.haveAM
              \/ me.pc = "turn" /\ ~ me.broken /\ ~ Has(me.todo, 1)

\* It has filled ah$ in this turn, and has yet to purge am$
AhDone(me) == me.pc = "turn" /\ ~ me.broken /\ Has(me.todo, 4) /\ ~ Has(me.todo, 3)

LEMMA PlaceFacts ==
    ASSUME ShapeInv, NEW b \in Backends, AmDone(backend[b]) \/ AhDone(backend[b])
    PROVE  backend[b].fp \in Nat /\ backend[b].fp <= now /\ now <= backend[b].fp + Slack
<1>1. MeOK(backend[b], now)
  BY DEF ShapeInv
<1> QED
  BY <1>1 DEF MeOK, Memory, AmDone, AhDone

\* A set-up finds no am$, or the minutes are not behind it
LEMMA SetUpPlace ==
    ASSUME ShapeInv, NEW b \in Backends, SetUp(b)
    PROVE  /\ AmDone(backend'[b]) => rows["am"] = None /\ rows' = rows /\ backend'[b].pc = "am"
           /\ ~ AhDone(backend'[b])
<1> DEFINE old == backend[b]
           me == [old EXCEPT !.pc = "am", !.fp = now, !.base = "whole", !.cols = columns["d"],
                             !.haveAM = rows["am"] # None]
           cut == [old EXCEPT !.base = "cut"]
<1>1. rows' = rows /\ (Become(b, me) \/ Become(b, Turn(cut))) /\ old.pc = "sleep" /\ old.wake <= now
  BY DEF SetUp, At
<1>2. /\ MeOK(old, now) /\ old \in Memory /\ old.next["am"] \in Nat /\ old.wake \in Nat /\ now \in Nat
      /\ DOMAIN backend = Backends
  BY Clock DEF ShapeInv, MeOK, Memory, Levels
<1>3. old.next["am"] <= now
  BY <1>1, <1>2 DEF MeOK
<1>4. me.pc = "am" /\ (me.haveAM <=> rows["am"] # None) /\ cut \in Memory /\ cut.next = old.next
  BY <1>2 DEF Memory
<1> HIDE DEF me, cut
<1>5. PICK t : t = Turn(cut)
  OBVIOUS
<1>6. t.pc = "turn" /\ Has(t.todo, 1) /\ (Has(t.todo, 4) => Has(t.todo, 3))
  BY <1>2, <1>3, <1>4, <1>5, TurnFacts
<1>7. backend'[b] = me \/ backend'[b] = t
  BY <1>1, <1>2, <1>5 DEF Become
<1> QED
  BY <1>1, <1>4, <1>6, <1>7 DEF AmDone, AhDone

LEMMA TurnPlace ==
    ASSUME ShapeInv, NEW me \in Memory, me.next["am"] <= now
    PROVE  ~ AmDone(Turn(me)) /\ ~ AhDone(Turn(me))
<1>1. PICK t : t = Turn(me)
  OBVIOUS
<1>2. t.pc = "turn" /\ Has(t.todo, 1) /\ (Has(t.todo, 4) => Has(t.todo, 3))
  BY <1>1, Clock, TurnFacts
<1> QED
  BY <1>1, <1>2 DEF AmDone, AhDone

LEMMA WakePlace ==
    ASSUME ShapeInv, NEW b \in Backends, Wake(b)
    PROVE  ~ AmDone(backend'[b]) /\ ~ AhDone(backend'[b])
<1>1. Become(b, Turn(backend[b])) /\ backend[b].pc = "sleep" /\ backend[b].wake <= now /\ DOMAIN backend = Backends
  BY DEF Wake, At, ShapeInv
<1>2. /\ MeOK(backend[b], now) /\ backend[b] \in Memory /\ backend[b].next["am"] \in Nat
      /\ backend[b].wake \in Nat /\ now \in Nat
  BY Clock DEF ShapeInv, MeOK, Memory, Levels
<1>3. backend[b].next["am"] <= now
  BY <1>1, <1>2 DEF MeOK
<1>4. backend'[b] = Turn(backend[b])
  BY <1>1 DEF Become
<1> QED
  BY <1>2, <1>3, <1>4, TurnPlace

LEMMA CreatePlace ==
    ASSUME ShapeInv, NEW b \in Backends, NEW l \in Levels, Create(b, l)
    PROVE  /\ AmDone(backend'[b]) =>
                 AmDone(backend[b]) /\ backend'[b].fp = backend[b].fp /\ backend'[b].pc # "turn"
           /\ ~ AhDone(backend'[b])
           /\ rows' = rows \/ (l = "ah" => resumed' \/ AmDone(backend[b]))
<1>1. PICK me : /\ Become(b, me)
                /\ me = CASE l = "am" -> [backend[b] EXCEPT !.pc = "ah"]
                        []   l = "ah" -> [backend[b] EXCEPT !.pc = "ad"]
                        []   l = "ad" -> Turn(backend[b])
  BY CreateEffect
<1>2. /\ backend[b] \in Memory /\ MeOK(backend[b], now) /\ backend[b].pc = l /\ backend[b].next["am"] <= now
      /\ DOMAIN backend = Backends
  BY CreateEffect DEF ShapeInv, MeOK, Levels
<1>3. backend'[b] = me
  BY <1>1, <1>2 DEF Become
<1>4. CASE l = "am"
  <2>1. me = [backend[b] EXCEPT !.pc = "ah"]
    BY <1>1, <1>4
  <2>2. me.pc = "ah" /\ me.haveAM = backend[b].haveAM /\ me.fp = backend[b].fp
    BY <1>2, <2>1 DEF Memory
  <2> QED
    BY <1>2, <1>3, <1>4, <2>2 DEF AmDone, AhDone
<1>5. CASE l = "ah"
  <2>1. me = [backend[b] EXCEPT !.pc = "ad"]
    BY <1>1, <1>5
  <2>2. me.pc = "ad"
    BY <1>2, <2>1 DEF Memory
  <2>3. rows' = rows \/ resumed' \/ ~ backend[b].haveAM
    BY <1>5, CreateEffect
  <2> QED
    BY <1>2, <1>3, <1>5, <2>2, <2>3 DEF AmDone, AhDone
<1>6. CASE l = "ad"
  <2>1. me = Turn(backend[b])
    BY <1>1, <1>6
  <2> QED
    BY <1>2, <1>3, <1>6, <2>1, TurnPlace
<1> QED
  BY <1>4, <1>5, <1>6 DEF Levels

\* Of two inserts the one of the minutes goes first, and a purge after its insert
LEMMA StatementPlace ==
    ASSUME ShapeInv, NEW b \in Backends, Statement(b)
    PROVE  /\ AmDone(backend'[b]) =>
                 /\ backend'[b].fp = backend[b].fp /\ backend[b].fp \in Nat /\ backend[b].fp <= now
                 /\ \/ AmDone(backend[b]) /\ backend[b].pc = "turn"
                    \/ /\ rows["am"] # None /\ rows["d"] # None
                       /\ rows' = [rows EXCEPT !["am"] = rows["am"] \cup Added("am")]
           /\ AhDone(backend'[b]) =>
                 /\ backend'[b].fp = backend[b].fp /\ backend[b].fp \in Nat /\ backend[b].fp <= now
                 /\ \/ AhDone(backend[b])
                    \/ /\ AmDone(backend[b]) /\ rows["ah"] # None /\ rows["am"] # None
                       /\ rows' = [rows EXCEPT !["ah"] = rows["ah"] \cup Added("ah")]
           /\ \/ rows' = rows
              \/ \E l \in Levels : /\ rows[l] # None /\ rows[Source[l]] # None
                                   /\ rows' = [rows EXCEPT ![l] = rows[l] \cup Added(l)]
                                   /\ l = "ah" => AmDone(backend[b])
              \/ \E t \in Tables : /\ rows[t] # None
                                   /\ rows' = [rows EXCEPT ![t] = {r \in rows[t] : ~ Expired(t, r.at)}]
                                   /\ t = "d" => AmDone(backend[b]) /\ backend[b].pc = "turn"
                                   /\ t = "am" => AhDone(backend[b])
<1> DEFINE old == backend[b]
<1>1. PICK q : q = Head(old.todo)
  OBVIOUS
<1>2. /\ old \in Memory /\ MeOK(old, now) /\ old.todo \in Seq(Query) /\ Ordered(old.todo)
      /\ old.broken \in BOOLEAN /\ DOMAIN backend = Backends
  BY DEF ShapeInv, MeOK, Memory
<1>3. /\ old.pc = "turn" /\ old.todo # <<>> /\ q \in Query
      /\ \/ /\ rows' = [rows EXCEPT ![q.table] = Effect(q)]
            /\ ~ old.broken /\ rows[q.table] # None
            /\ q.kind = "insert" => rows[Source[q.table]] # None
            /\ Become(b, [old EXCEPT !.todo = Tail(old.todo)])
         \/ /\ rows' = rows
            /\ Become(b, [old EXCEPT !.todo = Tail(old.todo), !.broken = TRUE])
  BY <1>1, StatementEffect
<1>4. PICK rest : rest = Tail(old.todo)
  OBVIOUS
<1>5. /\ \A k : Has(old.todo, k) <=> k = Rank(q) \/ Has(rest, k)
      /\ \A k \in Nat : k <= Rank(q) => ~ Has(rest, k)
  BY <1>1, <1>2, <1>3, <1>4, TailFacts
<1>6. old.fp \in Nat /\ old.fp <= now
  BY <1>2, <1>3 DEF MeOK, Memory
<1>7. CASE /\ rows' = rows
           /\ Become(b, [old EXCEPT !.todo = Tail(old.todo), !.broken = TRUE])
  <2>1. PICK me : me = [old EXCEPT !.todo = rest, !.broken = TRUE]
    OBVIOUS
  <2>2. me.pc = "turn" /\ me.broken = TRUE /\ backend'[b] = me
    BY <1>2, <1>3, <1>4, <1>7, <2>1 DEF Memory, Become
  <2> QED
    BY <1>7, <2>2 DEF AmDone, AhDone
<1>8. CASE /\ rows' = [rows EXCEPT ![q.table] = Effect(q)]
           /\ ~ old.broken /\ rows[q.table] # None
           /\ q.kind = "insert" => rows[Source[q.table]] # None
           /\ Become(b, [old EXCEPT !.todo = Tail(old.todo)])
  <2>1. PICK me : me = [old EXCEPT !.todo = rest]
    OBVIOUS
  <2>2. /\ me.pc = "turn" /\ me.broken = old.broken /\ me.todo = rest /\ me.fp = old.fp
        /\ backend'[b] = me
    BY <1>2, <1>3, <1>4, <1>8, <2>1 DEF Memory, Become
  <2>3. /\ q.kind \in {"insert", "purge"} /\ q.table \in Tables
        /\ q.kind = "insert" => q.table \in Levels
        /\ Rank(q) \in 1..7
        /\ Rank(q) = 1 <=> q.kind = "insert" /\ q.table = "am"
        /\ Rank(q) = 2 <=> q.kind = "purge" /\ q.table = "d"
        /\ Rank(q) = 3 <=> q.kind = "insert" /\ q.table = "ah"
        /\ Rank(q) = 4 <=> q.kind = "purge" /\ q.table = "am"
    BY <1>3, QueryFacts
  <2>4. /\ q.kind = "insert" => rows' = [rows EXCEPT ![q.table] = rows[q.table] \cup Added(q.table)]
        /\ q.kind = "purge" => rows' = [rows EXCEPT ![q.table] = {r \in rows[q.table] : ~ Expired(q.table, r.at)}]
    BY <1>3, <1>8, EffectFacts
  <2>5. Rank(q) \in 2..7 => ~ Has(old.todo, 1)
    BY <1>5, <2>3
  <2>6. Rank(q) = 4 => ~ Has(old.todo, 3) /\ Has(old.todo, 4)
    BY <1>5, <2>3
  <2>7. Rank(q) \in 2..7 => AmDone(old)
    BY <1>3, <1>8, <2>5 DEF AmDone
  <2>8. Rank(q) = 4 => AhDone(old)
    BY <1>3, <1>8, <2>6 DEF AhDone
  <2>9. AhDone(me) => AhDone(old) \/ Rank(q) = 3
    BY <1>3, <1>5, <1>8, <2>2 DEF AhDone
  <2>10. Rank(q) = 1 => /\ rows["am"] # None /\ rows["d"] # None
                        /\ rows' = [rows EXCEPT !["am"] = rows["am"] \cup Added("am")]
    BY <1>8, <2>3, <2>4, LevelFacts
  <2>11. Rank(q) = 3 => /\ rows["ah"] # None /\ rows["am"] # None
                        /\ rows' = [rows EXCEPT !["ah"] = rows["ah"] \cup Added("ah")]
    BY <1>8, <2>3, <2>4, LevelFacts
  <2>12. \/ q.kind = "insert" /\ (q.table = "ah" => AmDone(old))
         \/ q.kind = "purge" /\ (q.table = "d" => AmDone(old) /\ old.pc = "turn") /\ (q.table = "am" => AhDone(old))
    BY <1>3, <2>3, <2>7, <2>8
  <2>13. Rank(q) = 1 \/ Rank(q) \in 2..7
    BY <2>3
  <2>14. Rank(q) = 3 => Rank(q) \in 2..7
    OBVIOUS
  <2>15. AmDone(backend'[b]) => (AmDone(old) /\ old.pc = "turn") \/ Rank(q) = 1
    BY <1>3, <2>7, <2>13
  <2>16. backend'[b].fp = old.fp
    BY <2>2
  <2>17. AhDone(backend'[b]) => AhDone(old) \/ (Rank(q) = 3 /\ AmDone(old))
    BY <2>2, <2>7, <2>9, <2>14
  <2>18. \/ \E l \in Levels : /\ rows[l] # None /\ rows[Source[l]] # None
                              /\ rows' = [rows EXCEPT ![l] = rows[l] \cup Added(l)]
                              /\ l = "ah" => AmDone(old)
         \/ \E t \in Tables : /\ rows[t] # None
                              /\ rows' = [rows EXCEPT ![t] = {r \in rows[t] : ~ Expired(t, r.at)}]
                              /\ t = "d" => AmDone(old) /\ old.pc = "turn"
                              /\ t = "am" => AhDone(old)
    BY <1>8, <2>3, <2>4, <2>12
  <2> QED
    BY <1>6, <2>10, <2>11, <2>15, <2>16, <2>17, <2>18
<1> QED
  BY <1>3, <1>7, <1>8

-----------------------------------------------------------------------------
\* How a thread comes to the places that say something of the tables
LEMMA ThreadSteps ==
    ASSUME ShapeInv, [Next]_vars, NEW b \in Backends
    PROVE  /\ AmDone(backend'[b]) =>
                 \/ rows["am"] = None /\ rows' = rows /\ backend'[b].pc # "turn"
                 \/ /\ backend'[b].fp = backend[b].fp /\ backend[b].fp \in Nat /\ backend[b].fp <= now
                    /\ \/ AmDone(backend[b]) /\ (backend'[b].pc = "turn" => backend[b].pc = "turn")
                       \/ /\ rows["am"] # None /\ rows["d"] # None /\ UNCHANGED <<now, stored>>
                          /\ rows' = [rows EXCEPT !["am"] = rows["am"] \cup Added("am")]
           /\ AhDone(backend'[b]) =>
                 /\ backend'[b].fp = backend[b].fp /\ backend[b].fp \in Nat /\ backend[b].fp <= now
                 /\ \/ AhDone(backend[b])
                    \/ /\ AmDone(backend[b]) /\ rows["ah"] # None /\ rows["am"] # None /\ UNCHANGED <<now, stored>>
                       /\ rows' = [rows EXCEPT !["ah"] = rows["ah"] \cup Added("ah")]
<1>1. /\ DOMAIN backend = Backends
      /\ AmDone(backend[b]) \/ AhDone(backend[b]) => backend[b].fp \in Nat /\ backend[b].fp <= now
  BY PlaceFacts DEF ShapeInv
<1>2. CASE backend'[b] = backend[b]
  BY <1>1, <1>2
<1>3. CASE Start(b) \/ Crash(b) \/ Sleep(b) \/ SelectFails(b)
  <2>1. PICK me : backend'[b] = me /\ me.pc \in {"off", "sleep"}
    <3>1. CASE Start(b)
      <4>1. backend'[b] = [Off EXCEPT !.pc = "sleep", !.wake = now]
        BY <1>1, <3>1 DEF Start, Become
      <4>2. [Off EXCEPT !.pc = "sleep", !.wake = now].pc = "sleep"
        BY DEF Off
      <4> QED
        BY <4>1, <4>2
    <3>2. CASE Crash(b)
      BY <1>1, <3>2 DEF Crash, Become, Off
    <3>3. CASE Sleep(b)
      <4>1. backend[b] \in Memory
        BY DEF ShapeInv, MeOK
      <4>2. backend'[b].pc = "sleep"
        BY <1>1, <3>3, <4>1 DEF Sleep, Become, Memory
      <4> QED
        BY <4>2
    <3>4. CASE SelectFails(b)
      <4>1. backend[b] \in Memory /\ backend[b].pc = "sleep"
        BY <3>4 DEF ShapeInv, MeOK, SelectFails, At
      <4>2. backend'[b].pc = "sleep"
        BY <1>1, <3>4, <4>1 DEF SelectFails, Become, Memory
      <4> QED
        BY <4>2
    <3> QED
      BY <1>3, <3>1, <3>2, <3>3, <3>4
  <2> QED
    BY <2>1 DEF AmDone, AhDone
<1>4. CASE SetUp(b)
  BY <1>4, SetUpPlace
<1>5. CASE Wake(b)
  BY <1>5, WakePlace
<1>6. CASE \E l \in Levels : Create(b, l)
  BY <1>1, <1>6, CreatePlace
<1>7. CASE Statement(b)
  <2>1. UNCHANGED <<now, stored>>
    BY <1>7, StatementEffect
  <2> QED
    BY <1>7, <2>1, StatementPlace
<1>8. CASE UNCHANGED vars \/ Tick \/ AddColumn \/ \E s \in Samples : Store(s)
  BY <1>2, <1>8 DEF vars, Tick, AddColumn, Store
<1>9. ASSUME NEW c \in Backends \ {b},
             \/ Start(c) \/ Crash(c) \/ Wake(c) \/ SelectFails(c) \/ SetUp(c)
             \/ \E l \in Levels : Create(c, l)
             \/ Statement(c) \/ Sleep(c)
      PROVE  backend'[b] = backend[b]
  <2>1. \E me : Become(c, me)
    BY <1>9, CreateEffect, StatementEffect DEF Start, Crash, Wake, SelectFails, SetUp, Sleep
  <2> QED
    BY <1>1, <2>1 DEF Become
<1> QED
  BY <1>2, <1>3, <1>4, <1>5, <1>6, <1>7, <1>8, <1>9 DEF Next

\* What a step does to the tables, and where the thread is that does it
LEMMA Steps ==
    ASSUME ShapeInv, [Next]_vars
    PROVE  \/ \E s \in Samples : Store(s)
           \/ UNCHANGED <<rows, stored>> /\ now' \in {now, now + 1}
           \/ UNCHANGED <<now, stored>> /\ \E l \in Levels :
                 /\ rows[l] = None /\ rows[Source[l]] # None
                 /\ rows' = [rows EXCEPT ![l] = Condensed(l, AllOld(l))]
                 /\ l = "ah" => resumed' \/ \E b \in Backends : AmDone(backend[b])
           \/ UNCHANGED <<now, stored>> /\ \E l \in Levels :
                 /\ rows[l] # None /\ rows[Source[l]] # None
                 /\ rows' = [rows EXCEPT ![l] = rows[l] \cup Added(l)]
                 /\ l = "ah" => \E b \in Backends : AmDone(backend[b])
           \/ UNCHANGED <<now, stored>> /\ \E t \in Tables :
                 /\ rows[t] # None
                 /\ rows' = [rows EXCEPT ![t] = {r \in rows[t] : ~ Expired(t, r.at)}]
                 /\ t = "d" => \E b \in Backends : AmDone(backend[b]) /\ backend[b].pc = "turn"
                 /\ t = "am" => \E b \in Backends : AhDone(backend[b])
<1>1. CASE UNCHANGED vars
  BY <1>1 DEF vars
<1>2. CASE Tick \/ AddColumn \/ \E s \in Samples : Store(s)
  BY <1>2 DEF Tick, AddColumn
<1>3. ASSUME NEW b \in Backends, Start(b) \/ Crash(b) \/ Wake(b) \/ SelectFails(b) \/ SetUp(b) \/ Sleep(b)
      PROVE  UNCHANGED <<rows, stored, now>>
  BY <1>3 DEF Start, Crash, Wake, SelectFails, SetUp, Sleep
<1>4. ASSUME NEW b \in Backends, NEW l \in Levels, Create(b, l)
      PROVE  /\ UNCHANGED <<now, stored>>
             /\ \/ UNCHANGED rows
                \/ /\ rows[l] = None /\ rows[Source[l]] # None
                   /\ rows' = [rows EXCEPT ![l] = Condensed(l, AllOld(l))]
                   /\ l = "ah" => resumed' \/ AmDone(backend[b])
  BY <1>4, CreateEffect, CreatePlace
<1>5. ASSUME NEW b \in Backends, Statement(b)
      PROVE  /\ UNCHANGED <<now, stored>>
             /\ \/ rows' = rows
                \/ \E l \in Levels : /\ rows[l] # None /\ rows[Source[l]] # None
                                     /\ rows' = [rows EXCEPT ![l] = rows[l] \cup Added(l)]
                                     /\ l = "ah" => AmDone(backend[b])
                \/ \E t \in Tables : /\ rows[t] # None
                                     /\ rows' = [rows EXCEPT ![t] = {r \in rows[t] : ~ Expired(t, r.at)}]
                                     /\ t = "d" => AmDone(backend[b]) /\ backend[b].pc = "turn"
                                     /\ t = "am" => AhDone(backend[b])
  BY <1>5, StatementEffect, StatementPlace
<1> QED
  BY <1>1, <1>2, <1>3, <1>4, <1>5 DEF Next

LEMMA ResumedStays == ASSUME ShapeInv, [Next]_vars, ~ resumed' PROVE ~ resumed
<1>1. ASSUME NEW b \in Backends, NEW l \in Levels, Create(b, l) PROVE ~ resumed
  BY <1>1, CreateEffect
<1>2. ASSUME NEW b \in Backends, Statement(b) PROVE ~ resumed
  BY <1>2, StatementEffect
<1> QED
  BY <1>1, <1>2 DEF Next, vars, Tick, AddColumn, Store, Start, Crash, Wake, SelectFails, SetUp, Sleep

-----------------------------------------------------------------------------
(***************************************************************************)
(* Hours                                                                   *)
(***************************************************************************)
HourOf(t) == t \div Hour

LEMMA Hours ==
    ASSUME NEW t \in Nat, NEW u \in Nat
    PROVE  /\ HourOf(t) \in Nat /\ Span("ah", t) = HourOf(t) * Hour /\ Span("ah", t) \in Nat
           /\ Span("ah", t) <= t /\ t < Span("ah", t) + Hour
           /\ Span("ah", t) = Span("ah", u) <=> HourOf(t) = HourOf(u)
           /\ t <= u => HourOf(t) <= HourOf(u) /\ Span("ah", t) <= Span("ah", u)
           /\ Span("ah", t) < Span("ah", u) <=> HourOf(t) < HourOf(u)
           /\ \A q \in Int : HourOf(t) < q <=> t < q * Hour
<1>1. /\ Width["ah"] = Hour /\ Hour \in Nat \ {0} /\ "ah" \in Levels
      /\ Span("ah", t) = HourOf(t) * Hour /\ Span("ah", u) = HourOf(u) * Hour
  BY Numbers DEF Span, HourOf
<1>2. HourOf(t) \in Nat /\ HourOf(u) \in Nat
  BY <1>1, DivFacts DEF HourOf
<1>3. Span("ah", t) \in Nat /\ Span("ah", t) <= t /\ t < Span("ah", t) + Hour
  BY <1>1, SpanFacts
<1>4. Span("ah", t) = Span("ah", u) <=> HourOf(t) = HourOf(u)
  BY <1>1, SpanDiv DEF HourOf
<1>5. t <= u => HourOf(t) <= HourOf(u) /\ Span("ah", t) <= Span("ah", u)
  BY <1>1, DivMono, SpanMono DEF HourOf
<1>6. \A q \in Int : HourOf(t) < q <=> t < q * Hour
  BY <1>1, DivLess DEF HourOf
<1>7. Span("ah", t) < Span("ah", u) <=> HourOf(t) < HourOf(u)
  <2>1. PICK m, n \in Nat : m = HourOf(t) /\ n = HourOf(u)
    BY <1>2
  <2>2. m * Hour \in Int /\ n * Hour \in Int
    BY <1>1
  <2>3. n <= m => n * Hour <= m * Hour
    BY <1>1, MulMono
  <2>4. m < n => m * Hour <= n * Hour /\ m * Hour # n * Hour
    <3>1. m <= n => m * Hour <= n * Hour
      BY <1>1, MulMono
    <3> QED
      BY <1>1, <1>4, <2>1, <3>1
  <2> QED
    BY <1>1, <2>1, <2>2, <2>3, <2>4
<1> QED
  BY <1>1, <1>2, <1>3, <1>4, <1>5, <1>6, <1>7

\* Days are of whole hours
Aligned == \E m \in Nat : Day = m * Hour

\* The samples of an hour are of one side of a day's start
LEMMA DaySide ==
    ASSUME Aligned, NEW g \in Int, NEW t \in Nat
    PROVE  t < g * Day <=> Span("ah", t) < g * Day
<1>1. PICK m \in Nat : Day = m * Hour
  BY DEF Aligned
<1>2. PICK q \in Int : q = g * m
  OBVIOUS
<1>3. g * Day = q * Hour
  BY <1>1, <1>2, Numbers
<1>4. HourOf(t) < q <=> t < q * Hour
  BY Hours
<1>5. PICK u \in Nat : u = Span("ah", t)
  BY Hours
<1>6. HourOf(u) = HourOf(t)
  <2>1. Span("ah", u) = Span("ah", t)
    BY <1>5, SpanTwice, Numbers
  <2> QED
    BY <1>5, <2>1, Hours
<1>7. HourOf(u) < q <=> u < q * Hour
  BY Hours
<1> QED
  BY <1>3, <1>4, <1>5, <1>6, <1>7

\* So they expire together
LEMMA HourExpires ==
    ASSUME Aligned, now \in Nat, NEW t \in Nat, NEW u \in Nat, Span("ah", t) = Span("ah", u), NEW tab \in Tables
    PROVE  /\ Expired(tab, t) <=> Expired(tab, u)
           /\ Expired(tab, t) <=> Expired(tab, Span("ah", t))
<1>1. PICK g : g = now \div Day - Retention[tab]
  OBVIOUS
<1>2. g \in Int
  BY <1>1, DivFacts, Numbers
<1> QED
  BY <1>1, <1>2, DaySide DEF Expired

-----------------------------------------------------------------------------
(***************************************************************************)
(* Steps, as what becomes of the samples of d$, am$ and ah$                *)
(***************************************************************************)
LEMMA OldFacts ==
    ASSUME ShapeInv, NEW t \in Nat
    PROVE  /\ Old("am", t) <=> t < now - Delay["am"]
           /\ Old("ah", t) <=> HourOf(t) < HourOf(now) - Delay["ah"]
<1>1. now \in Nat /\ t \div 1 = t /\ now \div 1 = now
  BY Clock
<1> QED
  BY <1>1, Numbers DEF Old, HourOf

\* A span is after the last row when it is after those of all samples
LEMMA LastSample ==
    ASSUME ShapeInv, NEW l \in {"am", "ah"}, rows[l] # None, NEW t \in Nat, Hour <= t
    PROVE  Span(l, t) > Last(l) <=> \A u \in In(l) : Span(l, Stamp[u]) < Span(l, t)
<1>1. /\ l \in Levels /\ l \in Tables /\ RowsOK(rows, stored) /\ TableOK(l, rows[l], stored)
      /\ stored \in SUBSET Samples
  BY LevelFacts, Numbers DEF ShapeInv, RowsOK
<1>2. /\ Last(l) \in Nat
      /\ \A r \in rows[l] : r.at \in Nat /\ r.at <= Last(l)
      /\ rows[l] # {} => \E r \in rows[l] : r.at = Last(l)
      /\ rows[l] = {} => Last(l) = 0
  BY <1>1, LastFacts
<1>3. PICK n \in Nat : n = Span(l, t)
  BY <1>1, SpanFacts
<1>4. ASSUME NEW r \in rows[l], NEW s \in r.of PROVE s \in In(l) /\ Span(l, Stamp[s]) = r.at
  <2>1. s \in In(l)
    BY <1>1, <1>4, InRow
  <2> QED
    BY <1>1, <1>4, <2>1 DEF TableOK
<1>5. ASSUME NEW u \in In(l) PROVE \E r \in rows[l] : u \in r.of
  BY <1>1, <1>5, InRow
<1>6. CASE rows[l] = {}
  <2>1. Span(l, t) > 0
    <3>1. l = "am" => Span(l, t) = t
      BY <1>1, SpanFacts
    <3>2. l = "ah" => t < Span(l, t) + Hour
      BY Hours
    <3> QED
      BY <1>3, <3>1, <3>2, Numbers
  <2> QED
    BY <1>2, <1>5, <1>6, <2>1
<1>7. CASE rows[l] # {}
  <2>1. PICK r \in rows[l] : r.at = Last(l)
    BY <1>2, <1>7
  <2>2. PICK u : u \in r.of
    BY <1>1 DEF TableOK
  <2>3. u \in In(l) /\ Span(l, Stamp[u]) = Last(l)
    BY <1>4, <2>1, <2>2
  <2>4. \A v \in In(l) : Span(l, Stamp[v]) \in Nat /\ Span(l, Stamp[v]) <= Last(l)
    BY <1>2, <1>4, <1>5
  <2> QED
    BY <1>2, <1>3, <2>3, <2>4
<1> QED
  BY <1>6, <1>7

\* Samples that the next statement for minutes, or for hours, takes
NewMinutes == {s \in In("d") : /\ Stamp[s] < now - Delay["am"]
                               /\ \A u \in In("am") : Stamp[u] < Stamp[s]}

NewHours == {s \in In("am") : /\ HourOf(Stamp[s]) < HourOf(now) - Delay["ah"]
                              /\ \A u \in In("ah") : HourOf(Stamp[u]) < HourOf(Stamp[s])}

LEMMA SampleFacts ==
    ASSUME ShapeInv, NEW s
    PROVE  /\ s \in stored => s \in Samples /\ Stamp[s] \in Nat /\ Hour <= Stamp[s] /\ Stamp[s] > 0
           /\ s \in In("d") \/ s \in In("am") \/ s \in In("ah") => s \in stored
<1>1. s \in stored => s \in Samples
  BY DEF ShapeInv
<1>2. s \in In("d") \/ s \in In("am") \/ s \in In("ah") => s \in stored
  BY InRow
<1> QED
  BY <1>1, <1>2, Stamps

LEMMA MinutesTaken ==
    ASSUME ShapeInv
    PROVE  /\ rows["am"] # None =>
                {s \in In("d") : Old("am", Stamp[s]) /\ Span("am", Stamp[s]) > Last("am")} = NewMinutes
           /\ rows["am"] = None => {s \in In("d") : Old("am", Stamp[s])} = NewMinutes
<1>1. ASSUME NEW s \in In("d")
      PROVE  Stamp[s] \in Nat /\ Hour <= Stamp[s] /\ (Old("am", Stamp[s]) <=> Stamp[s] < now - Delay["am"])
  BY <1>1, SampleFacts, OldFacts
<1>2. ASSUME NEW s \in In("d"), rows["am"] # None
      PROVE  Span("am", Stamp[s]) > Last("am") <=> \A u \in In("am") : Stamp[u] < Stamp[s]
  <2>1. \A u \in In("am") : Span("am", Stamp[u]) = Stamp[u]
    BY SampleFacts, SpanFacts, Numbers
  <2>2. Span("am", Stamp[s]) = Stamp[s]
    BY <1>1, SpanFacts, Numbers
  <2> QED
    BY <1>1, <1>2, <2>1, <2>2, LastSample
<1>3. rows["am"] = None => In("am") = {}
  BY DEF In
<1> QED
  BY <1>1, <1>2, <1>3 DEF NewMinutes

LEMMA HoursTaken ==
    ASSUME ShapeInv
    PROVE  /\ rows["ah"] # None =>
                {s \in In("am") : Old("ah", Stamp[s]) /\ Span("ah", Stamp[s]) > Last("ah")} = NewHours
           /\ rows["ah"] = None => {s \in In("am") : Old("ah", Stamp[s])} = NewHours
<1>1. ASSUME NEW s \in In("am")
      PROVE  /\ Stamp[s] \in Nat /\ Hour <= Stamp[s]
             /\ Old("ah", Stamp[s]) <=> HourOf(Stamp[s]) < HourOf(now) - Delay["ah"]
  BY <1>1, SampleFacts, OldFacts
<1>2. ASSUME NEW s \in In("am"), rows["ah"] # None
      PROVE  Span("ah", Stamp[s]) > Last("ah") <=> \A u \in In("ah") : HourOf(Stamp[u]) < HourOf(Stamp[s])
  <2>1. \A u \in In("ah") : Span("ah", Stamp[u]) < Span("ah", Stamp[s]) <=> HourOf(Stamp[u]) < HourOf(Stamp[s])
    BY <1>1, SampleFacts, Hours
  <2> QED
    BY <1>1, <1>2, <2>1, LastSample
<1>3. rows["ah"] = None => In("ah") = {}
  BY DEF In
<1> QED
  BY <1>1, <1>2, <1>3 DEF NewHours

Arrives(s) ==
    /\ In("d")' = In("d") \cup {s} /\ stored' = stored \cup {s} /\ now' = now
    /\ now \in Stamp[s]..(Stamp[s] + Late) /\ s \notin stored
    /\ rows'["am"] = rows["am"] /\ In("am")' = In("am") /\ In("ah")' = In("ah")

Stays ==
    /\ stored' = stored /\ now' \in {now, now + 1} /\ rows'["am"] = rows["am"]
    /\ In("d")' = In("d") /\ In("am")' = In("am") /\ In("ah")' = In("ah")

FillsMinutes ==
    /\ stored' = stored /\ now' = now /\ rows'["am"] # None
    /\ In("d")' = In("d") /\ In("am")' = In("am") \cup NewMinutes /\ In("ah")' = In("ah")

FillsHours ==
    /\ stored' = stored /\ now' = now /\ rows'["am"] = rows["am"] /\ rows["am"] # None
    /\ resumed' \/ \E b \in Backends : AmDone(backend[b])
    /\ In("d")' = In("d") /\ In("am")' = In("am") /\ In("ah")' = In("ah") \cup NewHours

Purges(t) ==
    /\ stored' = stored /\ now' = now /\ (rows'["am"] # None <=> rows["am"] # None)
    /\ In(t)' = {s \in In(t) : ~ Expired(t, Stamp[s])}
    /\ \A u \in {"d", "am", "ah"} \ {t} : In(u)' = In(u)
    /\ t = "d" => \E b \in Backends : AmDone(backend[b]) /\ backend[b].pc = "turn"
    /\ t = "am" => \E b \in Backends : AhDone(backend[b])

LEMMA SampleSteps ==
    ASSUME ShapeInv, [Next]_vars, Aligned
    PROVE  \/ \E s \in Samples : Arrives(s)
           \/ Stays \/ FillsMinutes \/ FillsHours
           \/ \E t \in {"d", "am", "ah"} : Purges(t)
<1>0. /\ DOMAIN rows = Tables /\ Source["am"] = "d" /\ Source["ah"] = "am" /\ rows["d"] # None
      /\ {"d", "am", "ah"} \subseteq Tables /\ "d" \notin Levels
  BY LevelFacts, Numbers DEF ShapeInv, RowsOK
<1>1. ASSUME NEW s \in Samples, Store(s) PROVE Arrives(s)
  BY <1>1, StoredSample, InSame, Numbers DEF Arrives
<1>2. CASE UNCHANGED <<rows, stored>> /\ now' \in {now, now + 1}
  BY <1>2, InSame DEF Stays
<1>3. ASSUME NEW l \in Levels, rows[l] = None, rows[Source[l]] # None,
             rows' = [rows EXCEPT ![l] = Condensed(l, AllOld(l))], l \in {"am", "ah"}
      PROVE  /\ l = "am" => /\ rows'["am"] # None /\ In("d")' = In("d")
                            /\ In("am")' = In("am") \cup NewMinutes /\ In("ah")' = In("ah")
             /\ l = "ah" => /\ rows'["am"] = rows["am"] /\ rows["am"] # None /\ In("d")' = In("d")
                            /\ In("am")' = In("am") /\ In("ah")' = In("ah") \cup NewHours
  <2>1. /\ In(l)' = {s \in In(Source[l]) : Old(l, Stamp[s])} /\ rows'[l] # None
        /\ \A t \in Tables \ {l} : rows'[t] = rows[t]
    BY <1>3, CreatedSamples
  <2>2. In(l) = {}
    BY <1>3 DEF In
  <2>3. \A t \in {"d", "am", "ah"} \ {l} : In(t)' = In(t)
    BY <1>0, <2>1, InSame
  <2>4. CASE l = "am"
    BY <1>0, <1>3, <2>1, <2>2, <2>3, <2>4, MinutesTaken
  <2>5. CASE l = "ah"
    BY <1>0, <1>3, <2>1, <2>2, <2>3, <2>5, HoursTaken
  <2> QED
    BY <1>3, <2>4, <2>5
<1>4. ASSUME NEW l \in Levels, rows[l] # None, rows[Source[l]] # None,
             rows' = [rows EXCEPT ![l] = rows[l] \cup Added(l)], l \in {"am", "ah"}
      PROVE  /\ l = "am" => /\ rows'["am"] # None /\ In("d")' = In("d")
                            /\ In("am")' = In("am") \cup NewMinutes /\ In("ah")' = In("ah")
             /\ l = "ah" => /\ rows'["am"] = rows["am"] /\ rows["am"] # None /\ In("d")' = In("d")
                            /\ In("am")' = In("am") /\ In("ah")' = In("ah") \cup NewHours
  <2>1. /\ In(l)' = In(l) \cup {s \in In(Source[l]) : Old(l, Stamp[s]) /\ Span(l, Stamp[s]) > Last(l)}
        /\ rows'[l] # None /\ \A t \in Tables \ {l} : rows'[t] = rows[t]
    BY <1>4, AddedSamples
  <2>3. \A t \in {"d", "am", "ah"} \ {l} : In(t)' = In(t)
    BY <1>0, <2>1, InSame
  <2>4. CASE l = "am"
    BY <1>0, <1>4, <2>1, <2>3, <2>4, MinutesTaken
  <2>5. CASE l = "ah"
    BY <1>0, <1>4, <2>1, <2>3, <2>5, HoursTaken
  <2> QED
    BY <1>4, <2>4, <2>5
<1>5. ASSUME NEW t \in {"d", "am", "ah"}, rows[t] # None,
             rows' = [rows EXCEPT ![t] = {r \in rows[t] : ~ Expired(t, r.at)}]
      PROVE  /\ In(t)' = {s \in In(t) : ~ Expired(t, Stamp[s])}
             /\ \A u \in {"d", "am", "ah"} \ {t} : In(u)' = In(u)
             /\ rows'["am"] # None <=> rows["am"] # None
  <2>1. /\ In(t)' = {s \in In(t) : ~ Expired(t, IF t = "ah" THEN Span("ah", Stamp[s]) ELSE Stamp[s])}
        /\ rows'[t] # None /\ \A u \in Tables \ {t} : rows'[u] = rows[u]
    BY <1>5, PurgedSamples
  <2>2. \A s \in In("ah") : Expired("ah", Span("ah", Stamp[s])) <=> Expired("ah", Stamp[s])
    BY <1>0, SampleFacts, HourExpires, Clock
  <2>3. \A u \in {"d", "am", "ah"} \ {t} : In(u)' = In(u)
    BY <1>0, <2>1, InSame
  <2>4. In(t)' = {s \in In(t) : ~ Expired(t, Stamp[s])}
    BY <2>1, <2>2
  <2> QED
    BY <1>0, <1>5, <2>1, <2>3, <2>4
<1>6. ASSUME NEW tab, rows' = [rows EXCEPT !["ad"] = tab]
      PROVE  /\ rows'["am"] = rows["am"]
             /\ In("d")' = In("d") /\ In("am")' = In("am") /\ In("ah")' = In("ah")
  <2>1. \A t \in {"d", "am", "ah"} : rows'[t] = rows[t]
    BY <1>0, <1>6
  <2> QED
    BY <2>1, InSame
<1>7. Levels = {"am", "ah", "ad"} /\ Tables = {"d", "am", "ah", "ad"}
  BY DEF Levels, Tables
<1>8. ASSUME UNCHANGED <<now, stored>>, NEW l \in Levels, rows[l] = None, rows[Source[l]] # None,
             rows' = [rows EXCEPT ![l] = Condensed(l, AllOld(l))],
             l = "ah" => resumed' \/ \E b \in Backends : AmDone(backend[b])
      PROVE  Stays \/ FillsMinutes \/ FillsHours
  <2>1. CASE l = "ad"
    BY <1>6, <1>8, <2>1 DEF Stays
  <2>2. CASE l = "am"
    BY <1>3, <1>8, <2>2 DEF FillsMinutes
  <2>3. CASE l = "ah"
    BY <1>3, <1>8, <2>3 DEF FillsHours
  <2> QED
    BY <1>7, <2>1, <2>2, <2>3
<1>9. ASSUME UNCHANGED <<now, stored>>, NEW l \in Levels, rows[l] # None, rows[Source[l]] # None,
             rows' = [rows EXCEPT ![l] = rows[l] \cup Added(l)],
             l = "ah" => \E b \in Backends : AmDone(backend[b])
      PROVE  Stays \/ FillsMinutes \/ FillsHours
  <2>1. CASE l = "ad"
    BY <1>6, <1>9, <2>1 DEF Stays
  <2>2. CASE l = "am"
    BY <1>4, <1>9, <2>2 DEF FillsMinutes
  <2>3. CASE l = "ah"
    BY <1>4, <1>9, <2>3 DEF FillsHours
  <2> QED
    BY <1>7, <2>1, <2>2, <2>3
<1>10. ASSUME UNCHANGED <<now, stored>>, NEW t \in Tables, rows[t] # None,
              rows' = [rows EXCEPT ![t] = {r \in rows[t] : ~ Expired(t, r.at)}],
              t = "d" => \E b \in Backends : AmDone(backend[b]) /\ backend[b].pc = "turn",
              t = "am" => \E b \in Backends : AhDone(backend[b])
       PROVE  Stays \/ \E u \in {"d", "am", "ah"} : Purges(u)
  <2>1. CASE t = "ad"
    BY <1>6, <1>10, <2>1 DEF Stays
  <2>2. CASE t \in {"d", "am", "ah"}
    BY <1>5, <1>10, <2>2 DEF Purges
  <2> QED
    BY <1>7, <2>1, <2>2
<1> QED
  BY <1>1, <1>2, <1>8, <1>9, <1>10, Steps

-----------------------------------------------------------------------------
(***************************************************************************)
(* The rows of hours                                                       *)
(***************************************************************************)
SameHour(s, t) == Span("ah", Stamp[s]) = Span("ah", Stamp[t])

\* A sample that am$ lacks of an hour it has some of is in d$ and later than all it has
GroupedByHour ==
    \A s \in In("am"), t \in stored \ In("am") :
        SameHour(s, t) => t \in In("d") /\ \A u \in In("am") : Stamp[u] < Stamp[t]

\* And is not older than delay_am was at time T
WholeTo(T) ==
    \A s \in In("am"), t \in stored \ In("am") : SameHour(s, t) => Stamp[t] >= T - Delay["am"]

\* ah$ has all samples of an hour or none, and it is too late for more
HourSamples ==
    ~ resumed => \A s \in In("ah") : /\ Span("ah", Stamp[s]) + Hour + Late <= now
                                     /\ \A t \in stored : SameHour(s, t) => t \in In("ah")

HourInv == /\ MinuteInv /\ GroupedByHour
           /\ \A b \in Backends : AmDone(backend[b]) => WholeTo(backend[b].fp)
           /\ HourSamples

Delays == Late <= Delay["am"] /\ Delay["am"] + Slack <= Delay["ah"] * Hour

\* d$ keeps a sample until a late thread has condensed it
KeptForMinutes == Retention["d"] > 0 => Delay["am"] + Slack <= Retention["d"] * Day

LEMMA FreshMinutes ==
    ASSUME HourInv, FillsMinutes, Aligned,
           NEW s \in In("am")', NEW t \in stored \ In("am")', SameHour(s, t)
    PROVE  /\ t \in In("d") /\ Stamp[t] >= now - Delay["am"]
           /\ \A u \in In("am")' : Stamp[u] < Stamp[t]
<1>1. /\ ShapeInv /\ DataWhole /\ GroupedByHour /\ now \in Nat /\ now' = now
      /\ In("am")' = In("am") \cup NewMinutes
  BY Clock DEF HourInv, MinuteInv, FillsMinutes
<1>2. /\ s \in stored /\ t \in stored /\ Stamp[s] \in Nat /\ Stamp[t] \in Nat
      /\ \A u \in In("am") : Stamp[u] \in Nat
      /\ t \notin In("am") /\ t \notin NewMinutes
      /\ s \in In("am") \/ s \in NewMinutes
      /\ \A u \in NewMinutes : /\ u \in In("d") /\ Stamp[u] \in Nat /\ Stamp[u] < now - Delay["am"]
                               /\ \A v \in In("am") : Stamp[v] < Stamp[u]
  BY <1>1, SampleFacts DEF NewMinutes
<1>3. t \in In("d")
  <2>1. CASE s \in In("am")
    BY <1>1, <1>2, <2>1 DEF GroupedByHour
  <2>2. CASE s \in In("d")
    <3>1. PICK c \in Nat : In("d") = {x \in stored : Stamp[x] >= c * Day}
      BY <1>1 DEF DataWhole
    <3>2. PICK e \in Int : e = c * Day
      BY Numbers
    <3>3. ~ (Stamp[s] < e)
      BY <1>2, <2>2, <3>1, <3>2
    <3>4. /\ Stamp[s] < e <=> Span("ah", Stamp[s]) < e
          /\ Stamp[t] < e <=> Span("ah", Stamp[t]) < e
      BY <1>2, <3>2, DaySide
    <3>5. ~ (Stamp[t] < e)
      BY <3>3, <3>4 DEF SameHour
    <3> QED
      BY <1>2, <3>1, <3>2, <3>5
  <2> QED
    BY <1>2, <2>1, <2>2
<1>4. ASSUME NEW u \in In("am") PROVE Stamp[u] < Stamp[t]
  <2>1. CASE s \in In("am")
    BY <1>1, <1>2, <1>4, <2>1 DEF GroupedByHour
  <2>2. CASE s \in NewMinutes
    <3>1. SUFFICES ASSUME ~ (Stamp[u] < Stamp[t]) PROVE FALSE
      OBVIOUS
    <3>2. Stamp[t] <= Stamp[u] /\ Stamp[u] <= Stamp[s]
      BY <1>2, <1>4, <2>2, <3>1
    <3>3. /\ Span("ah", Stamp[t]) <= Span("ah", Stamp[u]) /\ Span("ah", Stamp[u]) <= Span("ah", Stamp[s])
          /\ Span("ah", Stamp[t]) \in Nat /\ Span("ah", Stamp[u]) \in Nat
      BY <1>2, <3>2, Hours
    <3>4. SameHour(u, t)
      BY <3>3 DEF SameHour
    <3> QED
      BY <1>1, <1>2, <3>1, <3>4 DEF GroupedByHour
  <2> QED
    BY <1>2, <2>1, <2>2
<1>5. Stamp[t] >= now - Delay["am"]
  BY <1>1, <1>2, <1>3, <1>4, Numbers DEF NewMinutes
<1>6. ASSUME NEW u \in NewMinutes PROVE Stamp[u] < Stamp[t]
  BY <1>1, <1>2, <1>5, <1>6, Numbers
<1> QED
  BY <1>1, <1>3, <1>4, <1>5, <1>6

\* A purge of d$ takes no sample that the thread which does it would miss
LEMMA DataExpires ==
    ASSUME ShapeInv, KeptForMinutes, NEW b \in Backends, AmDone(backend[b]), NEW t \in Nat, Expired("d", t)
    PROVE  t < backend[b].fp - Delay["am"]
<1>1. PICK f \in Nat : f = backend[b].fp /\ now <= f + Slack
  BY PlaceFacts
<1>2. PICK k \in Nat : k = now \div Day /\ k * Day <= now
  BY Clock, DivFacts, Numbers
<1>3. PICK n \in Nat : n = Retention["d"]
  BY Numbers
<1>4. n > 0 /\ t < (k - n) * Day
  BY <1>2, <1>3 DEF Expired
<1>5. Delay["am"] + Slack <= n * Day
  BY <1>3, <1>4 DEF KeptForMinutes
<1>6. (k - n) * Day = k * Day - n * Day /\ n * Day \in Int /\ k * Day \in Int
  BY Numbers
<1>7. now \in Nat
  BY Clock
<1> QED
  BY <1>1, <1>2, <1>4, <1>5, <1>6, <1>7, Numbers

\* A sample that is stored late is later than all rows
LEMMA LateMinute ==
    ASSUME MinuteInv, NEW x \in Samples, Arrives(x), NEW u \in In("am") PROVE Stamp[u] < Stamp[x]
<1>0. ShapeInv /\ MinuteRows /\ now \in Nat
  BY Clock DEF MinuteInv
<1>1. now \in Stamp[x]..(Stamp[x] + Late) /\ Stamp[x] \in Nat
  BY Stamps DEF Arrives
<1>2. PICK r \in rows["am"] : u \in r.of /\ rows["am"] # None /\ Stamp[u] \in Nat
  BY <1>0, InRow
<1>3. r.at = Stamp[u] /\ r.at + Late < now
  BY <1>0, <1>2, InRow DEF MinuteRows
<1> QED
  BY <1>0, <1>1, <1>2, <1>3, Numbers

LEMMA GroupedKept ==
    ASSUME HourInv, [Next]_vars, Aligned, Delays, KeptForMinutes PROVE GroupedByHour'
<1>0. /\ ShapeInv /\ GroupedByHour /\ MinuteInv /\ now \in Nat
      /\ \A b \in Backends : AmDone(backend[b]) => WholeTo(backend[b].fp)
  BY Clock DEF HourInv, MinuteInv
<1>1. SUFFICES ASSUME NEW s \in In("am")', NEW t \in stored' \ In("am")', SameHour(s, t)
               PROVE  t \in In("d")' /\ \A u \in In("am")' : Stamp[u] < Stamp[t]
  BY DEF GroupedByHour, SameHour
<1>2. ASSUME NEW x \in Samples, Arrives(x)
      PROVE  t \in In("d")' /\ \A u \in In("am")' : Stamp[u] < Stamp[t]
  <2>1. /\ In("d")' = In("d") \cup {x} /\ stored' = stored \cup {x} /\ In("am")' = In("am")
        /\ now \in Stamp[x]..(Stamp[x] + Late) /\ Stamp[x] \in Nat
    BY <1>2, Stamps DEF Arrives
  <2>2. CASE t \in stored
    BY <1>0, <1>1, <2>1, <2>2 DEF GroupedByHour
  <2>3. CASE t = x
    <3>1. \A u \in In("am") : Stamp[u] < Stamp[x]
      BY <1>0, <1>2, LateMinute
    <3> QED
      BY <2>1, <2>3, <3>1
  <2> QED
    BY <1>1, <2>1, <2>2, <2>3
<1>3. CASE Stays \/ FillsHours
  BY <1>0, <1>1, <1>3 DEF Stays, FillsHours, GroupedByHour
<1>4. CASE FillsMinutes
  <2>1. stored' = stored /\ In("d")' = In("d")
    BY <1>4 DEF FillsMinutes
  <2> QED
    BY <1>1, <1>4, <2>1, FreshMinutes
<1>5. CASE Purges("d")
  <2>1. /\ stored' = stored /\ In("am")' = In("am") /\ In("d")' = {x \in In("d") : ~ Expired("d", Stamp[x])}
    BY <1>5 DEF Purges
  <2>2. PICK b \in Backends : AmDone(backend[b])
    BY <1>5 DEF Purges
  <2>3. Stamp[t] \in Nat /\ t \in stored /\ s \in In("am") /\ t \notin In("am")
    BY <1>0, <1>1, <2>1, SampleFacts
  <2>4. Stamp[t] >= backend[b].fp - Delay["am"] /\ backend[b].fp \in Nat
    BY <1>0, <1>1, <2>2, <2>3, PlaceFacts DEF WholeTo
  <2>5. ~ Expired("d", Stamp[t])
    BY <1>0, <2>2, <2>3, <2>4, DataExpires, Numbers
  <2>6. t \in In("d") /\ \A u \in In("am") : Stamp[u] < Stamp[t]
    BY <1>0, <1>1, <2>3 DEF GroupedByHour
  <2> QED
    BY <2>1, <2>5, <2>6
<1>6. CASE Purges("am")
  <2>1. /\ stored' = stored /\ In("d")' = In("d") /\ In("am")' = {x \in In("am") : ~ Expired("am", Stamp[x])}
    BY <1>6 DEF Purges
  <2>2. Stamp[t] \in Nat /\ Stamp[s] \in Nat /\ t \in stored /\ s \in In("am") /\ ~ Expired("am", Stamp[s])
    BY <1>0, <1>1, <2>1, SampleFacts
  <2>3. t \notin In("am")
    BY <1>0, <1>1, <2>1, <2>2, HourExpires, Numbers DEF SameHour
  <2> QED
    BY <1>0, <1>1, <2>1, <2>2, <2>3 DEF GroupedByHour
<1>7. CASE Purges("ah")
  BY <1>0, <1>1, <1>7 DEF Purges, GroupedByHour
<1> QED
  BY <1>0, <1>2, <1>3, <1>4, <1>5, <1>6, <1>7, SampleSteps

LEMMA WholeKept ==
    ASSUME HourInv, [Next]_vars, Aligned, Delays, NEW T \in Nat, T <= now,
           WholeTo(T) \/ FillsMinutes,
           NEW s \in In("am")', NEW t \in stored' \ In("am")', SameHour(s, t)
    PROVE  Stamp[t] >= T - Delay["am"]
<1>0. ShapeInv /\ now \in Nat
  BY Clock DEF HourInv, MinuteInv
<1>1. CASE FillsMinutes
  <2>1. stored' = stored
    BY <1>1 DEF FillsMinutes
  <2>2. Stamp[t] >= now - Delay["am"] /\ Stamp[t] \in Nat
    BY <1>0, <1>1, <2>1, FreshMinutes, SampleFacts
  <2> QED
    BY <1>0, <2>2, Numbers
<1>2. ASSUME WholeTo(T), NEW x \in Samples, Arrives(x) PROVE Stamp[t] >= T - Delay["am"]
  <2>1. /\ stored' = stored \cup {x} /\ In("am")' = In("am")
        /\ now \in Stamp[x]..(Stamp[x] + Late) /\ Stamp[x] \in Nat
    BY <1>2, Stamps DEF Arrives
  <2>2. CASE t \in stored
    BY <1>2, <2>1, <2>2 DEF WholeTo
  <2>3. CASE t = x
    BY <1>0, <2>1, <2>3, Numbers DEF Delays
  <2> QED
    BY <2>1, <2>2, <2>3
<1>3. ASSUME WholeTo(T), Stays \/ FillsHours \/ Purges("d") \/ Purges("ah") PROVE Stamp[t] >= T - Delay["am"]
  <2>1. stored' = stored /\ In("am")' = In("am")
    BY <1>3 DEF Stays, FillsHours, Purges
  <2> QED
    BY <1>3, <2>1 DEF WholeTo
<1>4. ASSUME WholeTo(T), Purges("am") PROVE Stamp[t] >= T - Delay["am"]
  <2>1. /\ stored' = stored /\ In("am")' = {x \in In("am") : ~ Expired("am", Stamp[x])}
    BY <1>4 DEF Purges
  <2>2. Stamp[t] \in Nat /\ Stamp[s] \in Nat /\ t \in stored /\ s \in In("am") /\ ~ Expired("am", Stamp[s])
    BY <1>0, <2>1, SampleFacts
  <2>3. t \notin In("am")
    BY <1>0, <2>1, <2>2, HourExpires, Numbers DEF SameHour
  <2> QED
    BY <1>4, <2>2, <2>3 DEF WholeTo
<1> QED
  BY <1>0, <1>1, <1>2, <1>3, <1>4, SampleSteps

-----------------------------------------------------------------------------
LEMMA PlaceSteps ==
    ASSUME ShapeInv, [Next]_vars, Aligned, NEW b \in Backends
    PROVE  /\ AmDone(backend'[b]) =>
                 \/ rows'["am"] = None /\ In("am")' = {} /\ backend'[b].pc # "turn"
                 \/ /\ backend'[b].fp = backend[b].fp /\ backend[b].fp \in Nat /\ backend[b].fp <= now
                    /\ \/ AmDone(backend[b]) /\ (backend'[b].pc = "turn" => backend[b].pc = "turn")
                       \/ FillsMinutes
           /\ AhDone(backend'[b]) =>
                 /\ backend'[b].fp = backend[b].fp /\ backend[b].fp \in Nat /\ backend[b].fp <= now
                 /\ AhDone(backend[b]) \/ (FillsHours /\ AmDone(backend[b]))
<1>0. Source["am"] = "d" /\ Source["ah"] = "am" /\ {"d", "am", "ah"} \subseteq Tables
  BY LevelFacts, Numbers
<1>1. ASSUME rows["am"] = None, rows' = rows PROVE rows'["am"] = None /\ In("am")' = {}
  BY <1>1 DEF In
<1>2. ASSUME rows["am"] # None, rows["d"] # None, UNCHANGED <<now, stored>>,
             rows' = [rows EXCEPT !["am"] = rows["am"] \cup Added("am")]
      PROVE  FillsMinutes
  <2>1. /\ In("am")' = In("am") \cup {s \in In("d") : Old("am", Stamp[s]) /\ Span("am", Stamp[s]) > Last("am")}
        /\ rows'["am"] # None /\ \A t \in Tables \ {"am"} : rows'[t] = rows[t]
    BY <1>0, <1>2, AddedSamples
  <2>2. In("d")' = In("d") /\ In("ah")' = In("ah")
    BY <1>0, <2>1, InSame
  <2> QED
    BY <1>2, <2>1, <2>2, MinutesTaken DEF FillsMinutes
<1>3. ASSUME AmDone(backend[b]), rows["ah"] # None, rows["am"] # None, UNCHANGED <<now, stored>>,
             rows' = [rows EXCEPT !["ah"] = rows["ah"] \cup Added("ah")]
      PROVE  FillsHours
  <2>1. /\ In("ah")' = In("ah") \cup {s \in In("am") : Old("ah", Stamp[s]) /\ Span("ah", Stamp[s]) > Last("ah")}
        /\ rows'["ah"] # None /\ \A t \in Tables \ {"ah"} : rows'[t] = rows[t]
    BY <1>0, <1>3, AddedSamples
  <2>2. In("d")' = In("d") /\ In("am")' = In("am") /\ rows'["am"] = rows["am"]
    BY <1>0, <2>1, InSame
  <2> QED
    BY <1>3, <2>1, <2>2, HoursTaken DEF FillsHours
<1> QED
  BY <1>1, <1>2, <1>3, ThreadSteps

\* An hour that is old has ended, and its minutes are older than delay_am, for whoever
\* has filled am$ in this turn
LEMMA OldHour ==
    ASSUME ShapeInv, Delays, NEW t \in Nat, HourOf(t) < HourOf(now) - Delay["ah"]
    PROVE  Span("ah", t) + Hour + Late <= now /\ t + Delay["am"] + Slack < now
<1>1. PICK h, k \in Nat : h = HourOf(t) /\ k = HourOf(now) /\ now \in Nat
  BY Clock, Hours
<1>2. PICK d \in Nat : d = Delay["ah"]
  BY Numbers
<1>3. h + 1 <= k - d
  BY <1>1, <1>2
<1>4. (h + 1) * Hour <= (k - d) * Hour
  BY <1>3, MulMono, Numbers
<1>5. (h + 1) * Hour = h * Hour + Hour /\ (k - d) * Hour = k * Hour - d * Hour
  BY Numbers
<1>6. h * Hour \in Int /\ k * Hour \in Int /\ d * Hour \in Int
  BY Numbers
<1>7. Span("ah", t) = h * Hour /\ t < Span("ah", t) + Hour
  BY <1>1, Hours
<1>8. k * Hour <= now
  BY <1>1, Hours
<1>9. Delay["am"] + Slack <= d * Hour /\ Late <= Delay["am"]
  BY <1>2 DEF Delays
<1> QED
  BY <1>1, <1>4, <1>5, <1>6, <1>7, <1>8, <1>9, Numbers

LEMMA HoursKept ==
    ASSUME HourInv, [Next]_vars, Aligned, Delays PROVE HourSamples'
<1> SUFFICES ASSUME ~ resumed' PROVE \A s \in In("ah")' : /\ Span("ah", Stamp[s]) + Hour + Late <= now'
                                                          /\ \A t \in stored' : SameHour(s, t) => t \in In("ah")'
  BY DEF HourSamples, SameHour
<1>0. /\ ShapeInv /\ now \in Nat /\ ~ resumed
      /\ \A b \in Backends : AmDone(backend[b]) => WholeTo(backend[b].fp)
      /\ \A s \in In("ah") : /\ s \in stored /\ Stamp[s] \in Nat /\ Span("ah", Stamp[s]) \in Nat
                             /\ Span("ah", Stamp[s]) + Hour + Late <= now
                             /\ \A t \in stored : SameHour(s, t) => t \in In("ah")
  BY Clock, ResumedStays, SampleFacts, Hours DEF HourInv, MinuteInv, HourSamples
<1>1. ASSUME NEW x \in Samples, Arrives(x), NEW s \in In("ah")'
      PROVE  /\ Span("ah", Stamp[s]) + Hour + Late <= now'
             /\ \A t \in stored' : SameHour(s, t) => t \in In("ah")'
  <2>1. /\ stored' = stored \cup {x} /\ In("ah")' = In("ah") /\ now' = now
        /\ now \in Stamp[x]..(Stamp[x] + Late) /\ Stamp[x] \in Nat
    BY <1>1, Stamps DEF Arrives
  <2>2. ~ SameHour(s, x)
    <3>1. Stamp[x] < Span("ah", Stamp[x]) + Hour
      BY <2>1, Hours
    <3> QED
      BY <1>0, <1>1, <2>1, <3>1, Numbers DEF SameHour
  <2> QED
    BY <1>0, <1>1, <2>1, <2>2
<1>2. ASSUME Stays \/ FillsMinutes \/ Purges("d") \/ Purges("am"), NEW s \in In("ah")'
      PROVE  /\ Span("ah", Stamp[s]) + Hour + Late <= now'
             /\ \A t \in stored' : SameHour(s, t) => t \in In("ah")'
  <2>1. stored' = stored /\ In("ah")' = In("ah") /\ now' \in {now, now + 1}
    BY <1>2 DEF Stays, FillsMinutes, Purges
  <2>2. Span("ah", Stamp[s]) + Hour + Late <= now'
    BY <1>0, <1>2, <2>1, Numbers
  <2> QED
    BY <1>0, <1>2, <2>1, <2>2
<1>3. ASSUME Purges("ah"), NEW s \in In("ah")'
      PROVE  /\ Span("ah", Stamp[s]) + Hour + Late <= now'
             /\ \A t \in stored' : SameHour(s, t) => t \in In("ah")'
  <2>1. stored' = stored /\ now' = now /\ In("ah")' = {x \in In("ah") : ~ Expired("ah", Stamp[x])}
    BY <1>3 DEF Purges
  <2>2. ASSUME NEW t \in stored, SameHour(s, t) PROVE ~ Expired("ah", Stamp[t])
    BY <1>0, <1>3, <2>1, <2>2, SampleFacts, HourExpires, Numbers DEF SameHour
  <2> QED
    BY <1>0, <1>3, <2>1, <2>2
<1>4. ASSUME FillsHours, NEW s \in In("ah")'
      PROVE  /\ Span("ah", Stamp[s]) + Hour + Late <= now'
             /\ \A t \in stored' : SameHour(s, t) => t \in In("ah")'
  <2>1. stored' = stored /\ now' = now /\ In("ah")' = In("ah") \cup NewHours
    BY <1>4 DEF FillsHours
  <2>2. PICK b \in Backends : AmDone(backend[b])
    BY <1>4 DEF FillsHours
  <2>3. PICK f \in Nat : f = backend[b].fp /\ now <= f + Slack
    BY <1>0, <2>2, PlaceFacts
  <2>4. CASE s \in In("ah")
    BY <1>0, <2>1, <2>4
  <2>5. CASE s \in NewHours
    <3>1. /\ s \in In("am") /\ Stamp[s] \in Nat /\ HourOf(Stamp[s]) < HourOf(now) - Delay["ah"]
          /\ \A u \in In("ah") : HourOf(Stamp[u]) < HourOf(Stamp[s])
      BY <1>0, <2>5, SampleFacts DEF NewHours
    <3>2. Span("ah", Stamp[s]) + Hour + Late <= now
      BY <1>0, <3>1, OldHour
    <3>3. ASSUME NEW t \in stored, SameHour(s, t) PROVE t \in NewHours
      <4>1. Stamp[t] \in Nat /\ HourOf(Stamp[t]) = HourOf(Stamp[s])
        BY <1>0, <3>1, <3>3, SampleFacts, Hours DEF SameHour
      <4>2. Stamp[t] + Delay["am"] + Slack < now
        BY <1>0, <3>1, <4>1, OldHour
      <4>3. t \in In("am")
        <5>1. SUFFICES ASSUME t \notin In("am") PROVE FALSE
          OBVIOUS
        <5>2. Stamp[t] >= f - Delay["am"]
          BY <1>0, <2>2, <2>3, <3>1, <3>3, <5>1 DEF WholeTo
        <5> QED
          BY <1>0, <2>3, <4>1, <4>2, <5>2, Numbers
      <4> QED
        BY <3>1, <4>1, <4>3 DEF NewHours
    <3> QED
      BY <2>1, <3>2, <3>3
  <2> QED
    BY <1>4, <2>1, <2>4, <2>5
<1> QED
  BY <1>0, <1>1, <1>2, <1>3, <1>4, SampleSteps

LEMMA MinuteStep ==
    ASSUME MinuteInv, [Next]_vars, Kept, Late <= Delay["am"] PROVE MinuteInv'
BY StepShape, DataKept, MinutesKept DEF MinuteInv

LEMMA HourStep ==
    ASSUME HourInv, [Next]_vars, Aligned, Delays, KeptForMinutes PROVE HourInv'
<1>0. ShapeInv /\ MinuteInv /\ now \in Nat
  BY Clock DEF HourInv, MinuteInv
<1>1. Kept /\ Late <= Delay["am"]
  <2>1. Retention["d"] > 0 => Delay["am"] + Slack <= Retention["d"] * Day
    BY DEF KeptForMinutes
  <2>2. Retention["d"] * Day \in Int
    BY Numbers
  <2> QED
    BY <2>1, <2>2, Numbers DEF Kept, Delays
<1>2. MinuteInv'
  BY <1>0, <1>1, MinuteStep
<1>3. ASSUME NEW b \in Backends, AmDone(backend'[b]) PROVE WholeTo(backend[b].fp)'
  <2>1. PICK T : T = backend'[b].fp
    OBVIOUS
  <2>2. ASSUME NEW s \in In("am")', NEW t \in stored' \ In("am")', SameHour(s, t)
        PROVE  Stamp[t] >= T - Delay["am"]
    <3>1. /\ T = backend[b].fp /\ T \in Nat /\ T <= now
          /\ AmDone(backend[b]) \/ FillsMinutes
      BY <1>0, <1>3, <2>1, <2>2, PlaceSteps
    <3>2. WholeTo(T) \/ FillsMinutes
      BY <3>1 DEF HourInv
    <3> QED
      BY <2>2, <3>1, <3>2, WholeKept
  <2> QED
    BY <2>1, <2>2 DEF WholeTo, SameHour
<1>4. GroupedByHour' /\ HourSamples'
  BY GroupedKept, HoursKept
<1> QED
  BY <1>2, <1>3, <1>4 DEF HourInv, AmDone

LEMMA InitEmpty ==
    ASSUME Init
    PROVE  /\ MinuteInv /\ stored = {} /\ In("d") = {} /\ In("am") = {} /\ In("ah") = {}
           /\ rows["am"] = None
           /\ \A b \in Backends : ~ AmDone(backend[b]) /\ ~ AhDone(backend[b])
<1>1. In("d") = {} /\ In("am") = {} /\ In("ah") = {} /\ stored = {} /\ rows["am"] = None
  BY LevelFacts, Numbers DEF Init, In
<1>2. MinuteInv
  BY <1>1, InitShape DEF MinuteInv, DataWhole, MinuteRows
<1>3. \A b \in Backends : backend[b].pc = "off"
  BY DEF Init, Off
<1> QED
  BY <1>1, <1>2, <1>3 DEF AmDone, AhDone

LEMMA HourInvariant == ASSUME Aligned, Delays, KeptForMinutes PROVE Spec => []HourInv
<1>1. Init => HourInv
  BY InitEmpty DEF HourInv, GroupedByHour, HourSamples
<1>2. HourInv /\ [Next]_vars => HourInv'
  BY HourStep
<1> QED
  BY <1>1, <1>2, PTL DEF Spec

\* If days are of whole hours and d$ keeps a sample until a late thread has condensed it:
\* with delays that are Sound the row of an hour has all samples of that hour, in every
\* order of creating, filling and purging by all backends, and with every failure.
THEOREM HoursExact == ASSUME Aligned, KeptForMinutes PROVE Spec => []HourExact
<1>1. CASE Delays
  <2>1. HourInv => HourExact
    <3> SUFFICES ASSUME HourInv, ~ resumed, rows["ah"] # None, NEW r \in rows["ah"]
                 PROVE  r.of = {s \in stored : Span("ah", Stamp[s]) = r.at}
      BY DEF HourExact, Sound
    <3>1. /\ ShapeInv /\ TableOK("ah", rows["ah"], stored)
          /\ \A s \in In("ah") : \A t \in stored : SameHour(s, t) => t \in In("ah")
      BY Numbers DEF HourInv, MinuteInv, HourSamples, ShapeInv, RowsOK
    <3>2. \A s \in r.of : s \in stored /\ s \in In("ah") /\ Span("ah", Stamp[s]) = r.at
      BY <3>1, InRow
    <3>3. ASSUME NEW t \in stored, Span("ah", Stamp[t]) = r.at PROVE t \in r.of
      <4>1. PICK s : s \in r.of
        BY <3>1 DEF TableOK
      <4>2. t \in In("ah")
        BY <3>1, <3>2, <3>3, <4>1 DEF SameHour
      <4>3. PICK r2 \in rows["ah"] : t \in r2.of
        BY <3>1, <4>2, InRow
      <4>4. r2.at = r.at
        BY <3>1, <3>3, <4>3, InRow
      <4> QED
        BY <3>1, <4>3, <4>4 DEF TableOK
    <3> QED
      BY <3>2, <3>3
  <2>2. Spec => []HourInv
    BY <1>1, HourInvariant
  <2> QED
    BY <2>1, <2>2, PTL
<1>2. CASE ~ Delays
  <2>1. HourExact
    BY <1>2 DEF HourExact, Sound, Delays
  <2> QED
    BY <2>1, PTL
<1> QED
  BY <1>1, <1>2

-----------------------------------------------------------------------------
(***************************************************************************)
(* No sample is purged before it is condensed                              *)
(***************************************************************************)
Safe(s) == s \in In("ah") \/ Expired("ah", Stamp[s])

Held == \A s \in stored : s \in In("d") \/ s \in In("am") \/ Safe(s)

\* What is not later than a sample of am$ has been there, or will not be missed
MinutesHeld == \A s \in stored, u \in In("am") : Stamp[s] <= Stamp[u] => s \in In("am") \/ Safe(s)

HoursHeld == \A s \in stored, u \in In("ah") : HourOf(Stamp[s]) <= HourOf(Stamp[u]) => Safe(s)

\* am$ was filled at time T, or later
FilledTo(T) ==
    rows["am"] # None => \A s \in stored : Stamp[s] < T - Delay["am"] => s \in In("am") \/ Safe(s)

\* And ah$
HoursFilledTo(T) == \A s \in stored : HourOf(Stamp[s]) < HourOf(T) - Delay["ah"] => Safe(s)

LostInv ==
    /\ HourInv
    /\ ~ resumed =>
         /\ Held /\ MinutesHeld /\ HoursHeld
         /\ \A b \in Backends : /\ AmDone(backend[b]) => FilledTo(backend[b].fp)
                                /\ AmDone(backend[b]) /\ backend[b].pc = "turn" => rows["am"] # None
                                /\ AhDone(backend[b]) => HoursFilledTo(backend[b].fp)

\* am$ keeps a row until a late thread has condensed it
KeptForHours == Retention["am"] > 0 => Delay["ah"] * Hour + Slack <= Retention["am"] * Day

LEMMA LostFacts ==
    ASSUME LostInv, [Next]_vars, ~ resumed'
    PROVE  /\ HourInv /\ MinuteInv /\ ShapeInv /\ now \in Nat /\ ~ resumed
           /\ Held /\ MinutesHeld /\ HoursHeld
           /\ \A b \in Backends : /\ AmDone(backend[b]) => FilledTo(backend[b].fp)
                                  /\ AmDone(backend[b]) /\ backend[b].pc = "turn" => rows["am"] # None
                                  /\ AhDone(backend[b]) => HoursFilledTo(backend[b].fp)
           /\ \A s \in stored : Stamp[s] \in Nat
<1>1. ShapeInv
  BY DEF LostInv, HourInv, MinuteInv
<1> QED
  BY <1>1, ResumedStays, Clock, SampleFacts DEF LostInv, HourInv, MinuteInv

\* What has expired stays so
LEMMA ExpiredKept ==
    ASSUME ShapeInv, [Next]_vars, Aligned, NEW t \in Tables, NEW e \in Nat, Expired(t, e) PROVE Expired(t, e)'
<1>1. now \in Nat /\ now' \in {now, now + 1}
  BY Clock, SampleSteps DEF Arrives, Stays, FillsMinutes, FillsHours, Purges
<1>2. PICK k, m \in Nat : k = now \div Day /\ m = now' \div Day /\ k <= m
  <2>1. PICK n \in Nat : n = now' /\ now <= n
    BY <1>1
  <2>2. now \div Day \in Nat /\ n \div Day \in Nat /\ now \div Day <= n \div Day
    BY <1>1, <2>1, DivFacts, DivMono, Numbers
  <2> QED
    BY <2>1, <2>2
<1>3. PICK n \in Nat : n = Retention[t]
  BY AggregationAssumption
<1>4. (k - n) * Day <= (m - n) * Day
  <2>1. k - n <= m - n /\ k - n \in Int /\ m - n \in Int
    BY <1>2
  <2> QED
    BY <2>1, MulMono, Numbers
<1>5. (k - n) * Day \in Int /\ (m - n) * Day \in Int
  BY Numbers
<1>6. n > 0 /\ e < (k - n) * Day
  BY <1>2, <1>3 DEF Expired
<1>7. e < (m - n) * Day
  BY <1>4, <1>5, <1>6
<1> QED
  BY <1>2, <1>3, <1>6, <1>7 DEF Expired

\* Who is safe stays safe
LEMMA SafeKept ==
    ASSUME ShapeInv, [Next]_vars, Aligned, NEW s \in stored, Safe(s) PROVE Safe(s)'
<1>1. ASSUME Expired("ah", Stamp[s]) PROVE Expired("ah", Stamp[s])'
  <2>1. PICK e \in Nat : e = Stamp[s]
    BY SampleFacts
  <2>2. "ah" \in Tables
    BY Numbers
  <2> QED
    BY <1>1, <2>1, <2>2, ExpiredKept DEF Expired
<1>2. ASSUME s \in In("ah"), ~ Expired("ah", Stamp[s]) PROVE s \in In("ah")'
  BY <1>2, SampleSteps DEF Arrives, Stays, FillsMinutes, FillsHours, Purges
<1> QED
  BY <1>1, <1>2 DEF Safe

LEMMA LateHour ==
    ASSUME HourInv, ~ resumed, NEW x \in Samples, Arrives(x), NEW u \in In("ah")
    PROVE  HourOf(Stamp[u]) < HourOf(Stamp[x])
<1>0. ShapeInv /\ now \in Nat /\ Stamp[u] \in Nat /\ Span("ah", Stamp[u]) + Hour + Late <= now
  BY Clock, SampleFacts DEF HourInv, MinuteInv, HourSamples
<1>1. now \in Stamp[x]..(Stamp[x] + Late) /\ Stamp[x] \in Nat
  BY Stamps DEF Arrives
<1>2. PICK h, k \in Nat : h = HourOf(Stamp[u]) /\ k = HourOf(Stamp[x])
  BY <1>0, <1>1, Hours
<1>3. Span("ah", Stamp[u]) = h * Hour /\ h * Hour \in Int
  <2>1. PICK t \in Nat : t = Stamp[u]
    BY <1>0
  <2>2. Span("ah", t) = HourOf(t) * Hour
    BY Hours
  <2>3. h * Hour \in Int
    BY Numbers
  <2> QED
    BY <1>2, <2>1, <2>2, <2>3
<1>4. (h + 1) * Hour = h * Hour + Hour
  BY Numbers
<1>5. ~ (Stamp[x] < (h + 1) * Hour)
  BY <1>0, <1>1, <1>3, <1>4, Numbers
<1>6. k < h + 1 <=> Stamp[x] < (h + 1) * Hour
  BY <1>1, <1>2, Hours
<1> QED
  BY <1>2, <1>5, <1>6

\* A purge of am$ takes no sample that the thread which does it would miss
LEMMA MinutesExpire ==
    ASSUME ShapeInv, Aligned, KeptForHours, NEW b \in Backends, AhDone(backend[b]),
           NEW t \in Nat, Expired("am", t)
    PROVE  HourOf(t) < HourOf(backend[b].fp) - Delay["ah"]
<1>1. PICK f \in Nat : f = backend[b].fp /\ now <= f + Slack
  BY PlaceFacts
<1>2. PICK k \in Nat : k = now \div Day /\ k * Day <= now
  BY Clock, DivFacts, Numbers
<1>3. PICK n \in Nat : n = Retention["am"]
  BY Numbers
<1>4. n > 0 /\ t < (k - n) * Day
  BY <1>2, <1>3 DEF Expired
<1>5. PICK d \in Nat : d = Delay["ah"]
  BY Numbers
<1>6. d * Hour + Slack <= n * Day
  BY <1>3, <1>4, <1>5 DEF KeptForHours
<1>7. (k - n) * Day = k * Day - n * Day /\ n * Day \in Int /\ k * Day \in Int /\ d * Hour \in Int
  BY Numbers
<1>8. now \in Nat
  BY Clock
<1>9. PICK m \in Nat : Day = m * Hour
  BY DEF Aligned
<1>10. PICK g \in Int : g = (k - n) * m
  OBVIOUS
<1>11. (k - n) * Day = g * Hour /\ g * Hour \in Int
  BY <1>9, <1>10, Numbers
<1>12. g * Hour + d * Hour <= f
  BY <1>1, <1>2, <1>6, <1>7, <1>8, <1>11, Numbers
<1>13. (g + d) * Hour = g * Hour + d * Hour
  BY Numbers
<1>14. ~ (f < (g + d) * Hour)
  BY <1>11, <1>12, <1>13, <1>7
<1>15. ~ (HourOf(f) < g + d) /\ HourOf(f) \in Nat
  BY <1>14, Hours
<1>16. HourOf(t) < g /\ HourOf(t) \in Nat
  BY <1>4, <1>11, Hours
<1> QED
  BY <1>1, <1>5, <1>15, <1>16

\* What is filled at the time of the statement
LEMMA MinutesNow ==
    ASSUME LostInv, [Next]_vars, ~ resumed', FillsMinutes,
           NEW s \in stored, Stamp[s] < now - Delay["am"]
    PROVE  s \in In("am")' \/ Safe(s)
<1>0. ShapeInv /\ Held /\ MinutesHeld /\ Stamp[s] \in Nat /\ In("am")' = In("am") \cup NewMinutes
  BY LostFacts DEF FillsMinutes
<1>1. CASE s \in In("d")
  <2>1. CASE \E u \in In("am") : Stamp[s] <= Stamp[u]
    BY <1>0, <2>1 DEF MinutesHeld
  <2>2. CASE ~ \E u \in In("am") : Stamp[s] <= Stamp[u]
    <3>1. \A u \in In("am") : Stamp[u] < Stamp[s]
      BY <1>0, <2>2, SampleFacts
    <3> QED
      BY <1>0, <1>1, <3>1 DEF NewMinutes
  <2> QED
    BY <2>1, <2>2
<1> QED
  BY <1>0, <1>1 DEF Held

LEMMA HoursNow ==
    ASSUME LostInv, [Next]_vars, ~ resumed', Aligned, Delays, FillsHours,
           NEW s \in stored, HourOf(Stamp[s]) < HourOf(now) - Delay["ah"]
    PROVE  Safe(s)'
<1>0. /\ ShapeInv /\ HoursHeld /\ Stamp[s] \in Nat /\ now \in Nat /\ In("ah")' = In("ah") \cup NewHours
      /\ rows["am"] # None
  BY LostFacts DEF FillsHours
<1>1. PICK b \in Backends : AmDone(backend[b])
  BY DEF FillsHours
<1>2. FilledTo(backend[b].fp) /\ backend[b].fp \in Nat /\ now <= backend[b].fp + Slack
  BY <1>0, <1>1, LostFacts, PlaceFacts
<1>3. Stamp[s] + Delay["am"] + Slack < now
  BY <1>0, OldHour
<1>4. Stamp[s] < backend[b].fp - Delay["am"]
  BY <1>0, <1>2, <1>3, Numbers
<1>5. s \in In("am") \/ Safe(s)
  BY <1>0, <1>2, <1>4 DEF FilledTo
<1>6. CASE s \in In("am") /\ ~ Safe(s)
  <2>1. \A u \in In("ah") : HourOf(Stamp[u]) < HourOf(Stamp[s])
    <3>1. \A u \in In("ah") : ~ (HourOf(Stamp[s]) <= HourOf(Stamp[u]))
      BY <1>0, <1>6 DEF HoursHeld
    <3> QED
      BY <1>0, <3>1, SampleFacts, Hours
  <2> QED
    BY <1>0, <1>6, <2>1 DEF NewHours, Safe
<1> QED
  BY <1>0, <1>5, <1>6, SafeKept

-----------------------------------------------------------------------------
LEMMA HeldKept ==
    ASSUME LostInv, [Next]_vars, ~ resumed', Aligned, Delays, KeptForMinutes, KeptForHours
    PROVE  Held'
<1>0. /\ ShapeInv /\ Held /\ \A s \in stored : Stamp[s] \in Nat
      /\ \A b \in Backends : /\ AmDone(backend[b]) => FilledTo(backend[b].fp)
                             /\ AmDone(backend[b]) /\ backend[b].pc = "turn" => rows["am"] # None
                             /\ AhDone(backend[b]) => HoursFilledTo(backend[b].fp)
  BY LostFacts
<1>1. SUFFICES ASSUME NEW s \in stored' PROVE s \in In("d")' \/ s \in In("am")' \/ Safe(s)'
  BY DEF Held
<1>2. ASSUME s \in stored, Safe(s) PROVE Safe(s)'
  BY <1>0, <1>2, SafeKept
<1>3. CASE \E x \in Samples : Arrives(x)
  BY <1>0, <1>2, <1>3 DEF Arrives, Held
<1>4. CASE Stays \/ FillsMinutes \/ FillsHours \/ Purges("ah")
  BY <1>0, <1>2, <1>4 DEF Stays, FillsMinutes, FillsHours, Purges, Held
<1>5. CASE Purges("d")
  <2>1. /\ stored' = stored /\ In("am")' = In("am") /\ In("d")' = {x \in In("d") : ~ Expired("d", Stamp[x])}
    BY <1>5 DEF Purges
  <2>2. PICK b \in Backends : AmDone(backend[b]) /\ backend[b].pc = "turn"
    BY <1>5 DEF Purges
  <2>3. ASSUME Expired("d", Stamp[s]) PROVE s \in In("am") \/ Safe(s)
    <3>1. Stamp[s] < backend[b].fp - Delay["am"]
      BY <1>0, <1>1, <2>1, <2>2, <2>3, DataExpires
    <3> QED
      BY <1>0, <1>1, <2>1, <2>2, <3>1 DEF FilledTo
  <2> QED
    BY <1>0, <1>1, <1>2, <2>1, <2>3 DEF Held
<1>6. CASE Purges("am")
  <2>1. /\ stored' = stored /\ In("d")' = In("d") /\ In("am")' = {x \in In("am") : ~ Expired("am", Stamp[x])}
    BY <1>6 DEF Purges
  <2>2. PICK b \in Backends : AhDone(backend[b])
    BY <1>6 DEF Purges
  <2>3. ASSUME Expired("am", Stamp[s]) PROVE Safe(s)
    BY <1>0, <1>1, <2>1, <2>2, <2>3, MinutesExpire DEF HoursFilledTo
  <2> QED
    BY <1>0, <1>1, <1>2, <2>1, <2>3 DEF Held
<1> QED
  BY <1>0, <1>3, <1>4, <1>5, <1>6, SampleSteps

LEMMA MinutesHeldKept ==
    ASSUME LostInv, [Next]_vars, ~ resumed', Aligned, Delays, KeptForMinutes, KeptForHours
    PROVE  MinutesHeld'
<1>0. /\ ShapeInv /\ MinuteInv /\ MinutesHeld /\ now \in Nat /\ \A s \in stored : Stamp[s] \in Nat
      /\ \A b \in Backends : AhDone(backend[b]) => HoursFilledTo(backend[b].fp)
  BY LostFacts
<1>1. SUFFICES ASSUME NEW s \in stored', NEW u \in In("am")', Stamp[s] <= Stamp[u]
               PROVE  s \in In("am")' \/ Safe(s)'
  BY DEF MinutesHeld
<1>2. ASSUME s \in stored, Safe(s) PROVE Safe(s)'
  BY <1>0, <1>2, SafeKept
<1>3. ASSUME NEW x \in Samples, Arrives(x) PROVE s \in In("am")' \/ Safe(s)'
  <2>1. stored' = stored \cup {x} /\ In("am")' = In("am") /\ Stamp[x] \in Nat
    BY <1>3, Stamps DEF Arrives
  <2>2. Stamp[u] < Stamp[x] /\ Stamp[u] \in Nat
    BY <1>0, <1>1, <1>3, <2>1, LateMinute, SampleFacts
  <2>3. s \in stored
    BY <1>1, <2>1, <2>2
  <2> QED
    BY <1>0, <1>1, <1>2, <2>1, <2>3 DEF MinutesHeld
<1>4. CASE Stays \/ FillsHours \/ Purges("d") \/ Purges("ah")
  <2>1. stored' = stored /\ In("am")' = In("am")
    BY <1>4 DEF Stays, FillsHours, Purges
  <2> QED
    BY <1>0, <1>1, <1>2, <2>1 DEF MinutesHeld
<1>5. CASE FillsMinutes
  <2>1. stored' = stored /\ In("am")' = In("am") \cup NewMinutes
    BY <1>5 DEF FillsMinutes
  <2>2. CASE u \in In("am")
    BY <1>0, <1>1, <1>2, <2>1, <2>2 DEF MinutesHeld
  <2>3. CASE u \in NewMinutes
    <3>1. Stamp[u] < now - Delay["am"] /\ Stamp[u] \in Nat
      BY <1>0, <2>3, SampleFacts DEF NewMinutes
    <3>2. Stamp[s] < now - Delay["am"]
      BY <1>0, <1>1, <2>1, <3>1, Numbers
    <3> QED
      BY <1>1, <1>2, <1>5, <2>1, <3>2, MinutesNow
  <2> QED
    BY <1>1, <2>1, <2>2, <2>3
<1>6. CASE Purges("am")
  <2>1. /\ stored' = stored /\ In("am")' = {x \in In("am") : ~ Expired("am", Stamp[x])}
    BY <1>6 DEF Purges
  <2>2. PICK b \in Backends : AhDone(backend[b])
    BY <1>6 DEF Purges
  <2>3. ASSUME Expired("am", Stamp[s]) PROVE Safe(s)
    BY <1>0, <1>1, <2>1, <2>2, <2>3, MinutesExpire DEF HoursFilledTo
  <2> QED
    BY <1>0, <1>1, <1>2, <2>1, <2>3 DEF MinutesHeld
<1> QED
  BY <1>0, <1>3, <1>4, <1>5, <1>6, SampleSteps

LEMMA HoursHeldKept ==
    ASSUME LostInv, [Next]_vars, ~ resumed', Aligned, Delays PROVE HoursHeld'
<1>0. /\ ShapeInv /\ HourInv /\ HoursHeld /\ now \in Nat /\ ~ resumed /\ \A s \in stored : Stamp[s] \in Nat
  BY LostFacts
<1>1. SUFFICES ASSUME NEW s \in stored', NEW u \in In("ah")', HourOf(Stamp[s]) <= HourOf(Stamp[u])
               PROVE  Safe(s)'
  BY DEF HoursHeld, HourOf
<1>2. ASSUME s \in stored, Safe(s) PROVE Safe(s)'
  BY <1>0, <1>2, SafeKept
<1>3. ASSUME NEW x \in Samples, Arrives(x) PROVE Safe(s)'
  <2>1. stored' = stored \cup {x} /\ In("ah")' = In("ah") /\ Stamp[x] \in Nat
    BY <1>3, Stamps DEF Arrives
  <2>2. HourOf(Stamp[u]) < HourOf(Stamp[x]) /\ HourOf(Stamp[u]) \in Nat /\ HourOf(Stamp[x]) \in Nat
    BY <1>0, <1>1, <1>3, <2>1, LateHour, SampleFacts, Hours
  <2>3. s \in stored
    BY <1>1, <2>1, <2>2
  <2> QED
    BY <1>0, <1>1, <1>2, <2>1, <2>3 DEF HoursHeld
<1>4. CASE Stays \/ FillsMinutes \/ Purges("d") \/ Purges("am") \/ Purges("ah")
  <2>1. stored' = stored /\ In("ah")' \in SUBSET In("ah")
    BY <1>4 DEF Stays, FillsMinutes, Purges
  <2> QED
    BY <1>0, <1>1, <1>2, <2>1 DEF HoursHeld
<1>5. CASE FillsHours
  <2>1. stored' = stored /\ In("ah")' = In("ah") \cup NewHours
    BY <1>5 DEF FillsHours
  <2>2. CASE u \in In("ah")
    BY <1>0, <1>1, <1>2, <2>1, <2>2 DEF HoursHeld
  <2>3. CASE u \in NewHours
    <3>1. u \in stored /\ HourOf(Stamp[u]) < HourOf(now) - Delay["ah"]
      BY <1>0, <2>3, SampleFacts DEF NewHours
    <3>2. HourOf(Stamp[u]) \in Nat /\ HourOf(Stamp[s]) \in Nat /\ HourOf(now) \in Nat
      BY <1>0, <1>1, <2>1, <3>1, Hours
    <3>3. HourOf(Stamp[s]) < HourOf(now) - Delay["ah"]
      BY <1>1, <3>1, <3>2, Numbers
    <3> QED
      BY <1>1, <1>5, <2>1, <3>3, HoursNow
  <2> QED
    BY <1>1, <2>1, <2>2, <2>3
<1> QED
  BY <1>0, <1>3, <1>4, <1>5, SampleSteps

LEMMA FilledKept ==
    ASSUME LostInv, [Next]_vars, ~ resumed', Aligned, Delays, KeptForHours, NEW T \in Nat, T <= now,
           FilledTo(T) \/ FillsMinutes, rows'["am"] # None,
           NEW s \in stored', Stamp[s] < T - Delay["am"]
    PROVE  s \in In("am")' \/ Safe(s)'
<1>0. /\ ShapeInv /\ MinuteInv /\ now \in Nat /\ \A x \in stored : Stamp[x] \in Nat
      /\ \A b \in Backends : AhDone(backend[b]) => HoursFilledTo(backend[b].fp)
  BY LostFacts
<1>2. ASSUME s \in stored, Safe(s) PROVE Safe(s)'
  BY <1>0, <1>2, SafeKept
<1>3. ASSUME NEW x \in Samples, Arrives(x), FilledTo(T) PROVE s \in In("am")' \/ Safe(s)'
  <2>1. /\ stored' = stored \cup {x} /\ In("am")' = In("am") /\ Stamp[x] \in Nat /\ rows'["am"] = rows["am"]
        /\ now \in Stamp[x]..(Stamp[x] + Late)
    BY <1>3, Stamps DEF Arrives
  <2>2. s # x
    BY <1>0, <2>1, Numbers DEF Delays
  <2> QED
    BY <1>2, <1>3, <2>1, <2>2 DEF FilledTo
<1>4. ASSUME Stays \/ FillsHours \/ Purges("d") \/ Purges("ah"), FilledTo(T) PROVE s \in In("am")' \/ Safe(s)'
  <2>1. stored' = stored /\ In("am")' = In("am") /\ rows["am"] # None
    BY <1>4 DEF Stays, FillsHours, Purges
  <2> QED
    BY <1>2, <1>4, <2>1 DEF FilledTo
<1>5. CASE FillsMinutes
  <2>1. stored' = stored
    BY <1>5 DEF FillsMinutes
  <2>2. Stamp[s] < now - Delay["am"]
    BY <1>0, <2>1, Numbers
  <2> QED
    BY <1>2, <1>5, <2>1, <2>2, MinutesNow
<1>6. ASSUME Purges("am"), FilledTo(T) PROVE s \in In("am")' \/ Safe(s)'
  <2>1. /\ stored' = stored /\ In("am")' = {x \in In("am") : ~ Expired("am", Stamp[x])} /\ rows["am"] # None
    BY <1>6 DEF Purges
  <2>2. PICK b \in Backends : AhDone(backend[b])
    BY <1>6 DEF Purges
  <2>3. ASSUME Expired("am", Stamp[s]) PROVE Safe(s)
    BY <1>0, <2>1, <2>2, <2>3, MinutesExpire DEF HoursFilledTo
  <2> QED
    BY <1>2, <1>6, <2>1, <2>3 DEF FilledTo
<1> QED
  BY <1>0, <1>3, <1>4, <1>5, <1>6, SampleSteps

LEMMA HoursFilledKept ==
    ASSUME LostInv, [Next]_vars, ~ resumed', Aligned, Delays, NEW T \in Nat, T <= now,
           HoursFilledTo(T) \/ FillsHours,
           NEW s \in stored', HourOf(Stamp[s]) < HourOf(T) - Delay["ah"]
    PROVE  Safe(s)'
<1>0. ShapeInv /\ now \in Nat /\ \A x \in stored : Stamp[x] \in Nat
  BY LostFacts
<1>1. Stamp[s] \in Nat
  BY <1>0, SampleSteps, Stamps DEF Arrives, Stays, FillsMinutes, FillsHours, Purges
<1>2. HourOf(Stamp[s]) < HourOf(now) - Delay["ah"]
  <2>1. /\ HourOf(T) <= HourOf(now) /\ HourOf(T) \in Nat /\ HourOf(now) \in Nat /\ HourOf(Stamp[s]) \in Nat
    BY <1>0, <1>1, Hours
  <2> QED
    BY <2>1, Numbers
<1>3. ASSUME NEW x \in Samples, Arrives(x) PROVE s # x /\ stored' = stored \cup {x}
  <2>1. now \in Stamp[x]..(Stamp[x] + Late) /\ stored' = stored \cup {x} /\ Stamp[x] \in Nat
    BY <1>3, Stamps DEF Arrives
  <2>2. Stamp[s] + Delay["am"] + Slack < now
    BY <1>0, <1>1, <1>2, OldHour
  <2> QED
    BY <1>0, <2>1, <2>2, Numbers DEF Delays
<1>4. s \in stored
  BY <1>0, <1>3, SampleSteps DEF Stays, FillsMinutes, FillsHours, Purges
<1>5. CASE FillsHours
  BY <1>2, <1>4, <1>5, HoursNow
<1>6. CASE HoursFilledTo(T)
  BY <1>0, <1>4, <1>6, SafeKept DEF HoursFilledTo
<1> QED
  BY <1>5, <1>6

LEMMA LostStep ==
    ASSUME LostInv, [Next]_vars, Aligned, Delays, KeptForMinutes, KeptForHours PROVE LostInv'
<1>1. HourInv'
  BY HourStep DEF LostInv
<1> SUFFICES ASSUME ~ resumed'
             PROVE  /\ Held' /\ MinutesHeld' /\ HoursHeld'
                    /\ \A b \in Backends :
                          /\ AmDone(backend'[b]) => FilledTo(backend[b].fp)'
                          /\ AmDone(backend'[b]) /\ backend'[b].pc = "turn" => rows'["am"] # None
                          /\ AhDone(backend'[b]) => HoursFilledTo(backend[b].fp)'
  BY <1>1 DEF LostInv, AmDone, AhDone
<1>0. /\ ShapeInv
      /\ \A b \in Backends : /\ AmDone(backend[b]) => FilledTo(backend[b].fp)
                             /\ AmDone(backend[b]) /\ backend[b].pc = "turn" => rows["am"] # None
                             /\ AhDone(backend[b]) => HoursFilledTo(backend[b].fp)
  BY LostFacts
<1>2. ASSUME NEW b \in Backends, AmDone(backend'[b]) PROVE FilledTo(backend[b].fp)'
  <2>1. PICK T : T = backend'[b].fp
    OBVIOUS
  <2>2. ASSUME rows'["am"] # None, NEW s \in stored', Stamp[s] < T - Delay["am"]
        PROVE  s \in In("am")' \/ Safe(s)'
    <3>1. T \in Nat /\ T <= now /\ (FilledTo(T) \/ FillsMinutes)
      BY <1>0, <1>2, <2>1, <2>2, PlaceSteps
    <3> QED
      BY <2>2, <3>1, FilledKept
  <2> QED
    BY <2>1, <2>2 DEF FilledTo, Safe
<1>3. ASSUME NEW b \in Backends, AhDone(backend'[b]) PROVE HoursFilledTo(backend[b].fp)'
  <2>1. PICK T : T = backend'[b].fp
    OBVIOUS
  <2>2. T \in Nat /\ T <= now /\ (HoursFilledTo(T) \/ FillsHours)
    BY <1>0, <1>3, <2>1, PlaceSteps
  <2>3. ASSUME NEW s \in stored', HourOf(Stamp[s]) < HourOf(T) - Delay["ah"] PROVE Safe(s)'
    BY <2>2, <2>3, HoursFilledKept
  <2> QED
    BY <2>1, <2>3 DEF HoursFilledTo, HourOf
<1>4. ASSUME NEW b \in Backends, AmDone(backend'[b]), backend'[b].pc = "turn" PROVE rows'["am"] # None
  <2>1. rows["am"] # None \/ FillsMinutes
    BY <1>0, <1>4, PlaceSteps
  <2> QED
    BY <1>0, <2>1, SampleSteps DEF Arrives, Stays, FillsMinutes, FillsHours, Purges
<1> QED
  BY <1>2, <1>3, <1>4, HeldKept, MinutesHeldKept, HoursHeldKept

LEMMA LostInvariant ==
    ASSUME Aligned, Delays, KeptForMinutes, KeptForHours PROVE Spec => []LostInv
<1>1. Init => LostInv
  BY InitEmpty
     DEF LostInv, HourInv, GroupedByHour, HourSamples, Held, MinutesHeld, HoursHeld
<1>2. LostInv /\ [Next]_vars => LostInv'
  BY LostStep
<1> QED
  BY <1>1, <1>2, PTL DEF Spec

\* If days are of whole hours, and d$ and am$ keep what a late thread has yet to condense:
\* with delays that are Sound each sample is in d$, am$ or ah$ until the retention of hours
\* is over, whatever statement fails before the purge that follows it.
THEOREM NothingLost == ASSUME Aligned, KeptForMinutes, KeptForHours PROVE Spec => []NeverLost
<1>1. CASE Delays
  <2>1. LostInv => NeverLost
    BY DEF LostInv, Held, Safe, NeverLost, Sound
  <2>2. Spec => []LostInv
    BY <1>1, LostInvariant
  <2> QED
    BY <2>1, <2>2, PTL
<1>2. CASE ~ Delays
  <2>1. NeverLost
    BY <1>2 DEF NeverLost, Sound, Delays
  <2> QED
    BY <2>1, PTL
<1> QED
  BY <1>1, <1>2

-----------------------------------------------------------------------------
(***************************************************************************)
(* A turn in which nothing fails makes up for what failed before           *)
(***************************************************************************)
\* The thread has filled am$ in the last turn; and ah$, for which hours were due
AmFilled(me) == me.pc \in {"turn", "sleep"} /\ me.base # "none" /\ ~ me.broken /\ ~ Has(me.todo, 1)
AhFilled(me) == /\ me.pc \in {"turn", "sleep"} /\ me.base # "none" /\ ~ me.broken /\ ~ Has(me.todo, 3)
                /\ me.next["ah"] = me.fp + Hour

\* Turns are not at the same time, so that next_med tells whether hours were due in the last
Paced(me, n) ==
    /\ me.fp <= n
    /\ me.pc \in {"am", "ah", "ad"} \/ me.base = "none" => me.next["ah"] = 0
    /\ me.pc \in {"turn", "sleep"} /\ me.base # "none" => me.next["ah"] <= me.fp + Hour
    /\ me.pc = "sleep" /\ me.base # "none" => me.fp < me.wake
    /\ me.base = "none" => me.pc \in {"off", "sleep"}

LEMMA TurnPaced ==
    ASSUME now \in Nat, NEW me \in Memory, me.next["am"] <= now, me.next["ah"] < now + Hour, me.base # "none"
    PROVE  Paced(Turn(me), now) /\ ~ AmFilled(Turn(me)) /\ ~ AhFilled(Turn(me))
<1>1. PICK t : t = Turn(me)
  OBVIOUS
<1>2. /\ t.pc = "turn" /\ t.fp = now /\ t.base # "none" /\ Has(t.todo, 1)
      /\ me.next["ah"] <= now => Has(t.todo, 3) /\ t.next["ah"] = now + Hour
      /\ ~ (me.next["ah"] <= now) => t.next["ah"] = me.next["ah"]
  BY <1>1, TurnFacts
<1>3. PICK n \in Nat : n = me.next["ah"]
  BY DEF Memory, Levels
<1>4. n < now + Hour /\ Hour \in Nat
  BY <1>3, Numbers
<1>5. Has(t.todo, 3) \/ t.next["ah"] # now + Hour
  BY <1>2, <1>3, <1>4
<1>6. t.next["ah"] <= now + Hour
  BY <1>2, <1>3, <1>4
<1>7. now <= now
  OBVIOUS
<1> QED
  BY <1>1, <1>2, <1>5, <1>6, <1>7 DEF Paced, AmFilled, AhFilled

\* What a thread's own step does to the place it is at
LEMMA StatementPaced ==
    ASSUME ShapeInv, NEW b \in Backends, Statement(b), Paced(backend[b], now)
    PROVE  /\ Paced(backend'[b], now) /\ backend'[b].fp = backend[b].fp
           /\ AmFilled(backend'[b]) =>
                 \/ AmFilled(backend[b])
                 \/ /\ rows["am"] # None /\ rows["d"] # None
                    /\ rows' = [rows EXCEPT !["am"] = rows["am"] \cup Added("am")]
           /\ AhFilled(backend'[b]) =>
                 \/ AhFilled(backend[b])
                 \/ /\ AmDone(backend[b]) /\ rows["ah"] # None /\ rows["am"] # None
                    /\ rows' = [rows EXCEPT !["ah"] = rows["ah"] \cup Added("ah")]
<1> DEFINE old == backend[b]
<1>1. PICK q : q = Head(old.todo)
  OBVIOUS
<1>2. /\ old \in Memory /\ MeOK(old, now) /\ old.todo \in Seq(Query) /\ Ordered(old.todo)
      /\ old.broken \in BOOLEAN /\ DOMAIN backend = Backends
  BY DEF ShapeInv, MeOK, Memory
<1>3. /\ old.pc = "turn" /\ old.todo # <<>> /\ q \in Query
      /\ \/ /\ rows' = [rows EXCEPT ![q.table] = Effect(q)]
            /\ ~ old.broken /\ rows[q.table] # None
            /\ q.kind = "insert" => rows[Source[q.table]] # None
            /\ Become(b, [old EXCEPT !.todo = Tail(old.todo)])
         \/ /\ rows' = rows
            /\ Become(b, [old EXCEPT !.todo = Tail(old.todo), !.broken = TRUE])
  BY <1>1, StatementEffect
<1>4. PICK rest : rest = Tail(old.todo)
  OBVIOUS
<1>5. /\ \A k : Has(old.todo, k) <=> k = Rank(q) \/ Has(rest, k)
      /\ \A k \in Nat : k <= Rank(q) => ~ Has(rest, k)
  BY <1>1, <1>2, <1>3, <1>4, TailFacts
<1>6. PICK me : /\ backend'[b] = me /\ me.pc = old.pc /\ me.todo = rest /\ me.fp = old.fp /\ me.base = old.base
                /\ me.next = old.next
                /\ me.broken => me.broken = TRUE
                /\ \/ me.broken
                   \/ /\ rows' = [rows EXCEPT ![q.table] = Effect(q)]
                      /\ ~ old.broken /\ rows[q.table] # None
                      /\ q.kind = "insert" => rows[Source[q.table]] # None
  <2>1. CASE Become(b, [old EXCEPT !.todo = Tail(old.todo), !.broken = TRUE])
    <3>1. PICK me : me = [old EXCEPT !.todo = rest, !.broken = TRUE]
      OBVIOUS
    <3>2. /\ me.pc = old.pc /\ me.todo = rest /\ me.fp = old.fp /\ me.base = old.base /\ me.next = old.next
          /\ me.broken = TRUE /\ backend'[b] = me
      BY <1>2, <1>4, <2>1, <3>1 DEF Memory, Become
    <3> QED
      BY <3>2
  <2>2. CASE /\ rows' = [rows EXCEPT ![q.table] = Effect(q)]
             /\ ~ old.broken /\ rows[q.table] # None
             /\ q.kind = "insert" => rows[Source[q.table]] # None
             /\ Become(b, [old EXCEPT !.todo = Tail(old.todo)])
    <3>1. PICK me : me = [old EXCEPT !.todo = rest]
      OBVIOUS
    <3>2. /\ me.pc = old.pc /\ me.todo = rest /\ me.fp = old.fp /\ me.base = old.base /\ me.next = old.next
          /\ me.broken = old.broken /\ backend'[b] = me
      BY <1>2, <1>4, <2>2, <3>1 DEF Memory, Become
    <3> QED
      BY <2>2, <3>2
  <2> QED
    BY <1>3, <2>1, <2>2
<1>7. Paced(me, now)
  BY <1>3, <1>6 DEF Paced
<1>8. /\ Rank(q) \in 1..7
      /\ Rank(q) = 1 <=> q.kind = "insert" /\ q.table = "am"
      /\ Rank(q) = 3 <=> q.kind = "insert" /\ q.table = "ah"
  BY <1>3, QueryFacts
<1>9. ~ me.broken /\ q.kind = "insert" => rows' = [rows EXCEPT ![q.table] = rows[q.table] \cup Added(q.table)]
  BY <1>3, <1>6, EffectFacts
<1>10. ASSUME AmFilled(me), ~ AmFilled(old)
       PROVE  /\ rows["am"] # None /\ rows["d"] # None
              /\ rows' = [rows EXCEPT !["am"] = rows["am"] \cup Added("am")]
  <2>1. Rank(q) = 1 /\ ~ me.broken
    BY <1>3, <1>5, <1>6, <1>10 DEF AmFilled
  <2> QED
    BY <1>6, <1>8, <1>9, <2>1, LevelFacts
<1>11. ASSUME AhFilled(me), ~ AhFilled(old)
       PROVE  /\ AmDone(old) /\ rows["ah"] # None /\ rows["am"] # None
              /\ rows' = [rows EXCEPT !["ah"] = rows["ah"] \cup Added("ah")]
  <2>1. Rank(q) = 3 /\ ~ me.broken /\ ~ old.broken
    BY <1>3, <1>5, <1>6, <1>11 DEF AhFilled
  <2>2. ~ Has(old.todo, 1)
    BY <1>5, <2>1
  <2> QED
    BY <1>3, <1>6, <1>8, <1>9, <2>1, <2>2, LevelFacts DEF AmDone
<1> QED
  BY <1>6, <1>7, <1>10, <1>11

\* What any step does to it
LEMMA FilledSteps ==
    ASSUME ShapeInv, [Next]_vars, Aligned, NEW b \in Backends, Paced(backend[b], now)
    PROVE  /\ Paced(backend'[b], now')
           /\ AmFilled(backend'[b]) =>
                 backend'[b].fp = backend[b].fp /\ (AmFilled(backend[b]) \/ FillsMinutes)
           /\ AhFilled(backend'[b]) =>
                 backend'[b].fp = backend[b].fp /\ (AhFilled(backend[b]) \/ FillsHours)
<1> DEFINE old == backend[b]
<1>0. /\ DOMAIN backend = Backends /\ MeOK(old, now) /\ old \in Memory /\ now \in Nat
      /\ old.next \in [Levels -> Nat] /\ old.fp \in Nat /\ old.wake \in Nat /\ Delay["am"] \in Nat
      /\ now' \in {now, now + 1} /\ Hour \in Nat \ {0}
  BY Clock, Numbers, SampleSteps
     DEF ShapeInv, MeOK, Memory, Arrives, Stays, FillsMinutes, FillsHours, Purges
<1>1. CASE backend'[b] = old
  BY <1>0, <1>1 DEF Paced
<1>2. ASSUME backend'[b].pc = "off" \/ (backend'[b].base = "none" /\ backend'[b].pc = "sleep"),
             backend'[b].base = "none", backend'[b].fp = 0, backend'[b].next["ah"] = 0
      PROVE  Paced(backend'[b], now') /\ ~ AmFilled(backend'[b]) /\ ~ AhFilled(backend'[b])
  BY <1>0, <1>2 DEF Paced, AmFilled, AhFilled
<1>3. Off.pc = "off" /\ Off.base = "none" /\ Off.fp = 0 /\ Off.next["ah"] = 0
  BY DEF Off, Levels
<1>4. CASE Start(b)
  <2>1. PICK me : me = [Off EXCEPT !.pc = "sleep", !.wake = now]
    OBVIOUS
  <2>2. me.pc = "sleep" /\ me.base = "none" /\ me.fp = 0 /\ me.next["ah"] = 0
    BY <2>1 DEF Off, Levels
  <2>3. backend'[b] = me
    BY <1>0, <1>4, <2>1 DEF Start, Become
  <2> QED
    BY <1>2, <2>2, <2>3
<1>5. CASE Crash(b)
  <2>1. backend'[b] = Off
    BY <1>0, <1>5 DEF Crash, Become
  <2> QED
    BY <1>2, <1>3, <2>1
<1>6. CASE Sleep(b)
  <2>1. PICK me : me = [old EXCEPT !.pc = "sleep", !.wake = now + Delay["am"]]
    OBVIOUS
  <2>2. /\ backend'[b] = me /\ old.pc = "turn" /\ now' = now
    BY <1>0, <1>6, <2>1 DEF Sleep, Become, At
  <2>3. /\ me.pc = "sleep" /\ me.wake = now + Delay["am"] /\ me.fp = old.fp /\ me.base = old.base
        /\ me.next = old.next /\ me.todo = old.todo /\ me.broken = old.broken
    BY <1>0, <2>1 DEF Memory
  <2>4. old.fp <= now /\ old.base # "none" /\ old.next["ah"] <= old.fp + Hour
    BY <2>2 DEF Paced
  <2>5. old.fp < now + Delay["am"]
    BY <1>0, <2>4, Numbers, AggregationAssumption
  <2>6. Paced(me, now)
    BY <2>3, <2>4, <2>5 DEF Paced
  <2> QED
    BY <2>2, <2>3, <2>6 DEF AmFilled, AhFilled
<1>7. CASE Wake(b)
  <2>1. /\ backend'[b] = Turn(old) /\ old.pc = "sleep" /\ old.wake <= now /\ old.base # "none" /\ now' = now
    BY <1>0, <1>7 DEF Wake, At, Become
  <2>2. old.next["am"] <= now /\ old.next["ah"] < now + Hour
    <3>1. PICK m, n \in Nat : m = old.next["am"] /\ n = old.next["ah"]
      BY <1>0 DEF Levels
    <3>2. m <= old.wake /\ n <= old.fp + Hour /\ old.fp < old.wake
      BY <1>0, <2>1, <3>1 DEF MeOK, Paced
    <3> QED
      BY <1>0, <2>1, <3>1, <3>2
  <2> QED
    BY <1>0, <2>1, <2>2, TurnPaced
<1>8. CASE SetUp(b)
  <2>1. PICK me, cut : /\ me = [old EXCEPT !.pc = "am", !.fp = now, !.base = "whole", !.cols = columns["d"],
                                           !.haveAM = rows["am"] # None]
                       /\ cut = [old EXCEPT !.base = "cut"]
    OBVIOUS
  <2>2. /\ backend'[b] = me \/ backend'[b] = Turn(cut)
        /\ old.pc = "sleep" /\ old.wake <= now /\ old.base = "none" /\ now' = now
    BY <1>0, <1>8, <2>1 DEF SetUp, At, Become
  <2>3. /\ me.pc = "am" /\ me.fp = now /\ me.base = "whole" /\ me.next = old.next
        /\ cut \in Memory /\ cut.base = "cut" /\ cut.next = old.next
    BY <1>0, <2>1 DEF Memory
  <2>4. old.next["ah"] = 0 /\ old.next["am"] <= now
    <3>1. PICK m \in Nat : m = old.next["am"]
      BY <1>0 DEF Levels
    <3> QED
      BY <1>0, <2>2, <3>1 DEF Paced, MeOK
  <2>5. Paced(me, now) /\ ~ AmFilled(me) /\ ~ AhFilled(me)
    BY <1>0, <2>3, <2>4 DEF Paced, AmFilled, AhFilled
  <2>6. 0 < now + Hour
    BY <1>0
  <2>7. Paced(Turn(cut), now) /\ ~ AmFilled(Turn(cut)) /\ ~ AhFilled(Turn(cut))
    BY <1>0, <2>3, <2>4, <2>6, TurnPaced
  <2> QED
    BY <2>2, <2>5, <2>7
<1>9. ASSUME NEW l \in Levels, Create(b, l)
      PROVE  Paced(backend'[b], now') /\ ~ AmFilled(backend'[b]) /\ ~ AhFilled(backend'[b])
  <2>1. PICK me : /\ Become(b, me)
                  /\ me = CASE l = "am" -> [old EXCEPT !.pc = "ah"]
                          []   l = "ah" -> [old EXCEPT !.pc = "ad"]
                          []   l = "ad" -> Turn(old)
    BY <1>9, CreateEffect
  <2>2. backend'[b] = me /\ old.pc = l /\ old.next["am"] <= now /\ now' = now
    BY <1>0, <1>9, <2>1, CreateEffect DEF Become, MeOK, Levels
  <2>3. old.next["ah"] = 0 /\ old.base # "none" /\ old.fp <= now
    BY <2>2 DEF Paced, Levels
  <2>4. CASE l = "ad"
    <3>1. 0 < now + Hour
      BY <1>0
    <3> QED
      BY <1>0, <2>1, <2>2, <2>3, <2>4, <3>1, TurnPaced
  <2>5. CASE l # "ad"
    <3>1. PICK p \in {"ah", "ad"} : me = [old EXCEPT !.pc = p]
      BY <2>1, <2>5 DEF Levels
    <3>2. me.pc = p /\ me.fp = old.fp /\ me.base = old.base /\ me.next = old.next
      BY <1>0, <3>1 DEF Memory
    <3> QED
      BY <2>2, <2>3, <3>1, <3>2 DEF Paced, AmFilled, AhFilled
  <2> QED
    BY <2>4, <2>5
<1>10. CASE Statement(b)
  <2>0. /\ Source["am"] = "d" /\ Source["ah"] = "am" /\ {"d", "am", "ah"} \subseteq Tables
        /\ now' = now /\ stored' = stored
    BY <1>10, LevelFacts, Numbers, StatementEffect
  <2>1. ASSUME rows["am"] # None, rows["d"] # None, rows' = [rows EXCEPT !["am"] = rows["am"] \cup Added("am")]
        PROVE  FillsMinutes
    <3>1. /\ In("am")' = In("am") \cup {s \in In("d") : Old("am", Stamp[s]) /\ Span("am", Stamp[s]) > Last("am")}
          /\ rows'["am"] # None /\ \A t \in Tables \ {"am"} : rows'[t] = rows[t]
      BY <2>0, <2>1, AddedSamples
    <3>2. In("d")' = In("d") /\ In("ah")' = In("ah")
      BY <2>0, <3>1, InSame
    <3> QED
      BY <2>0, <2>1, <3>1, <3>2, MinutesTaken DEF FillsMinutes
  <2>2. ASSUME AmDone(old), rows["ah"] # None, rows["am"] # None,
               rows' = [rows EXCEPT !["ah"] = rows["ah"] \cup Added("ah")]
        PROVE  FillsHours
    <3>1. /\ In("ah")' = In("ah") \cup {s \in In("am") : Old("ah", Stamp[s]) /\ Span("ah", Stamp[s]) > Last("ah")}
          /\ rows'["ah"] # None /\ \A t \in Tables \ {"ah"} : rows'[t] = rows[t]
      BY <2>0, <2>2, AddedSamples
    <3>2. In("d")' = In("d") /\ In("am")' = In("am") /\ rows'["am"] = rows["am"]
      BY <2>0, <3>1, InSame
    <3> QED
      BY <2>0, <2>2, <3>1, <3>2, HoursTaken DEF FillsHours
  <2> QED
    BY <1>10, <2>0, <2>1, <2>2, StatementPaced
<1>11. CASE UNCHANGED vars \/ Tick \/ AddColumn \/ \E s \in Samples : Store(s)
  BY <1>1, <1>11 DEF vars, Tick, AddColumn, Store
<1>12. ASSUME NEW c \in Backends \ {b},
              \/ Start(c) \/ Crash(c) \/ Wake(c) \/ SelectFails(c) \/ SetUp(c)
              \/ \E l \in Levels : Create(c, l)
              \/ Statement(c) \/ Sleep(c)
       PROVE  backend'[b] = backend[b]
  <2>1. \E me : Become(c, me)
    BY <1>12, CreateEffect, StatementEffect DEF Start, Crash, Wake, SelectFails, SetUp, Sleep
  <2> QED
    BY <1>0, <2>1 DEF Become
<1>13. CASE SelectFails(b)
  <2>1. PICK me : me = [old EXCEPT !.wake = now + ThreadFreq]
    OBVIOUS
  <2>2. backend'[b] = me /\ old.pc = "sleep" /\ old.base = "none" /\ now' = now
    BY <1>0, <1>13, <2>1 DEF SelectFails, At, Become
  <2>3. me.pc = "sleep" /\ me.base = "none" /\ me.fp = old.fp /\ me.next = old.next
    BY <1>0, <2>1, <2>2 DEF Memory
  <2> QED
    BY <2>2, <2>3 DEF Paced, AmFilled, AhFilled
<1> QED
  BY <1>1, <1>4, <1>5, <1>6, <1>7, <1>8, <1>9, <1>10, <1>11, <1>12, <1>13 DEF Next

\* Minutes: a sample that is not later than one of am$ is there, or was
MinutesCaught ==
    \A s \in In("d"), u \in In("am") : Stamp[s] <= Stamp[u] => s \in In("am") \/ Expired("am", Stamp[s])

MinutesCaughtTo(T) ==
    \A s \in In("d") : Stamp[s] < T - Delay["am"] => s \in In("am") \/ Expired("am", Stamp[s])

CaughtInv ==
    /\ MinuteInv /\ MinutesCaught
    /\ \A b \in Backends : Paced(backend[b], now) /\ (AmFilled(backend[b]) => MinutesCaughtTo(backend[b].fp))

\* What is left of d$ when am$ has been filled at time T and a step later
LEMMA CaughtKept ==
    ASSUME MinuteInv, MinutesCaught, [Next]_vars, Aligned, Late <= Delay["am"],
           NEW T \in Nat, T <= now, MinutesCaughtTo(T) \/ FillsMinutes,
           NEW s \in In("d")', Stamp[s] < T - Delay["am"]
    PROVE  s \in In("am")' \/ Expired("am", Stamp[s])'
<1>0. ShapeInv /\ now \in Nat /\ "am" \in Tables
  BY Clock, Numbers DEF MinuteInv
<1>1. ASSUME s \in In("d"), Expired("am", Stamp[s]) PROVE Expired("am", Stamp[s])'
  <2>1. PICK e \in Nat : e = Stamp[s]
    BY <1>0, <1>1, SampleFacts
  <2> QED
    BY <1>0, <1>1, <2>1, ExpiredKept DEF Expired
<1>2. ASSUME NEW x \in Samples, Arrives(x), MinutesCaughtTo(T) PROVE s \in In("am")' \/ Expired("am", Stamp[s])'
  <2>1. /\ In("d")' = In("d") \cup {x} /\ In("am")' = In("am") /\ Stamp[x] \in Nat
        /\ now \in Stamp[x]..(Stamp[x] + Late)
    BY <1>2, Stamps DEF Arrives
  <2>2. s # x
    BY <1>0, <2>1, Numbers
  <2> QED
    BY <1>1, <1>2, <2>1, <2>2 DEF MinutesCaughtTo
<1>3. ASSUME MinutesCaughtTo(T), Stays \/ FillsHours \/ Purges("d") \/ Purges("ah")
      PROVE  s \in In("am")' \/ Expired("am", Stamp[s])'
  <2>1. In("d")' \in SUBSET In("d") /\ In("am")' = In("am")
    BY <1>3 DEF Stays, FillsHours, Purges
  <2> QED
    BY <1>1, <1>3, <2>1 DEF MinutesCaughtTo
<1>4. CASE FillsMinutes
  <2>1. In("d")' = In("d") /\ In("am")' = In("am") \cup NewMinutes
    BY <1>4 DEF FillsMinutes
  <2>2. Stamp[s] < now - Delay["am"] /\ Stamp[s] \in Nat
    BY <1>0, <2>1, SampleFacts, Numbers
  <2>3. CASE \E u \in In("am") : Stamp[s] <= Stamp[u]
    BY <1>1, <2>1, <2>3 DEF MinutesCaught
  <2>4. CASE ~ \E u \in In("am") : Stamp[s] <= Stamp[u]
    <3>1. \A u \in In("am") : Stamp[u] < Stamp[s]
      BY <1>0, <2>2, <2>4, SampleFacts
    <3> QED
      BY <2>1, <2>2, <3>1 DEF NewMinutes
  <2> QED
    BY <2>3, <2>4
<1>5. ASSUME MinutesCaughtTo(T), Purges("am") PROVE s \in In("am")' \/ Expired("am", Stamp[s])'
  <2>1. In("d")' = In("d") /\ In("am")' = {x \in In("am") : ~ Expired("am", Stamp[x])}
    BY <1>5 DEF Purges
  <2> QED
    BY <1>1, <1>5, <2>1 DEF MinutesCaughtTo
<1> QED
  BY <1>0, <1>2, <1>3, <1>4, <1>5, SampleSteps

LEMMA MinutesCaughtKept ==
    ASSUME MinuteInv, MinutesCaught, [Next]_vars, Aligned, Late <= Delay["am"],
           NEW s \in In("d")', NEW u \in In("am")', Stamp[s] <= Stamp[u]
    PROVE  s \in In("am")' \/ Expired("am", Stamp[s])'
<1>0. ShapeInv /\ now \in Nat /\ "am" \in Tables
  BY Clock, Numbers DEF MinuteInv
<1>1. ASSUME s \in In("d"), Expired("am", Stamp[s]) PROVE Expired("am", Stamp[s])'
  <2>1. PICK e \in Nat : e = Stamp[s]
    BY <1>0, <1>1, SampleFacts
  <2> QED
    BY <1>0, <1>1, <2>1, ExpiredKept DEF Expired
<1>2. ASSUME NEW x \in Samples, Arrives(x) PROVE s \in In("am")' \/ Expired("am", Stamp[s])'
  <2>1. In("d")' = In("d") \cup {x} /\ In("am")' = In("am") /\ Stamp[x] \in Nat
    BY <1>2, Stamps DEF Arrives
  <2>2. Stamp[u] < Stamp[x] /\ Stamp[u] \in Nat
    BY <1>0, <1>2, <2>1, LateMinute, SampleFacts
  <2>3. s # x
    BY <2>1, <2>2
  <2> QED
    BY <1>1, <2>1, <2>3 DEF MinutesCaught
<1>3. CASE Stays \/ FillsHours \/ Purges("d") \/ Purges("ah")
  <2>1. In("d")' \in SUBSET In("d") /\ In("am")' = In("am")
    BY <1>3 DEF Stays, FillsHours, Purges
  <2> QED
    BY <1>1, <2>1 DEF MinutesCaught
<1>4. CASE FillsMinutes
  <2>1. In("d")' = In("d") /\ In("am")' = In("am") \cup NewMinutes
    BY <1>4 DEF FillsMinutes
  <2>2. CASE u \in In("am")
    BY <1>1, <2>1, <2>2 DEF MinutesCaught
  <2>3. CASE u \in NewMinutes
    <3>1. Stamp[u] < now - Delay["am"] /\ Stamp[u] \in Nat /\ Stamp[s] \in Nat
      BY <1>0, <2>1, <2>3, SampleFacts DEF NewMinutes
    <3>2. Stamp[s] < now - Delay["am"] /\ now <= now
      BY <1>0, <3>1, Numbers
    <3> QED
      BY <1>0, <1>4, <3>2, CaughtKept
  <2> QED
    BY <2>1, <2>2, <2>3
<1>5. CASE Purges("am")
  <2>1. In("d")' = In("d") /\ In("am")' = {x \in In("am") : ~ Expired("am", Stamp[x])}
    BY <1>5 DEF Purges
  <2> QED
    BY <1>1, <1>5, <2>1 DEF MinutesCaught
<1> QED
  BY <1>0, <1>2, <1>3, <1>4, <1>5, SampleSteps

LEMMA CaughtStep ==
    ASSUME CaughtInv, [Next]_vars, Aligned, Kept, Late <= Delay["am"] PROVE CaughtInv'
<1>0. /\ ShapeInv /\ MinuteInv /\ MinutesCaught /\ now \in Nat
      /\ \A b \in Backends : /\ backend[b].fp \in Nat /\ Paced(backend[b], now)
                             /\ AmFilled(backend[b]) => MinutesCaughtTo(backend[b].fp)
  BY Clock DEF CaughtInv, MinuteInv, ShapeInv, MeOK, Memory
<1>1. MinuteInv'
  BY <1>0, MinuteStep
<1>2. MinutesCaught'
  BY <1>0, MinutesCaughtKept DEF MinutesCaught, Expired
<1>3. ASSUME NEW b \in Backends PROVE Paced(backend[b], now)'
  BY <1>0, FilledSteps DEF Paced
<1>4. ASSUME NEW b \in Backends, AmFilled(backend'[b]) PROVE MinutesCaughtTo(backend[b].fp)'
  <2>1. PICK T \in Nat : T = backend[b].fp /\ T <= now
    BY <1>0 DEF Paced
  <2>2. backend'[b].fp = T /\ (MinutesCaughtTo(T) \/ FillsMinutes)
    BY <1>0, <1>4, <2>1, FilledSteps
  <2>3. ASSUME NEW s \in In("d")', Stamp[s] < T - Delay["am"] PROVE s \in In("am")' \/ Expired("am", Stamp[s])'
    BY <1>0, <2>1, <2>2, <2>3, CaughtKept
  <2> QED
    BY <2>2, <2>3 DEF MinutesCaughtTo, Expired
<1> QED
  BY <1>1, <1>2, <1>3, <1>4 DEF CaughtInv, AmFilled

LEMMA InitPaced ==
    ASSUME Init
    PROVE  \A b \in Backends : Paced(backend[b], now) /\ ~ AmFilled(backend[b]) /\ ~ AhFilled(backend[b])
<1>1. \A b \in Backends : backend[b] = Off
  BY DEF Init
<1>2. Off.pc = "off" /\ Off.base = "none" /\ Off.fp = 0 /\ Off.next["ah"] = 0
  BY DEF Off, Levels
<1>3. 0 <= now
  BY AggregationAssumption DEF Init
<1> QED
  BY <1>1, <1>2, <1>3 DEF Paced, AmFilled, AhFilled

\* Hours, with delays that are Sound
HoursCaughtInv ==
    /\ LostInv
    /\ \A b \in Backends : Paced(backend[b], now)
    /\ ~ resumed => \A b \in Backends : AhFilled(backend[b]) => HoursFilledTo(backend[b].fp)

LEMMA HoursCaughtStep ==
    ASSUME HoursCaughtInv, [Next]_vars, Aligned, Delays, KeptForMinutes, KeptForHours PROVE HoursCaughtInv'
<1>0. /\ ShapeInv /\ LostInv /\ now \in Nat
      /\ \A b \in Backends : backend[b].fp \in Nat /\ Paced(backend[b], now)
  BY Clock DEF HoursCaughtInv, LostInv, HourInv, MinuteInv, ShapeInv, MeOK, Memory
<1>1. LostInv'
  BY <1>0, LostStep
<1>2. ASSUME NEW b \in Backends PROVE Paced(backend[b], now)'
  BY <1>0, FilledSteps DEF Paced
<1>3. ASSUME ~ resumed', NEW b \in Backends, AhFilled(backend'[b]) PROVE HoursFilledTo(backend[b].fp)'
  <2>1. PICK T \in Nat : T = backend[b].fp /\ T <= now
    BY <1>0 DEF Paced
  <2>2. ~ resumed
    BY <1>0, <1>3, ResumedStays
  <2>3. backend'[b].fp = T /\ (HoursFilledTo(T) \/ FillsHours)
    BY <1>0, <1>3, <2>1, <2>2, FilledSteps DEF HoursCaughtInv
  <2>4. ASSUME NEW s \in stored', HourOf(Stamp[s]) < HourOf(T) - Delay["ah"] PROVE Safe(s)'
    BY <1>0, <1>3, <2>1, <2>3, <2>4, HoursFilledKept
  <2> QED
    BY <2>3, <2>4 DEF HoursFilledTo, HourOf
<1> QED
  BY <1>1, <1>2, <1>3 DEF HoursCaughtInv, AhFilled

MinutesTimely ==
    \A b \in Backends :
        At(b, "sleep") /\ backend[b].base # "none" /\ ~ backend[b].broken => MinutesCaughtTo(backend[b].fp)

HoursTimely ==
    \A b \in Backends :
        At(b, "sleep") /\ backend[b].base # "none" /\ ~ backend[b].broken =>
            (~ resumed /\ backend[b].next["ah"] = backend[b].fp + Hour => HoursFilledTo(backend[b].fp))

LEMMA MinutesInTime ==
    ASSUME Aligned, Kept, Late <= Delay["am"] PROVE Spec => []MinutesTimely
<1>1. Init => CaughtInv
  BY InitEmpty, InitPaced DEF CaughtInv, MinutesCaught
<1>2. CaughtInv /\ [Next]_vars => CaughtInv'
  BY CaughtStep
<1>3. CaughtInv => MinutesTimely
  <2>1. ASSUME CaughtInv, NEW b \in Backends, At(b, "sleep") PROVE ~ Has(backend[b].todo, 1)
    BY <2>1, NoStatement DEF CaughtInv, MinuteInv, ShapeInv, MeOK, At
  <2> QED
    BY <2>1 DEF CaughtInv, MinutesTimely, AmFilled, At
<1> QED
  BY <1>1, <1>2, <1>3, PTL DEF Spec

LEMMA HoursInTime ==
    ASSUME Aligned, Delays, KeptForMinutes, KeptForHours PROVE Spec => []HoursTimely
<1>1. Init => HoursCaughtInv
  BY InitEmpty, InitPaced
     DEF HoursCaughtInv, LostInv, HourInv, GroupedByHour, HourSamples, Held, MinutesHeld, HoursHeld
<1>2. HoursCaughtInv /\ [Next]_vars => HoursCaughtInv'
  BY HoursCaughtStep
<1>3. HoursCaughtInv => HoursTimely
  <2>1. ASSUME HoursCaughtInv, NEW b \in Backends, At(b, "sleep") PROVE ~ Has(backend[b].todo, 3)
    BY <2>1, NoStatement DEF HoursCaughtInv, LostInv, HourInv, MinuteInv, ShapeInv, MeOK, At
  <2> QED
    BY <2>1 DEF HoursCaughtInv, HoursTimely, AhFilled, At
<1> QED
  BY <1>1, <1>2, <1>3, PTL DEF Spec

\* With the same conditions on days and retentions: whatever statements, of whatever
\* backends, have failed before, a turn in which none fails leaves no sample in d$ that
\* is due in am$ and, when hours were due, none that is due in ah$.
THEOREM CaughtUp == ASSUME Aligned, KeptForMinutes, KeptForHours PROVE Spec => []Timely
<1>1. ASSUME Late <= Delay["am"] PROVE Kept
  <2>1. Retention["d"] > 0 => Delay["am"] + Slack <= Retention["d"] * Day
    BY DEF KeptForMinutes
  <2>2. Retention["d"] * Day \in Int
    BY Numbers
  <2> QED
    BY <1>1, <2>1, <2>2, Numbers DEF Kept
<1>2. CASE Delays
  <2>1. Spec => []MinutesTimely
    BY <1>1, <1>2, MinutesInTime DEF Delays
  <2>2. Spec => []HoursTimely
    BY <1>2, HoursInTime
  <2>3. MinutesTimely /\ HoursTimely => Timely
    BY DEF MinutesTimely, HoursTimely, Timely, MinutesCaughtTo, HoursFilledTo, HourOf, Safe, Sound
  <2> QED
    BY <2>1, <2>2, <2>3, PTL
<1>3. CASE Late <= Delay["am"] /\ ~ Delays
  <2>1. Spec => []MinutesTimely
    BY <1>1, <1>3, MinutesInTime
  <2>2. MinutesTimely => Timely
    BY <1>3 DEF MinutesTimely, Timely, MinutesCaughtTo, Sound, Delays
  <2> QED
    BY <2>1, <2>2, PTL
<1>4. CASE ~ (Late <= Delay["am"])
  <2>1. Timely
    BY <1>4 DEF Timely, Sound
  <2> QED
    BY <2>1, PTL
<1> QED
  BY <1>2, <1>3, <1>4
=============================================================================
