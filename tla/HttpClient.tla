----------------------------- MODULE HttpClient -----------------------------
(***************************************************************************)
(* How one agent is asked over HTTP: HttpClient::getJSON with its retry    *)
(* and its counters, on the client of sws/client_http.hpp with its kept    *)
(* connections and its reconnect, or on a fresh client_https.hpp client    *)
(* per request.  On the wire a reply is a "head" and two units of "body",  *)
(* the second an "end" if the agent closes behind it; a header that the    *)
(* agent broke off is a "cut".  The client runs on one thread; nothing it  *)
(* waits for has a timeout (get_timeout_timer returns none for             *)
(* Config::timeout = 0).                                                   *)
(***************************************************************************)
EXTENDS Integers, Sequences, FiniteSets

CONSTANTS
    Framings,   \* how agents end a body: "length", "chunked", "eof" (HTTP/1.0), or
                \* "none" of them
    MaxCalls    \* bound: calls of getJSON

ASSUME HttpAssumption ==
    /\ Framings \subseteq {"length", "chunked", "eof", "none"}
    /\ MaxCalls \in Nat

VARIABLES
    use_ssl,      \* certificates are there and c$agents asks for them
    framing,      \* that of this agent
    connections,  \* of the client by number, see Fresh
    call,         \* the call of getJSON and its Session, see Idle
    count,        \* ok, failed, parse
    rows,         \* sums of the columns of agt$history, and what no row was got for
    calls,        \* calls made
    mishaps,      \* refusals and lost connections this call met, up to two
    garbled,      \* some header was cut, or a body ended where nothing could tell
    thrown        \* headers that made the parser throw

ghosts == <<calls, mishaps, garbled, thrown>>
server == <<use_ssl, framing>>
vars   == <<server, connections, call, count, rows, ghosts>>

\* peer: the agent's end is up; out: what the agent has yet to send of its replies;
\* wire: what it sent and the client has not read
Fresh == [open |-> FALSE, in_use |-> FALSE, reconnecting |-> FALSE,
          peer |-> FALSE, out |-> <<>>, wire |-> <<>>]

\* last: how the last call ended; attempt: its first or second request; gets:
\* requests written; junk: what content_buffer held before the header, "cut" if a
\* broken header; got: units of body in it (3: more than a body); reading: how the
\* header was understood
Idle == [pc |-> "idle", last |-> "ok", attempt |-> 0, gets |-> 0, conn |-> 0,
         junk |-> "none", got |-> 0, reading |-> "none"]

NoCount == [ok |-> 0, failed |-> 0, parse |-> 0]

Init ==
    /\ use_ssl \in BOOLEAN /\ framing \in Framings
    /\ connections = <<>> /\ call = Idle
    /\ count = NoCount /\ rows = [ok |-> 0, failed |-> 0, missing |-> 0, parse |-> 0, lost |-> 0]
    /\ calls = 0 /\ mishaps = 0 /\ garbled = FALSE /\ thrown = 0

Current   == connections[call.conn]
With(c)   == [connections EXCEPT ![call.conn] = c]
Mishap    == mishaps' = IF mishaps = 2 THEN 2 ELSE mishaps + 1
At(p)     == call.pc = p
Goto(p)   == call' = [call EXCEPT !.pc = p]

(***************************************************************************)
(* One request: its connection and its ends                                *)
(***************************************************************************)
Renewed(c)  == [c EXCEPT !.in_use = TRUE, !.reconnecting = FALSE]
Released(c) == [c EXCEPT !.in_use = FALSE]

Closed(c)   == [Fresh EXCEPT !.in_use = c.in_use, !.reconnecting = c.reconnecting]

Kept == IF use_ssl THEN <<>> ELSE connections  \* https starts from a new client

NewId(cs) == CHOOSE i \in 1..Cardinality(DOMAIN cs) + 1 : i \notin DOMAIN cs

\* get_connection: the first that is not in use, the others not in use are erased;
\* or a new one
Request(cs, me) ==
    LET used  == {i \in DOMAIN cs : cs[i].in_use}
        free  == DOMAIN cs \ used
        conn  == IF free = {} THEN NewId(cs) ELSE CHOOSE i \in free : \A j \in free : i <= j
        taken == [i \in used \cup {conn} |->
                    IF i # conn THEN cs[i] ELSE Renewed(IF free = {} THEN Fresh ELSE cs[i])]
    IN  /\ connections' = taken
        /\ call' = [me EXCEPT !.conn = conn, !.junk = "none", !.got = 0, !.reading = "none",
                              !.pc = IF taken[conn].open THEN "write" ELSE "connect"]

\* Deviations: getJSON gives up at once, or never
RetriesNever  == FALSE
RetriesAlways == TRUE

\* getJSON catches what request throws and tries once more
Retries == call.attempt = 1

Throws(cs) ==
    IF Retries
    THEN /\ Request(IF use_ssl THEN <<>> ELSE cs, [call EXCEPT !.attempt = 2])
         /\ UNCHANGED count
    ELSE /\ connections' = cs /\ call' = [Idle EXCEPT !.last = "failed", !.gets = call.gets]
         /\ count' = [count EXCEPT !.failed = @ + 1]

\* Deviation: a failed request keeps its connection in use
ErrorKeeps == Throws(With(Closed(Current)))

\* close(session), then the callback with the error
Error == Throws(With(Released(Closed(Current))))

\* The callback without an error; what is not the whole body is no JSON
Reply(c, whole) ==
    LET result == IF whole THEN "ok" ELSE "parse" IN
    /\ connections' = With(Released(c))
    /\ call' = [Idle EXCEPT !.last = result, !.gets = call.gets]
    /\ count' = [count EXCEPT ![result] = @ + 1]

(***************************************************************************)
(* getJSON, and the counters                                               *)
(***************************************************************************)
\* A connection that was lost meanwhile is the first mishap of the call
Call ==
    /\ At("idle") /\ calls < MaxCalls /\ calls' = calls + 1
    /\ Request(Kept, [Idle EXCEPT !.attempt = 1])
    /\ mishaps' = LET c == connections'[call'.conn] IN IF c.open /\ ~ c.peer THEN 1 ELSE 0
    /\ UNCHANGED <<server, count, rows, garbled, thrown>>

\* Deviation: resetCount forgets one counter
ResetMost == [NoCount EXCEPT !.parse = count.parse]

Reset == NoCount

\* The row of an interval; one without any answer counts as failed, not as missing
NewRow == [ok      |-> rows.ok + count.ok,
           parse   |-> rows.parse + count.parse,
           failed  |-> rows.failed + (IF count.ok = 0 THEN count.failed ELSE 0),
           missing |-> rows.missing + (IF count.ok = 0 THEN 0 ELSE count.failed),
           lost    |-> rows.lost]

\* No connection, or a refused insert: the counters are reset all the same
LostRow == [rows EXCEPT !.lost = @ + count.ok + count.failed + count.parse]

\* updateApi before it asks for the API: resetCount, and a row if there is anything
\* to tell
Report ==
    /\ At("idle") /\ count # NoCount
    /\ count' = Reset
    /\ rows' \in {NewRow, LostRow}
    /\ UNCHANGED <<server, connections, call, ghosts>>

(***************************************************************************)
(* Connect, handshake, write                                               *)
(***************************************************************************)
Connect ==
    /\ At("connect")
    /\ connections' = With([Current EXCEPT !.open = TRUE, !.peer = TRUE])
    /\ Goto(IF use_ssl THEN "handshake" ELSE "write")
    /\ UNCHANGED <<server, count, rows, ghosts>>

ConnectFails ==
    /\ At("connect") /\ Error /\ Mishap
    /\ UNCHANGED <<server, rows, calls, garbled, thrown>>

Handshake ==
    /\ At("handshake") /\ Current.peer
    /\ Goto("write")
    /\ UNCHANGED <<server, connections, count, rows, ghosts>>

HandshakeFails ==
    /\ At("handshake") /\ Error /\ Mishap
    /\ UNCHANGED <<server, rows, calls, garbled, thrown>>

Units == <<"head", "body", IF framing = "eof" THEN "end" ELSE "body">>

\* The request reaches the agent, or nobody when the agent has closed
Write ==
    /\ At("write")
    /\ call' = [call EXCEPT !.pc = "read", !.gets = @ + 1]
    /\ \/ /\ Current.peer
          /\ connections' = With([Current EXCEPT !.out = @ \o Units])
          /\ garbled' = (garbled \/ framing = "none")
       \/ ~ Current.peer /\ UNCHANGED <<connections, garbled>>
    /\ UNCHANGED <<server, count, rows, calls, mishaps, thrown>>

WriteFails ==
    /\ At("write") /\ ~ Current.peer
    /\ Error
    /\ UNCHANGED <<server, rows, ghosts>>

(***************************************************************************)
(* Read                                                                    *)
(***************************************************************************)
Heads == {i \in 1..Len(Current.wire) : Current.wire[i] = "head"}

\* The junk after these units
Behind(units) ==
    IF \E i \in 1..Len(units) : units[i] = "cut" THEN "cut"
    ELSE IF units # <<>> /\ call.junk = "none" THEN "left" ELSE call.junk

\* Deviation: the lines of the header are not found
ReadingsBlind(junk) == {"none"}

\* What a header can be taken for.  Before it the buffer may hold what was read
\* before the reconnect, or the wire what an earlier reply left: then the header
\* may lose its lines, or its version ("garbage": read to the end), and behind a
\* broken header the length may be no number.
Readings(junk) ==
    {framing} \cup (IF junk = "none" THEN {} ELSE {"none", "garbage"})
        \cup (IF junk = "cut" THEN {"throws"} ELSE {})

\* The header, and k units that came with it
ReadHead ==
    /\ At("read") /\ Heads # {}
    /\ LET head == CHOOSE i \in Heads : \A j \in Heads : i <= j
           wire == Current.wire
           rest == SubSeq(wire, head + 1, Len(wire))
           junk == Behind(SubSeq(wire, 1, head - 1))
       IN  \E r \in Readings(junk), k \in 0..Len(rest) :
             LET c == [Current EXCEPT !.reconnecting = FALSE,
                                      !.wire = SubSeq(rest, k + 1, Len(rest))]
             IN  CASE r = "throws" -> Throws(With(c)) /\ thrown' = thrown + 1
                 []   r = "none"   -> Reply(c, junk = "none" /\ k = 2) /\ UNCHANGED thrown
                 []   OTHER        ->
                        /\ connections' = With(c)
                        /\ call' = [call EXCEPT !.pc = "body", !.reading = r, !.got = k,
                                                !.junk = "none"]
                        /\ UNCHANGED <<count, thrown>>
    /\ UNCHANGED <<server, rows, calls, mishaps, garbled>>

Reconnecting(c) == [c EXCEPT !.reconnecting = TRUE]

\* The end of the stream: reconnect, with the buffer as it is, but not twice
ReadFails ==
    /\ At("read") /\ Heads = {} /\ ~ Current.peer
    /\ IF Current.reconnecting THEN Error
       ELSE /\ connections' = With(Reconnecting(Closed(Current)))
            /\ call' = [call EXCEPT !.pc = "connect", !.junk = Behind(Current.wire)]
            /\ UNCHANGED count
    /\ UNCHANGED <<server, rows, ghosts>>

Done == call.got = 2

\* One more unit of a body of known length, chunked, or to the end of the stream
ReadUnit(readings) ==
    /\ At("body") /\ call.reading \in readings
    /\ Current.wire # <<>>
    /\ connections' = With([Current EXCEPT !.wire = Tail(@)])
    /\ call' = [call EXCEPT !.got = IF @ = 3 THEN 3 ELSE @ + 1]
    /\ UNCHANGED <<server, count, rows, ghosts>>

ReadLength  == ~ Done /\ ReadUnit({"length"})
ReadChunked == ~ Done /\ ReadUnit({"chunked"})
ReadToEnd   == ReadUnit({"eof", "garbage"})

BodyEnds ==
    /\ At("body")
    /\ \/ call.reading \in {"length", "chunked"} /\ Done /\ Reply(Current, TRUE)
       \/ /\ call.reading \in {"eof", "garbage"} /\ Current.wire = <<>> /\ ~ Current.peer
          /\ Reply(Closed(Current), call.reading = "eof" /\ Done)
    /\ UNCHANGED <<server, rows, ghosts>>

BodyFails ==
    /\ At("body") /\ call.reading \in {"length", "chunked"} /\ ~ Done
    /\ Current.wire = <<>> /\ ~ Current.peer
    /\ Error
    /\ UNCHANGED <<server, rows, ghosts>>

\* A body that is read to its end and meets an error of another kind (a reset): the
\* callback has the error
BodyBreaks ==
    /\ At("body") /\ call.reading \in {"eof", "garbage"} /\ Current.peer
    /\ Error /\ Mishap
    /\ UNCHANGED <<server, rows, calls, garbled, thrown>>

(***************************************************************************)
(* The agent                                                               *)
(***************************************************************************)
\* It closes after the last unit of a reply that only its end delimits: the client
\* of an earlier request's reply loses its connection
AgentSends ==
    /\ ~ At("idle") /\ Current.out # <<>>
    /\ LET u == Head(Current.out) IN
          /\ connections' = With([Current EXCEPT !.wire = Append(@, u), !.peer = u # "end",
                                      !.out = IF u = "end" THEN <<>> ELSE Tail(@)])
          /\ IF u = "end" /\ (At("write") \/ Len(Current.out) > 1) THEN Mishap ELSE UNCHANGED mishaps
    /\ UNCHANGED <<server, call, count, rows, calls, garbled, thrown>>

\* At any time, in the middle of a header too
AgentCloses(i) ==
    /\ connections[i].peer
    /\ LET c == connections[i] IN
       \E broken \in {<<>>, <<"cut">>} :
          /\ broken # <<>> => c.out # <<>> /\ Head(c.out) = "head"
          /\ connections' = [connections EXCEPT ![i].peer = FALSE, ![i].out = <<>>,
                                                ![i].wire = @ \o broken]
          /\ garbled' = (garbled \/ broken # <<>> \/ (\E j \in 1..Len(c.out) : c.out[j] = "end"
                                                       /\ c.out[1] # "head"))
    /\ IF i = call.conn THEN Mishap ELSE UNCHANGED mishaps
    /\ UNCHANGED <<server, call, count, rows, calls, thrown>>

\* An agent, a Simple-Web-Server too, closes connections on which nothing happens
AgentTimesOut == call.pc \in {"read", "body"} /\ Current.out = <<>> /\ AgentCloses(call.conn)

Client ==
    \/ Connect \/ ConnectFails \/ Handshake \/ HandshakeFails \/ Write \/ WriteFails
    \/ ReadHead \/ ReadFails \/ ReadLength \/ ReadChunked \/ ReadToEnd \/ BodyEnds \/ BodyFails

Next ==
    \/ Call \/ Report \/ Client \/ BodyBreaks
    \/ AgentSends \/ \E i \in DOMAIN connections : AgentCloses(i)

Spec == Init /\ [][Next]_vars

\* io_service.run ends only with the request, and the agent is alive
FairSpec == Spec /\ WF_vars(Client) /\ WF_vars(AgentSends) /\ WF_vars(AgentTimesOut)

(***************************************************************************)
(* Properties                                                              *)
(***************************************************************************)
Connection == [open : BOOLEAN, in_use : BOOLEAN, reconnecting : BOOLEAN, peer : BOOLEAN,
               out : Seq({"head", "body", "end"}), wire : Seq({"head", "body", "end", "cut"})]

Calls == [pc : {"idle", "connect", "handshake", "write", "read", "body"},
          last : {"ok", "failed", "parse"}, attempt : 0..2, gets : Nat, conn : Nat,
          junk : {"none", "left", "cut"}, got : Nat,
          reading : Framings \cup {"none", "garbage"}]

\* Types; but for the last ones of a broken client a call has a connection, which is
\* its own
TypeOK ==
    /\ use_ssl \in BOOLEAN /\ framing \in Framings
    /\ \A i \in DOMAIN connections : connections[i] \in Connection
    /\ call \in Calls
    /\ At("idle") \/ (call.conn \in DOMAIN connections /\ Current.in_use /\ call.attempt # 0)
    /\ count \in [ok : Nat, failed : Nat, parse : Nat]
    /\ rows \in [ok : Nat, failed : Nat, missing : Nat, parse : Nat, lost : Nat]
    /\ calls \in Nat /\ thrown \in Nat /\ mishaps \in 0..2 /\ garbled \in BOOLEAN

\* getJSON retries once and each request reconnects once: however often the agent
\* closes, one call asks it at most four times
AtMostFourGets == call.gets <= 4

\* A call that fails met two lost connections or refusals: the one that the agent
\* closed while it was idle, or any other single one, is survived (the comment at
\* config.cpp:61)
OneMishapIsSurvived == At("idle") /\ call.last = "failed" => mishaps = 2

\* A reply is taken for broken JSON only after the agent broke off a header or a
\* body that only its end delimits, or sent a body that nothing delimits
ParseNeedsGarbled == count.parse + rows.parse > 0 => garbled

\* The client keeps one connection, but for those left in use for ever by a header
\* whose length is no number
OneConnection ==
    Cardinality(DOMAIN connections) <= 1 + thrown

\* Every call that ended is in a counter, or was in the one report that came next: in
\* one column of its row, or lost with the whole row when the database refused it
\* (agentClient.cpp:163, 174, 187: reset first, then written)
CountsKept ==
    count.ok + count.failed + count.parse
        + rows.ok + rows.failed + rows.missing + rows.parse + rows.lost
        = IF At("idle") THEN calls ELSE calls - 1

\* Although nothing has a timeout, a call returns if the agent answers or closes
\* what it does not use
Returns == ~ At("idle") ~> At("idle")
=============================================================================
