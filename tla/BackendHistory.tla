--------------------------- MODULE BackendHistory ---------------------------
(***************************************************************************)
(* Who watches the backends: agentManager::updateAgents writes a heartbeat *)
(* of its own backend into b$history every pool_freq seconds, and a row    *)
(* "failed" for every backend whose last row is too old.  Of the table the *)
(* newest row of either kind is kept: the code looks at max(timestamp).    *)
(*                                                                         *)
(* Time is counted in ticks.  A round of a running backend ends at most    *)
(* Slack ticks after its sleep did: the bound on what the queries and the  *)
(* HTTP requests to new agents take.  The hosts' clocks agree.             *)
(***************************************************************************)
EXTENDS Integers

CONSTANTS
    Backends,    \* rows of b$backend
    Period,      \* pool_freq
    Silence,     \* 600000 ms without a row: failed
    Lag,         \* 300000 ms: how far back the failed row is dated
    Slack,       \* bound: how long a round lasts
    MaxTime,     \* bound: length of the behaviour
    MaxMishaps   \* bound: crashes and refused statements, together

ASSUME TimesAssumption ==
    /\ {Period, Silence, Lag, Slack, MaxTime, MaxMishaps} \subseteq Nat
    /\ Slack < Lag /\ Lag <= Silence

VARIABLES
    now,       \* the time
    beatAt,    \* b$history: timestamp of the newest row "ok" of a backend
    markAt,    \* b$history: timestamp of the newest row "failed"
    pc,        \* where the main thread of a backend is
    wake,      \* end of its sleep
    ts,        \* fp_ms: the clock as this round of updateAgents read it
    beaten,    \* ghost: the backends whose process has written a heartbeat
    changedAt, \* ghost: when the backend went down or came up
    crashes, faults

vars == <<now, beatAt, markAt, pc, wake, ts, beaten, changedAt, crashes, faults>>

Never == -1

TypeOK ==
    /\ now \in 0..MaxTime
    /\ beatAt \in [Backends -> Nat \cup {Never}]
    /\ markAt \in [Backends -> Nat \cup {Never}]
    /\ pc \in [Backends -> {"down", "sleep", "beat", "detect"}]
    /\ wake \in [Backends -> Nat] /\ ts \in [Backends -> Nat]
    /\ beaten \subseteq Backends
    /\ changedAt \in [Backends -> Nat]
    /\ {crashes, faults} \subseteq Nat /\ crashes + faults <= MaxMishaps

Init ==
    /\ now = 0
    /\ beatAt = [b \in Backends |-> Never] /\ markAt = [b \in Backends |-> Never]
    /\ pc = [b \in Backends |-> "down"]
    /\ wake = [b \in Backends |-> 0] /\ ts = [b \in Backends |-> 0]
    /\ beaten = {}
    /\ changedAt = [b \in Backends |-> 0]
    /\ crashes = 0 /\ faults = 0

\* Time passes as long as no running backend is late
Tick ==
    /\ now < MaxTime
    /\ \A b \in Backends : pc[b] # "down" => now < wake[b] + Slack
    /\ now' = now + 1
    /\ UNCHANGED <<beatAt, markAt, pc, wake, ts, beaten, changedAt, crashes, faults>>

\* main() calls updateAgents at once when it starts
Start(b) ==
    /\ pc[b] = "down"
    /\ pc' = [pc EXCEPT ![b] = "sleep"]
    /\ wake' = [wake EXCEPT ![b] = now]
    /\ changedAt' = [changedAt EXCEPT ![b] = now]
    /\ UNCHANGED <<now, beatAt, markAt, ts, beaten, crashes, faults>>

Crash(b) ==
    /\ pc[b] # "down"
    /\ crashes + faults < MaxMishaps /\ crashes' = crashes + 1
    /\ pc' = [pc EXCEPT ![b] = "down"]
    /\ beaten' = beaten \ {b}
    /\ changedAt' = [changedAt EXCEPT ![b] = now]
    /\ wake' = [wake EXCEPT ![b] = 0] /\ ts' = [ts EXCEPT ![b] = 0]
    /\ UNCHANGED <<now, beatAt, markAt, faults>>

\* The sleep and the new agents are done: both statements that follow use this
\* reading of the clock
ReadClock(b) ==
    /\ pc[b] = "sleep" /\ wake[b] <= now
    /\ ts' = [ts EXCEPT ![b] = now]
    /\ pc' = [pc EXCEPT ![b] = "beat"]
    /\ UNCHANGED <<now, beatAt, markAt, wake, beaten, changedAt, crashes, faults>>

\* insert ... on duplicate key update failed=0, ok=1
Beat(b) ==
    /\ pc[b] = "beat"
    /\ pc' = [pc EXCEPT ![b] = "detect"]
    /\ \/ /\ beatAt' = [beatAt EXCEPT ![b] = ts[b]]
          /\ markAt' = [markAt EXCEPT ![b] = IF @ = ts[b] THEN Never ELSE @]
          /\ beaten' = beaten \cup {b}
          /\ UNCHANGED faults
       \/ /\ crashes + faults < MaxMishaps /\ faults' = faults + 1
          /\ UNCHANGED <<beatAt, markAt, beaten>>
    /\ UNCHANGED <<now, wake, ts, changedAt, crashes>>

\* Deviations: marks do not count as rows, one limit for both, both rows are old
SilentHeart(t) == {b \in Backends : beatAt[b] # Never /\ beatAt[b] < t - Silence}
SilentEarly(t) ==
    {b \in Backends : beatAt[b] # Never /\ \A row \in {beatAt[b], markAt[b]} : row < t - Lag}
SilentLate(t) ==
    {b \in Backends : beatAt[b] # Never
                      /\ \A row \in {beatAt[b], markAt[b]} : row < t - Silence - Lag}

\* The backends whose max(timestamp) is too old at t
Silent(t) ==
    {b \in Backends : /\ {beatAt[b], markAt[b]} # {Never}
                      /\ \A row \in {beatAt[b], markAt[b]} : row < t - Silence}

\* Deviation: the failed row is dated where the silence was found
DateNow(t) == t

DateFailed(t) == t - Lag

\* insert ... select: no row it adds can be there already, as Lag <= Silence.  When
\* it is refused nobody is marked, and the round is over all the same.
Detect(b) ==
    /\ pc[b] = "detect"
    /\ \/ /\ markAt' = [o \in Backends |-> IF o \in Silent(ts[b]) THEN DateFailed(ts[b])
                                                                 ELSE markAt[o]]
          /\ UNCHANGED faults
       \/ /\ crashes + faults < MaxMishaps /\ faults' = faults + 1
          /\ UNCHANGED markAt
    /\ pc' = [pc EXCEPT ![b] = "sleep"]
    /\ wake' = [wake EXCEPT ![b] = now + Period]
    /\ ts' = [ts EXCEPT ![b] = 0]
    /\ UNCHANGED <<now, beatAt, beaten, changedAt, crashes>>

Next ==
    \/ Tick
    \/ \E b \in Backends :
          Start(b) \/ Crash(b) \/ ReadClock(b) \/ Beat(b) \/ Detect(b)

Spec == Init /\ [][Next]_vars

-----------------------------------------------------------------------------
(***************************************************************************)
(* Properties                                                              *)
(***************************************************************************)
\* Two rounds of a backend write their heartbeats at most this far apart
Round == Period + 2 * Slack

\* If a round and its delays fit into the silence, a backend that runs and has
\* written a heartbeat is not marked failed (agentManager.cpp:85), unless the
\* database refuses statements.
LiveNotFailed ==
    [][\A b \in Backends :
          markAt'[b] > markAt[b] /\ faults = 0 /\ Round <= Silence => b \notin beaten]_vars

\* A backend that is down is marked failed by any other that runs: when a silence
\* and a round are over there is a failed row after its last heartbeat.  A refused
\* statement may cost one more round, not more.
FailureNoticed ==
    \A b, o \in Backends :
        (/\ pc[b] = "down" /\ beatAt[b] # Never
         /\ pc[o] # "down" /\ changedAt[o] <= changedAt[b]
         /\ now > changedAt[b] + Silence + (1 + faults) * Round)
        => markAt[b] > beatAt[b]

\* Whoever marks a backend failed, its failed rows go forward and stay more than
\* Silence - Lag apart: one silence does not fill the table.
FailedRowsApart ==
    [][\A b \in Backends :
          markAt'[b] # markAt[b] /\ markAt[b] # Never
            => markAt'[b] - markAt[b] > Silence - Lag]_vars

\* A failed row is dated into a real silence: no heartbeat lies in the
\* Silence - Lag before it, not even one that was written after the mark.
FailedIsSilent ==
    \A b \in Backends :
        markAt[b] # Never => beatAt[b] \notin (markAt[b] - (Silence - Lag))..markAt[b]
=============================================================================
