------------------------ MODULE BackendHistoryProofs ------------------------
(***************************************************************************)
(* What BackendHistory claims of b$history, for any number of backends,    *)
(* any times within TimesAssumption and any length of a behaviour.         *)
(*                                                                         *)
(* The argument is about the age of things.  A round is never older than   *)
(* Slack, so a heartbeat being written is younger than any mark (Prompt,   *)
(* MarksOld: Slack < Lag); the sleep of a process that has written one     *)
(* ends soon after it (Beating); and a process that has been up since      *)
(* before another one died has marked it, or is still before the first of  *)
(* its rounds that could (Watching): a round whose marks the database      *)
(* refuses puts that off by one round, and no more than the refused        *)
(* statements there were (Delay).                                          *)
(***************************************************************************)
EXTENDS BackendHistory, TLAPS

Up(b) == pc[b] # "down"

\* A running process is at most Slack behind its sleep, and not far ahead of it
Prompt ==
    \A b \in Backends : Up(b) => now <= wake[b] + Slack /\ wake[b] <= now + Period

\* The clock as a round has read it
RoundClock ==
    \A b \in Backends :
        /\ ts[b] <= now
        /\ pc[b] \in {"beat", "detect"} => wake[b] <= ts[b]

\* Rows are not from the future; failed ones are Lag old when they are written
MarksOld == \A b \in Backends : markAt[b] # Never => markAt[b] + Lag <= now
BeatsPast ==
    \A b \in Backends : beatAt[b] <= now /\ (pc[b] = "down" => beatAt[b] <= changedAt[b])

\* A process whose heartbeats are all accepted sleeps no longer than a period
\* behind its last one
Beating ==
    faults = 0 =>
        \A b \in beaten :
            /\ Up(b) /\ beatAt[b] # Never
            /\ pc[b] \in {"sleep", "beat"} => wake[b] <= beatAt[b] + Period + Slack
            /\ pc[b] = "detect" => beatAt[b] = ts[b]

\* o has been up since before b went down
Watches(o, b) == Up(o) /\ ~ Up(b) /\ beatAt[b] # Never /\ changedAt[o] <= changedAt[b]

\* What the refused statements can have cost
Delay == faults * Round

Watching ==
    \A b, o \in Backends :
        Watches(o, b) => \/ markAt[b] > beatAt[b]
                         \/ wake[o] <= changedAt[b] + Silence + Slack + Period + Delay

Times == Prompt /\ RoundClock /\ MarksOld /\ BeatsPast

Inv == TypeOK /\ Times /\ Beating /\ Watching /\ FailedIsSilent

-----------------------------------------------------------------------------
LEMMA ConstantsNat ==
    /\ Period \in Nat /\ Silence \in Nat /\ Lag \in Nat /\ Slack \in Nat
    /\ MaxTime \in Nat /\ MaxMishaps \in Nat
    /\ Slack < Lag /\ Lag <= Silence
  BY TimesAssumption

LEMMA RoundNat == Round \in Nat /\ Round = Period + 2 * Slack
  BY ConstantsNat DEF Round

LEMMA DelayType == TypeOK => Delay \in Nat
<1> SUFFICES ASSUME TypeOK PROVE Delay \in Nat
  OBVIOUS
<1>1. faults \in Nat
  BY DEF TypeOK
<1> QED
  BY <1>1, RoundNat DEF Delay

LEMMA SameDelay == faults' = faults => Delay' = Delay
  BY DEF Delay, Round

\* A refused statement adds a round
LEMMA MoreDelay == TypeOK /\ faults' = faults + 1 => Delay' = Delay + Round
<1> SUFFICES ASSUME TypeOK, faults' = faults + 1 PROVE Delay' = Delay + Round
  OBVIOUS
<1>1. faults \in Nat
  BY DEF TypeOK
<1>2. (faults + 1) * Round = faults * Round + Round
  BY <1>1, RoundNat
<1>3. Delay' = (faults + 1) * Round
  BY DEF Delay, Round
<1> QED
  BY <1>2, <1>3 DEF Delay

LEMMA InitInv == Init => Inv
  BY ConstantsNat
     DEF Init, Inv, TypeOK, Times, Prompt, RoundClock, MarksOld, BeatsPast, Beating,
         Watching, Watches, FailedIsSilent, Up, Never

LEMMA TickInv == Inv /\ Tick => Inv'
<1> SUFFICES ASSUME Inv, Tick PROVE Inv'
  OBVIOUS
<1> USE ConstantsNat
<1>1. now \in Nat /\ now' = now + 1 /\ now' <= MaxTime
  BY DEF Inv, TypeOK, Tick
<1>2. UNCHANGED <<beatAt, markAt, pc, wake, ts, beaten, changedAt, crashes, faults>>
  BY DEF Tick
<1>3. TypeOK'
  BY <1>1, <1>2 DEF Inv, TypeOK
<1>4. Times'
  BY <1>1, <1>2 DEF Inv, TypeOK, Times, Prompt, RoundClock, MarksOld, BeatsPast, Tick, Up, Never
<1>5. Beating' /\ Watching' /\ FailedIsSilent'
  BY <1>2, SameDelay DEF Inv, Beating, Watching, Watches, FailedIsSilent, Up
<1> QED
  BY <1>3, <1>4, <1>5 DEF Inv

LEMMA StartInv == ASSUME Inv, NEW b \in Backends, Start(b) PROVE Inv'
<1> USE ConstantsNat DEF Never
<1>1. TypeOK'
  BY DEF Inv, TypeOK, Start
<1>2. Times'
  BY DEF Inv, TypeOK, Times, Prompt, RoundClock, MarksOld, BeatsPast, Start, Up
<1>3. Beating'
  BY DEF Inv, TypeOK, Beating, Start, Up
<1>4. Watching'
  BY SameDelay, DelayType DEF Inv, TypeOK, Watching, Watches, Start, Up
<1>5. FailedIsSilent'
  BY DEF Inv, FailedIsSilent, Start
<1> QED
  BY <1>1, <1>2, <1>3, <1>4, <1>5 DEF Inv

\* The one that goes down is watched from now on; a watcher sleeps a period at most
LEMMA CrashInv == ASSUME Inv, NEW b \in Backends, Crash(b) PROVE Inv'
<1> USE ConstantsNat DEF Never
<1>1. TypeOK'
  BY DEF Inv, TypeOK, Crash
<1>2. Times'
  BY DEF Inv, TypeOK, Times, Prompt, RoundClock, MarksOld, BeatsPast, Crash, Up
<1>3. Beating'
  BY DEF Inv, TypeOK, Beating, Crash, Up
<1>4. Watching'
  BY SameDelay, DelayType DEF Inv, TypeOK, Times, Prompt, Watching, Watches, Crash, Up
<1>5. FailedIsSilent'
  BY DEF Inv, FailedIsSilent, Crash
<1> QED
  BY <1>1, <1>2, <1>3, <1>4, <1>5 DEF Inv

LEMMA ReadClockInv == ASSUME Inv, NEW b \in Backends, ReadClock(b) PROVE Inv'
<1> USE ConstantsNat DEF Never
<1>1. TypeOK'
  BY DEF Inv, TypeOK, ReadClock
<1>2. Times'
  BY DEF Inv, TypeOK, Times, Prompt, RoundClock, MarksOld, BeatsPast, ReadClock, Up
<1>3. Beating'
  BY DEF Inv, TypeOK, Beating, ReadClock, Up
<1>4. Watching'
  BY SameDelay DEF Inv, TypeOK, Watching, Watches, ReadClock, Up
<1>5. FailedIsSilent'
  BY DEF Inv, FailedIsSilent, ReadClock
<1> QED
  BY <1>1, <1>2, <1>3, <1>4, <1>5 DEF Inv

\* A heartbeat is dated after every failed row: the round is not older than Slack
LEMMA BeatInv == ASSUME Inv, NEW b \in Backends, Beat(b) PROVE Inv'
<1> USE ConstantsNat DEF Never
<1>1. TypeOK'
  BY DEF Inv, TypeOK, Beat
<1>2. Times'
  BY DEF Inv, TypeOK, Times, Prompt, RoundClock, MarksOld, BeatsPast, Beat, Up
<1>3. Beating'
  BY DEF Inv, TypeOK, Beating, Beat, Up
<1>4. Watching'
  <2>1. Delay \in Nat /\ Delay' \in Nat /\ Delay' >= Delay
    BY SameDelay, MoreDelay, DelayType, RoundNat DEF Inv, Beat
  <2> QED
    BY <2>1 DEF Inv, TypeOK, Watching, Watches, Beat, Up
<1>5. markAt[b] # Never => markAt[b] < ts[b]
  BY DEF Inv, TypeOK, Times, Prompt, RoundClock, MarksOld, Beat, Up
<1>6. FailedIsSilent'
  BY <1>5 DEF Inv, TypeOK, FailedIsSilent, Beat
<1> QED
  BY <1>1, <1>2, <1>3, <1>4, <1>6 DEF Inv

\* What a row "failed" written at t says
LEMMA SilentRows ==
    ASSUME TypeOK, NEW t \in Nat, NEW b \in Silent(t)
    PROVE  /\ b \in Backends /\ t - Lag \in Nat
           /\ beatAt[b] < t - Silence /\ markAt[b] < t - Silence
<1>1. b \in Backends /\ {beatAt[b], markAt[b]} # {Never}
      /\ \A row \in {beatAt[b], markAt[b]} : row < t - Silence
  BY DEF Silent
<1>2. beatAt[b] \in Nat \cup {Never} /\ markAt[b] \in Nat \cup {Never}
  BY <1>1 DEF TypeOK
<1>3. beatAt[b] < t - Silence /\ markAt[b] < t - Silence
  BY <1>1
<1>4. beatAt[b] \in Nat \/ markAt[b] \in Nat
  BY <1>1, <1>2
<1> QED
  BY <1>1, <1>2, <1>3, <1>4, ConstantsNat DEF Never

LEMMA OthersSpoke ==
    ASSUME TypeOK, NEW t \in Nat, NEW b \in Backends \ Silent(t), beatAt[b] # Never
    PROVE  beatAt[b] >= t - Silence \/ markAt[b] >= t - Silence
<1>1. beatAt[b] \in Int /\ markAt[b] \in Int
  BY DEF TypeOK, Never
<1>2. ~ \A row \in {beatAt[b], markAt[b]} : row < t - Silence
  BY DEF Silent
<1> QED
  BY <1>1, <1>2, ConstantsNat

LEMMA MarkingInv ==
    ASSUME Inv, NEW o \in Backends, Detect(o), UNCHANGED faults,
           markAt' = [b \in Backends |-> IF b \in Silent(ts[o]) THEN DateFailed(ts[o])
                                                             ELSE markAt[b]]
    PROVE  Inv'
<1> USE ConstantsNat
<1> DEFINE t == ts[o]
<1>1. /\ TypeOK /\ t \in Nat /\ now \in Nat
      /\ pc[o] = "detect" /\ wake[o] <= t /\ t <= now /\ now <= t + Slack
  BY DEF Inv, TypeOK, Times, Prompt, RoundClock, Detect, Up
<1>2. \A b \in Silent(t) : markAt'[b] = t - Lag /\ t - Lag \in Nat
                           /\ beatAt[b] < t - Silence /\ markAt[b] < t - Silence
  BY <1>1, SilentRows DEF DateFailed
<1>3. \A b \in Backends \ Silent(t) : markAt'[b] = markAt[b]
  OBVIOUS
<1>4. markAt' \in [Backends -> Nat \cup {Never}]
  <2>1. \A b \in Backends : markAt'[b] \in Nat \cup {Never}
    BY <1>1, <1>2, <1>3 DEF TypeOK
  <2> QED
    BY <2>1
<1>5. /\ pc' = [pc EXCEPT ![o] = "sleep"] /\ wake' = [wake EXCEPT ![o] = now + Period]
      /\ ts' = [ts EXCEPT ![o] = 0]
      /\ UNCHANGED <<now, beatAt, beaten, changedAt, crashes, faults>>
  BY DEF Detect
<1>6. TypeOK'
  BY <1>1, <1>4, <1>5 DEF TypeOK
<1>7. Times'
  <2>1. Prompt' /\ RoundClock' /\ BeatsPast'
    BY <1>1, <1>5 DEF Inv, TypeOK, Times, Prompt, RoundClock, BeatsPast, Up, Never
  <2>2. MarksOld'
    <3> SUFFICES ASSUME NEW b \in Backends, markAt'[b] # Never PROVE markAt'[b] + Lag <= now'
      BY DEF MarksOld
    <3>1. CASE b \in Silent(t)
      <4>1. markAt'[b] = t - Lag /\ t \in Nat /\ t <= now /\ now' = now
        BY <1>1, <1>2, <1>5, <3>1
      <4> QED
        BY <1>1, <4>1
    <3>2. CASE b \notin Silent(t)
      BY <1>3, <1>5, <3>2 DEF Inv, Times, MarksOld
    <3> QED
      BY <3>1, <3>2
  <2> QED
    BY <2>1, <2>2 DEF Times
<1>8. Beating'
  BY <1>1, <1>5 DEF Inv, TypeOK, Beating, Up, Never
<1>9. Watching'
  <2> SUFFICES ASSUME NEW b \in Backends, NEW p \in Backends, Watches(p, b)'
               PROVE  \/ markAt'[b] > beatAt'[b]
                      \/ wake'[p] <= changedAt'[b] + Silence + Slack + Period + Delay'
    BY DEF Watching
  <2>1. Watches(p, b) /\ b # o
    BY <1>1, <1>5 DEF Watches, Up, TypeOK
  <2>2. /\ beatAt'[b] = beatAt[b] /\ beatAt[b] \in Nat /\ changedAt'[b] = changedAt[b]
        /\ markAt[b] \in Int /\ changedAt[b] \in Nat /\ wake[p] \in Nat
        /\ beatAt[b] <= changedAt[b] /\ Delay' = Delay /\ Delay \in Nat
    BY SameDelay, DelayType, <1>1, <1>5, <2>1 DEF Watches, Up, Inv, Times, BeatsPast, TypeOK, Never
  <2>3. CASE b \in Silent(t)
    BY <1>1, <1>2, <2>2, <2>3
  <2>4. CASE b \notin Silent(t) /\ p # o
    BY <1>1, <1>3, <1>5, <2>1, <2>2, <2>4 DEF Inv, Watching, TypeOK
  <2>5. CASE b \notin Silent(t) /\ p = o
    <3>1. wake'[p] = now + Period
      BY <1>1, <1>5, <2>5 DEF TypeOK
    <3>2. beatAt[b] >= t - Silence \/ markAt[b] >= t - Silence
      BY <1>1, <2>1, <2>5, OthersSpoke DEF Watches
    <3>3. CASE t <= changedAt[b] + Silence
      BY <1>1, <2>2, <3>1, <3>3
    <3>4. CASE t > changedAt[b] + Silence
      BY <1>1, <1>3, <2>2, <2>5, <3>2, <3>4
    <3> QED
      BY <1>1, <2>2, <3>3, <3>4
  <2> QED
    BY <2>3, <2>4, <2>5
<1>10. FailedIsSilent'
  <2> SUFFICES ASSUME NEW b \in Backends, markAt'[b] # Never
               PROVE  beatAt'[b] \notin (markAt'[b] - (Silence - Lag))..markAt'[b]
    BY DEF FailedIsSilent
  <2>1. CASE b \in Silent(t)
    <3>1. beatAt[b] \in Int
      BY <1>1 DEF TypeOK, Never
    <3> QED
      BY <1>1, <1>2, <1>5, <2>1, <3>1
  <2>2. CASE b \notin Silent(t)
    BY <1>3, <1>5, <2>2 DEF Inv, FailedIsSilent
  <2> QED
    BY <2>1, <2>2
<1> QED
  BY <1>6, <1>7, <1>8, <1>9, <1>10 DEF Inv

\* The marks are refused: the next round of o comes a round after this one
LEMMA RefusedInv ==
    ASSUME Inv, NEW o \in Backends, Detect(o), faults' = faults + 1,
           crashes + faults < MaxMishaps, UNCHANGED markAt
    PROVE  Inv'
<1> USE ConstantsNat
<1>1. /\ TypeOK /\ ts[o] \in Nat /\ now \in Nat /\ wake[o] \in Nat
      /\ pc[o] = "detect" /\ wake[o] <= ts[o] /\ ts[o] <= now /\ now <= wake[o] + Slack
  BY DEF Inv, TypeOK, Times, Prompt, RoundClock, Detect, Up
<1>2. /\ pc' = [pc EXCEPT ![o] = "sleep"] /\ wake' = [wake EXCEPT ![o] = now + Period]
      /\ ts' = [ts EXCEPT ![o] = 0]
      /\ UNCHANGED <<now, beatAt, beaten, changedAt, crashes>>
  BY DEF Detect
<1>3. TypeOK'
  BY <1>1, <1>2 DEF TypeOK
<1>4. Times'
  BY <1>1, <1>2 DEF Inv, TypeOK, Times, Prompt, RoundClock, MarksOld, BeatsPast, Up, Never
<1>5. Beating'
  BY <1>1 DEF TypeOK, Beating
<1>6. Watching'
  <2> SUFFICES ASSUME NEW b \in Backends, NEW p \in Backends, Watches(p, b)'
               PROVE  \/ markAt'[b] > beatAt'[b]
                      \/ wake'[p] <= changedAt'[b] + Silence + Slack + Period + Delay'
    BY DEF Watching
  <2>1. Watches(p, b)
    BY <1>1, <1>2 DEF Watches, Up, TypeOK
  <2>2. /\ Delay' = Delay + Round /\ Delay \in Nat /\ Round \in Nat
        /\ Round = Period + 2 * Slack /\ changedAt[b] \in Nat /\ wake[p] \in Nat
    BY <1>1, MoreDelay, DelayType, RoundNat DEF TypeOK
  <2>3. CASE markAt[b] > beatAt[b]
    BY <1>2, <2>3
  <2>4. CASE wake[p] <= changedAt[b] + Silence + Slack + Period + Delay
    <3>1. wake'[p] = wake[p] \/ (p = o /\ wake'[p] = now + Period)
      BY <1>1, <1>2 DEF TypeOK
    <3>2. CASE wake'[p] = wake[p]
      BY <1>2, <2>2, <2>4, <3>2
    <3>3. CASE p = o /\ wake'[p] = now + Period
      <4>1. now + Period <= wake[p] + Round
        BY <1>1, <2>2, <3>3
      <4> QED
        BY <1>1, <1>2, <2>2, <2>4, <3>3, <4>1
    <3> QED
      BY <3>1, <3>2, <3>3
  <2> QED
    BY <2>1, <2>3, <2>4 DEF Inv, Watching
<1>7. FailedIsSilent'
  BY <1>2 DEF Inv, FailedIsSilent
<1> QED
  BY <1>3, <1>4, <1>5, <1>6, <1>7 DEF Inv

LEMMA DetectInv == ASSUME Inv, NEW o \in Backends, Detect(o) PROVE Inv'
  BY MarkingInv, RefusedInv DEF Detect

LEMMA NextInv == Inv /\ [Next]_vars => Inv'
<1> SUFFICES ASSUME Inv, [Next]_vars PROVE Inv'
  OBVIOUS
<1>1. CASE Tick
  BY <1>1, TickInv
<1>2. CASE \E b \in Backends : Start(b) \/ Crash(b) \/ ReadClock(b) \/ Beat(b) \/ Detect(b)
  BY <1>2, StartInv, CrashInv, ReadClockInv, BeatInv, DetectInv
<1>3. CASE UNCHANGED vars
  BY <1>3 DEF vars, Inv, TypeOK, Times, Delay, Round, Prompt, RoundClock, MarksOld, BeatsPast, Beating,
              Watching, Watches, FailedIsSilent, Up
<1> QED
  BY <1>1, <1>2, <1>3 DEF Next

LEMMA Invariance == Spec => []Inv
  BY InitInv, NextInv, PTL DEF Spec

\* Only Detect moves a mark: a heartbeat is never dated like a failed row
LEMMA MarksMove ==
    ASSUME Inv, [Next]_vars, NEW b \in Backends, markAt'[b] # markAt[b]
    PROVE  \E o \in Backends : /\ Detect(o) /\ b \in Silent(ts[o])
                               /\ markAt'[b] = DateFailed(ts[o])
<1>1. ~ Tick /\ ~ UNCHANGED vars
  BY DEF Tick, vars
<1>2. ASSUME NEW o \in Backends, Start(o) \/ Crash(o) \/ ReadClock(o) PROVE FALSE
  BY <1>2 DEF Start, Crash, ReadClock
<1>3. ASSUME NEW o \in Backends, Beat(o) PROVE FALSE
  <2>1. markAt[o] # Never => markAt[o] < ts[o]
    BY <1>3, ConstantsNat DEF Inv, TypeOK, Times, Prompt, RoundClock, MarksOld, Beat, Up, Never
  <2>2. ts[o] \in Nat /\ markAt \in [Backends -> Nat \cup {Never}]
    BY DEF Inv, TypeOK
  <2>3. markAt' = markAt
    BY <1>3, <2>1, <2>2 DEF Beat, Never
  <2> QED
    BY <2>3
<1>4. ASSUME NEW o \in Backends, Detect(o)
      PROVE  b \in Silent(ts[o]) /\ markAt'[b] = DateFailed(ts[o])
  BY <1>4 DEF Detect
<1> QED
  BY <1>1, <1>2, <1>3, <1>4 DEF Next

-----------------------------------------------------------------------------
\* Every reachable state is well typed: no failed row is dated before the epoch, for
\* the rows that make a backend silent are older than it.
THEOREM TypeCorrect == Spec => []TypeOK
<1>1. Inv => TypeOK
  BY DEF Inv
<1> QED
  BY <1>1, Invariance, PTL

\* No heartbeat lies in the Silence - Lag before a failed row, not even one that was
\* still to be written when the backend was marked (updateAgents reads the clock
\* once for both statements).
THEOREM FailedMeansSilent == Spec => []FailedIsSilent
<1>1. Inv => FailedIsSilent
  BY DEF Inv
<1> QED
  BY <1>1, Invariance, PTL

\* A backend that is down is marked failed by any other that was up before: after a
\* silence and a round of updateAgents the failed row is there, or after one more
\* round for every statement the database has refused since the start.
THEOREM DeathIsNoticed == Spec => []FailureNoticed
<1>1. Inv => FailureNoticed
  <2> SUFFICES ASSUME Inv, NEW b \in Backends, NEW o \in Backends,
                      pc[b] = "down", beatAt[b] # Never, pc[o] # "down",
                      changedAt[o] <= changedAt[b],
                      now > changedAt[b] + Silence + (1 + faults) * Round
               PROVE  markAt[b] > beatAt[b]
    BY DEF FailureNoticed
  <2>1. Watches(o, b)
    BY DEF Watches, Up
  <2>2. now <= wake[o] + Slack
    BY DEF Inv, Times, Prompt, Up
  <2>3. now \in Nat /\ wake[o] \in Nat /\ changedAt[b] \in Nat
    BY DEF Inv, TypeOK
  <2>4. (1 + faults) * Round = Round + Delay /\ Delay \in Nat
    <3>1. faults \in Nat
      BY DEF Inv, TypeOK
    <3> QED
      BY <3>1, RoundNat DEF Delay
  <2>5. ~ (wake[o] <= changedAt[b] + Silence + Slack + Period + Delay)
    <3>1. now > changedAt[b] + Silence + (Period + 2 * Slack + Delay)
      BY <2>4, RoundNat
    <3> QED
      BY <2>2, <2>3, <2>4, <3>1, ConstantsNat
  <2> QED
    BY <2>1, <2>5 DEF Inv, Watching
<1> QED
  BY <1>1, Invariance, PTL

\* Failed rows of one backend go forward in time, more than Silence - Lag apart,
\* whichever backends write them.
THEOREM NoFlood == Spec => FailedRowsApart
<1> DEFINE Apart == \A b \in Backends : markAt'[b] # markAt[b] /\ markAt[b] # Never
                      => markAt'[b] - markAt[b] > Silence - Lag
<1>1. Inv /\ [Next]_vars => [Apart]_vars
  <2> SUFFICES ASSUME Inv, [Next]_vars,
                      NEW b \in Backends, markAt'[b] # markAt[b], markAt[b] # Never
               PROVE  markAt'[b] - markAt[b] > Silence - Lag
    OBVIOUS
  <2>1. PICK o \in Backends : /\ Detect(o) /\ b \in Silent(ts[o])
                             /\ markAt'[b] = DateFailed(ts[o])
    BY MarksMove
  <2>2. TypeOK /\ ts[o] \in Nat /\ markAt[b] \in Int
    BY DEF Inv, TypeOK, Never
  <2>3. markAt'[b] = ts[o] - Lag
    BY <2>1 DEF DateFailed
  <2>4. markAt[b] < ts[o] - Silence
    BY <2>1, <2>2, SilentRows
  <2> QED
    BY <2>2, <2>3, <2>4, ConstantsNat
<1> QED
  BY <1>1, Invariance, PTL DEF Spec, FailedRowsApart

\* A backend that runs and has written a heartbeat is not marked failed, if a round
\* and its delays fit into the silence and the database takes the heartbeats.
THEOREM LiveStaysOk == Spec => LiveNotFailed
<1> DEFINE Spared == \A b \in Backends :
              markAt'[b] > markAt[b] /\ faults = 0 /\ Round <= Silence => b \notin beaten
<1>1. Inv /\ [Next]_vars => [Spared]_vars
  <2> SUFFICES ASSUME Inv, [Next]_vars, NEW b \in Backends, markAt'[b] > markAt[b],
                      faults = 0, Round <= Silence, b \in beaten
               PROVE  FALSE
    OBVIOUS
  <2>1. TypeOK /\ markAt[b] \in Int
    BY DEF Inv, TypeOK, Never
  <2>2. PICK o \in Backends : Detect(o) /\ b \in Silent(ts[o])
    <3>1. markAt'[b] # markAt[b]
      BY <2>1
    <3> QED
      BY <3>1, MarksMove
  <2>3. ts[o] \in Nat /\ ts[o] <= now /\ now \in Nat
    BY DEF Inv, TypeOK, Times, RoundClock
  <2>4. beatAt[b] < ts[o] - Silence
    BY <2>1, <2>2, <2>3, SilentRows
  <2>5. now <= wake[b] + Slack /\ beatAt[b] \in Nat /\ wake[b] \in Nat
    BY DEF Inv, TypeOK, Times, Prompt, Beating, Never
  <2>6. CASE pc[b] \in {"sleep", "beat"}
    <3>1. wake[b] <= beatAt[b] + Period + Slack
      BY <2>6 DEF Inv, Beating
    <3> QED
      BY <2>3, <2>4, <2>5, <3>1, ConstantsNat DEF Round
  <2>7. CASE pc[b] = "detect"
    <3>1. beatAt[b] = ts[b] /\ wake[b] <= ts[b]
      BY <2>7 DEF Inv, Times, RoundClock, Beating
    <3> QED
      BY <2>3, <2>4, <2>5, <3>1, ConstantsNat DEF Round
  <2>8. pc[b] \in {"sleep", "beat", "detect"}
    BY DEF Inv, TypeOK, Beating, Up
  <2> QED
    BY <2>6, <2>7, <2>8
<1> QED
  BY <1>1, Invariance, PTL DEF Spec, LiveNotFailed
=============================================================================
