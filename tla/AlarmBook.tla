------------------------------ MODULE AlarmBook ------------------------------
(***************************************************************************)
(* What the events of a resource promise to their readers.  A watcher      *)
(* raises an alarm that it does not already hold open, anybody may clear   *)
(* it, and users are told of an alarm at most as often as it was raised.   *)
(***************************************************************************)
EXTENDS Naturals

CONSTANTS Watchers, Alarms

VARIABLES
    open,    \* pairs <<watcher, alarm>> that stand
    raises,  \* how often an alarm was raised
    told     \* how often users were told of an alarm

vars == <<open, raises, told>>

Init ==
    /\ open = {}
    /\ raises = [a \in Alarms |-> 0]
    /\ told = [a \in Alarms |-> 0]

Raise(w, a) ==
    /\ <<w, a>> \notin open
    /\ open' = open \cup {<<w, a>>}
    /\ raises' = [raises EXCEPT ![a] = @ + 1]
    /\ UNCHANGED told

Clear(w, a) ==
    /\ <<w, a>> \in open
    /\ open' = open \ {<<w, a>>}
    /\ UNCHANGED <<raises, told>>

Tell(a) ==
    /\ told[a] < raises[a]
    /\ told' = [told EXCEPT ![a] = @ + 1]
    /\ UNCHANGED <<open, raises>>

Next ==
    \/ \E w \in Watchers, a \in Alarms : Raise(w, a) \/ Clear(w, a)
    \/ \E a \in Alarms : Tell(a)

Spec == Init /\ [][Next]_vars
==============================================================================
