--------------------------- MODULE ConnectionLeases ---------------------------
(***************************************************************************)
(* What a pool of connections promises to those who borrow from it: a      *)
(* connection is lent to one borrower, who keeps it until giving it back.  *)
(* Shared borrowers give nothing back, and may be handed another           *)
(* connection in place of the one they have, which then stays lent to      *)
(* nobody.  When the borrowers' process ends the server closes them all.   *)
(***************************************************************************)
CONSTANTS Borrowers, Shared, Connections, Nothing

VARIABLES
    lease,  \* the connection each borrower has, or Nothing
    lent    \* connections that are not the pool's to lend

vars == <<lent, lease>>

Init ==
    /\ lease = [b \in Borrowers |-> Nothing]
    /\ lent = {}

\* A connection goes to b, in place of the one that a shared borrower has
Borrow(b, c) ==
    /\ lease[b] = Nothing \/ b \in Shared
    /\ lease' = [lease EXCEPT ![b] = c]

GiveBack(b, c) ==
    /\ b \notin Shared /\ lease[b] = c
    /\ lease' = [lease EXCEPT ![b] = Nothing]

Close ==
    /\ lease' = [b \in Borrowers |-> Nothing]
    /\ lent' = {}

Next ==
    \/ Close
    \/ \E c \in Connections \ lent :
          lent' = lent \cup {c} /\ \E b \in Borrowers : Borrow(b, c)
    \/ \E c \in lent :
          lent' = lent \ {c} /\ \E b \in Borrowers : GiveBack(b, c)

Spec == Init /\ [][Next]_vars
===============================================================================
