-------------------------- MODULE MCResourceEvents --------------------------
(***************************************************************************)
(* Instances of ResourceEvents for TLC: rules and lines of one property.   *)
(***************************************************************************)
EXTENDS ResourceEvents

Over(v)  == [property |-> "load", oper |-> ">", value |-> v]
Under(v) == [property |-> "load", oper |-> "<", value |-> v]
Equal(v) == [property |-> "load", oper |-> "=", value |-> v]

Line(v) == [p \in {"load"} |-> v]

\* A high and a low limit: every line crosses one, none or (at 3) both
TwoRules   == {Over(2), Under(4)}
\* A limit of each operator: a line at 3 crosses all, one at 2 or 4 is on a limit
ThreeRules == {Over(2), Under(4), Equal(3)}
\* Enough rules for the skip in the closing loop
FourRules  == {Over(1), Over(2), Over(3), Equal(5)}

OneRule    == {Over(2)}
TwoLines  == {Line(v) : v \in {1, 3}}
FewLines  == {Line(v) : v \in {1, 3, 5}}
MoreLines == {Line(v) : v \in {2, 3, 4, NoValue}}
JumpLines == {Line(v) : v \in {0, 5}}
=============================================================================
