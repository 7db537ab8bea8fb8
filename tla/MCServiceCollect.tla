-------------------------- MODULE MCServiceCollect --------------------------
EXTENDS ServiceCollect, TLC

\* Two services of one host that both backends see, each with one part
MCHostOf == [s \in Services |-> "h"]
MCReports == [b \in Backends |-> Services]
MCServiceOf == [p \in Parts |-> IF p = "p1" THEN "s1" ELSE "s2"]
\* No property and no constant tells the backends apart
MCSymmetry == Permutations(Backends)
=============================================================================
