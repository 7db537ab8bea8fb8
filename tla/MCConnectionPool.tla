-------------------------- MODULE MCConnectionPool --------------------------
EXTENDS ConnectionPool, TLC

\* As many connections as objects and threads can hold between them
FewConns  == 1..5
ManyConns == 1..7
AgentsAlike == Permutations(Agents)
=============================================================================
