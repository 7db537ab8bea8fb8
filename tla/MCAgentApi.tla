----------------------------- MODULE MCAgentApi -----------------------------
EXTENDS AgentApi, TLC

Cpu == <<[kind |-> "ressource", name |-> "cpu"], [kind |-> "host", name |-> "h"]>>
Web == <<[kind |-> "ressource", name |-> "web"], [kind |-> "host", name |-> "h"],
         [kind |-> "service", name |-> "httpd"]>>
MCNames == "cpu" :> Cpu @@ "web" :> Web

\* A resource of a service; the same with a column more, and one of the host
MCSwaggers == {
    [ref |-> "web" :> "Web", cols |-> "Web" :> {"y"}],
    [ref |-> "web" :> "Web" @@ "cpu" :> "Load", cols |-> "Web" :> {"y", "z"} @@ "Load" :> {"x"}]}
=============================================================================
