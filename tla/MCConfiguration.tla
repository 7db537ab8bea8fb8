-------------------------- MODULE MCConfiguration --------------------------
EXTENDS Configuration, TLC

\* The file that is installed, and what an operator may make of it: a level in small
\* letters, a level that is none, an own certificate, values of a wrong type
Shipped == [k \in Owned["pool"] |-> "default"]
MCEdits ==
    {Shipped,
     "level" :> "info" @@ "pool_freq" :> "user" @@ Shipped,
     "level" :> "loud" @@ "SSL_key" :> "user" @@ "alerter_lua" :> "user",
     "pool_freq" :> "wrong" @@ "login" :> "user",
     "central_id" :> "wrong",
     "level" :> "wrong" @@ "file" :> "user"}
=============================================================================
