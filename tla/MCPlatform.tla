------------------------------- MODULE MCPlatform -------------------------------
(***************************************************************************)
(* A small instance of Platform.                                           *)
(***************************************************************************)
EXTENDS Platform

CONSTANTS u1, u2, e1, e2

Job(cmd, user, name, dflt, e, via) ==
    [cmd |-> cmd, user |-> user, name |-> name, dflt |-> dflt, e |-> e, via |-> via]

\* Requests that overlap in the server.
Requests ==
    {Job("signup", u2, "main", TRUE, e1, "http"),
     Job("external", u2, "main", TRUE, e1, "http"),
     Job("insert", u1, "w", FALSE, e1, "http"),
     Job("wallet create", u1, "w", TRUE, e1, "http"),
     Job("wallet update", u1, "main", FALSE, e1, "http"),
     Job("wallet delete", u1, "main", FALSE, e1, "http"),
     Job("expert create", u1, "main", TRUE, e2, "http"),
     Job("expert update", u1, "main", TRUE, e1, "http"),
     Job("expert delete", u1, "main", TRUE, e1, "http")}

\* Processes that share the file.
Sharers ==
    {Job("expert update", u1, "main", TRUE, e1, "http"),
     Job("wallet add", u1, "w", TRUE, e1, "file"),
     Job("openrouter", u1, "main", TRUE, e2, "file"),
     Job("refresh", u1, "main", TRUE, e1, "file"),
     Job("user add", u2, "main", TRUE, e1, "file")}

MCJobs == [b \in BOOLEAN |-> IF b THEN Sharers ELSE Requests]
=============================================================================
