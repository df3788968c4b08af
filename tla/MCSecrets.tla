------------------------------- MODULE MCSecrets -------------------------------
(***************************************************************************)
(* Small instances of Secrets: the namespace u, a container u/c in it, and *)
(* a key in each.                                                          *)
(***************************************************************************)
EXTENDS SecretsDoc

CONSTANTS v1, v2, h1, h2

U   == <<"u">>
UK  == <<"u", "k">>
UC  == <<"u", "c">>
UCK == <<"u", "c", "k">>
X   == <<"", "x">>     \* an absolute key

MCPaths == {U, UK, UC, UCK}
AllPaths == MCPaths \cup {X}
SmallPaths == {U, UK}

NoPaths == {}
WatchKey == {UK}

\* The segments that are sent with a quoted '/'.
MCSlashed == [s \in {"c/k", "/x"} |-> IF s = "c/k" THEN <<"c", "k">> ELSE X]

Request(cmd, trail, slash) ==
  [cmd |-> cmd, trail |-> trail, path |-> Joined(trail), slash |-> slash, default |-> None,
   parse |-> "ok", payload |-> v1, raw |-> FALSE]

Default(r) == [r EXCEPT !.default = "u"]
Payload(r, v) == [r EXCEPT !.payload = v]
Parse(r, p) == [r EXCEPT !.parse = p]
Raw(r) == [r EXCEPT !.raw = TRUE]

Puts == {Default(Request("PUT", UK, FALSE)),
         Payload(Request("PUT", UK, FALSE), v2),
         Request("PUT", UCK, FALSE),
         Payload(Request("PUT", UC, FALSE), Null)}

Posts == {Request("POST", U, TRUE), Default(Request("POST", UC, TRUE))}

Gets == {Request("GET", UK, FALSE), Raw(Request("GET", UK, FALSE)),
         Default(Request("GET", <<>>, TRUE)), Request("GET", UC, TRUE)}

Deletes == {Request("DELETE", UC, TRUE), Request("DELETE", UC, FALSE),
            Request("DELETE", UK, FALSE), Request("DELETE", U, TRUE)}

\* Requests that are refused before the store is asked, one for each reason.
Refused == {Request("PUT", UK, TRUE), Request("DELETE", <<>>, FALSE),
            Request("POST", UC, FALSE),
            Parse(Request("PUT", UK, FALSE), "invalid"),
            Parse(Request("PUT", UK, FALSE), "unallowed"),
            Parse(Request("GET", UC, TRUE), "unallowed"),
            Request("GET", U, FALSE), Request("GET", <<>>, FALSE),
            Request("DELETE", <<>>, TRUE)}

\* A key in a container that is not looked for, and one outside of all.
Slashes == {Request("PUT", <<"u", "c/k">>, FALSE), Default(Request("POST", <<"u", "/x">>, TRUE))}

AllRequests == Puts \cup Posts \cup Gets \cup Deletes
SerialRequests == AllRequests \cup Refused \cup Slashes
GrowingRequests ==
  Puts \cup Posts \cup {Default(Request("GET", <<>>, TRUE)), Raw(Request("GET", UK, FALSE))}
\* Enough to race on the default namespace and below it.
RacingRequests ==
  {Default(Request("PUT", UK, FALSE)), Payload(Request("PUT", UK, FALSE), v2),
   Default(Request("POST", UC, TRUE)), Request("PUT", UCK, FALSE)}
DestroyRequests ==
  {Request("POST", U, TRUE), Request("PUT", UK, FALSE), Request("DELETE", UK, TRUE),
   Request("DELETE", U, FALSE), Request("DELETE", U, TRUE)}
================================================================================
