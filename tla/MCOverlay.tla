------------------------------- MODULE MCOverlay -------------------------------
(***************************************************************************)
(* A small overlay: two keys, two secrets, two children, and the ways in   *)
(* which a server may be deployed over time.                               *)
(***************************************************************************)
EXTENDS Overlay

CONSTANTS s1, s2, h1, h2

MCPaths == {<<"k">>, <<"l">>}

AllCalls == {"get", "set", "span", "cut"}

\* A server that was classic and now pins, in a database that is tampered with.
Tampered == [encrypt |-> AllCalls \cup {"exchange"},
             pinning |-> AllCalls \cup {"exchange", "fault"}]

\* The upgrade that 'migrate' is for, with no deletion while it lasts.
Upgrade == [encrypt |-> {"set", "cut"},
            migrate |-> {"get", "set", "span", "fault"},
            pinning |-> {"get", "cut"}]

MCDeployments == {Tampered, Upgrade}

\* The upgrade with deletions while it lasts.
BusyUpgrade == [encrypt |-> {"set"}, migrate |-> {"get", "cut"}]
BusyDeployments == {BusyUpgrade}
================================================================================
