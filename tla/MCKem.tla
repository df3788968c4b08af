--------------------------------- MODULE MCKem ---------------------------------
(***************************************************************************)
(* A client whose keys are as in examples/client_enc.key, or of a type     *)
(* that replies are not made for.                                          *)
(***************************************************************************)
EXTENDS Kem

MCClients == {"c"}

Types(client, server) ==
  [o \in Owners |-> [u \in Usages |-> IF o = Server THEN server ELSE client]]

MCKeyTypes == {Types("RSA", "RSA"), Types("EC", "RSA"), Types("RSA", "OKP")}

Ask(op, name, form) ==
  [op |-> op, name |-> name, sub |-> name, form |-> form, listed |-> TRUE]

MCRequests ==
  { Ask("set", "u/k", "jwe"), Ask("get", "u/k", "jws"), Ask("create", "u/", "jwe"),
    [Ask("del", "u/k", "jwe") EXCEPT !.sub = "/u/k"],
    [Ask("del", "u/k", "jws") EXCEPT !.listed = FALSE],
    Ask("del", "u/k", "jws"), Ask("destroy", "u/", "jwe"), Ask("list", "u/", "jws") }

\* One key is taken away and one replaced, and either comes back.
MCRewrites ==
  {<<"c", "sig", None>>, <<"c", "sig", Held>>, <<Server, "sig", "new">>, <<Server, "sig", Held>>}

\* On and just beyond the limits.
MCSkews == {-2, -1, 0, 1, 2}
================================================================================
