------------------------------ MODULE MCCustodia -------------------------------
(***************************************************************************)
(* A small server with the configurations of the repository: README.md,    *)
(* docs/source/quick (identities are secrets of the user 'sak') and        *)
(* custodia.conf (Root with a store).                                      *)
(***************************************************************************)
EXTENDS Custodia, TLC

CONSTANTS v1, v2, h1, h2

\* Handlers are only told apart by what they do.
Symmetry == Permutations(Handlers)

U    == <<"u">>
UK   == <<"u", "k">>
UKK  == <<"u", "k", "k">>
Sak  == <<"sak">>
SakU == <<"sak", "u">>

MCPaths == {U, UK, UKK, Sak, SakU}

MCSegments == {"", "secrets", "u", "sak", "k", "%6b%2Fk", "*"}
MCUnquote ==
  [s \in MCSegments |-> IF s = "%6b%2Fk" THEN "k/k" ELSE s]
MCSlashed == [s \in {"k/k"} |-> <<"k", "k">>]

NoPaths == {}

Creds  == [kind |-> "creds", uids |-> {48}, gids |-> {}]
Header == [kind |-> "header", any |-> TRUE, accepted |-> {}]
OnlySak == [kind |-> "header", any |-> FALSE, accepted |-> {"sak"}]
Keys   == [kind |-> "keys", namespace |-> Sak]
Cert   == [kind |-> "cert"]

Entry(path, dot) == [path |-> path, dot |-> dot]
Everything == [kind |-> "paths", paths |-> {Entry(<<"", "">>, FALSE)}]
RootAndSecrets ==
  [kind |-> "paths", paths |-> {Entry(<<"", "">>, TRUE), Entry(<<"", "secrets">>, FALSE)}]
Namespace == [kind |-> "namespace", path |-> <<"", "secrets", "">>]

At(mount, consumer) == [m \in {mount} |-> consumer]

ReadmeConfig ==
  [authenticators |-> {Creds, Header}, authorizers |-> {RootAndSecrets},
   consumers |-> [m \in {<<"">>, <<"", "secrets">>} |->
                    IF m = <<"">> THEN "root" ELSE "secrets"]]
QuickConfig ==
  [authenticators |-> {OnlySak, Keys}, authorizers |-> {Everything, Namespace},
   consumers |-> At(<<"">>, "root with secrets")]
CertConfig ==
  [authenticators |-> {Cert, Header}, authorizers |-> {RootAndSecrets, Namespace},
   consumers |-> At(<<"", "secrets">>, "secrets")]

MCConfigs == {ReadmeConfig, QuickConfig, CertConfig}

Sent(cmd, path) ==
  [received |-> "ok", cmd |-> cmd, path |-> path,
   creds |-> None, header |-> None, id |-> None, key |-> None, cert |-> None,
   parse |-> "ok", payload |-> v1, raw |-> FALSE]

Local(w) == [w EXCEPT !.creds = [uid |-> 48, gid |-> 7]]
By(user, w) == [w EXCEPT !.header = user]
WithKey(id, key, w) == [w EXCEPT !.id = id, !.key = key]
ByCert(name, w) == [w EXCEPT !.cert = name]
Storing(v, w) == [w EXCEPT !.payload = v]

UrlK    == <<"", "secrets", "u", "k">>
UrlKK   == <<"", "secrets", "u", "%6b%2Fk">>
UrlKey  == <<"", "secrets", "sak", "u">>
UrlAll  == <<"", "secrets", "">>
UrlRoot == <<"", "">>

MCWires ==
  { By("sak", Sent("PUT", UrlKey)), By("sak", Storing(v2, Sent("PUT", UrlKey))),
    WithKey("u", v1, Sent("PUT", UrlKK)),
    WithKey("u", v2, Sent("DELETE", UrlK)),
    WithKey("u", v1, Sent("PUT", UrlKey)),
    WithKey("u", None, Sent("GET", UrlK)),
    ByCert("u", By("sak", Sent("GET", <<"", "secrets", "u", "">>))),
    ByCert("unnamed", Sent("GET", UrlAll)),
    Local(By("u", Sent("PUT", UrlK))),
    Local(Sent("GET", UrlRoot)),
    By("sak", Sent("HEAD", UrlRoot)),
    Sent("GET", <<"*">>),
    [Sent("GET", UrlK) EXCEPT !.received = "long body"] }

\* Everything the pipeline can hand to Secrets.
MCRequests ==
  { SecretsRequest(w, Route(c.consumers, Chain(w)).trail, default) :
      <<c, w, default>> \in
        {x \in MCConfigs \X {w \in MCWires : w.cmd \in Commands} \X {"u", "sak", None} :
           MountsOf(x[1].consumers, Chain(x[2])) # {}
             /\ Route(x[1].consumers, Chain(x[2])).consumer = "secrets"} }
================================================================================
