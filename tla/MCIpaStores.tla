------------------------------ MODULE MCIpaStores ------------------------------
(***************************************************************************)
(* A secret that can be named in two ways and a host with certificates.    *)
(***************************************************************************)
EXTENDS IpaStores, TLC

CONSTANTS h1, h2, c1, c2, c3

Symmetry == Permutations(Handlers) \cup Permutations(Serials)

MCKeys == {"keys/a_/b", "keys/a/_b"}
MCHosts == {"HTTP/client1"}
MCVaultOf ==
  [k \in MCKeys \cup MCHosts |->
     IF k \in MCHosts THEN "cert__HTTP__client1" ELSE "keys__a___b"]

Scenario(operations, faults, kills) ==
  [operations |-> operations, faults |-> faults, kills |-> kills]

\* Anything happens; nothing fails; nothing is deleted.
MCScenarios ==
  {Scenario(Operations, TRUE, TRUE), Scenario(Operations, FALSE, FALSE),
   Scenario({"get", "set"}, FALSE, FALSE)}

\* Certificates are asked for and deleted and nothing fails.
CertScenarios == {Scenario({"get", "cut"}, FALSE, FALSE)}
================================================================================
