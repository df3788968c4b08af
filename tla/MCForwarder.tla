------------------------------ MODULE MCForwarder ------------------------------
(***************************************************************************)
(* Two servers, each with a Forwarder and one with secrets.                *)
(***************************************************************************)
EXTENDS Forwarder

MCServers == {"front", "back"}
MCMounts == {"front/forwarder", "back/forwarder", "front/secrets"}
MCServerOf ==
  [m \in MCMounts |-> IF m = "back/forwarder" THEN "back" ELSE "front"]

Topology(front, back) ==
  [m \in MCMounts |->
     CASE m = "front/forwarder" -> front
       [] m = "back/forwarder" -> back
       [] m = "front/secrets" -> None]

\* /forwarder and /forwarder_loop of custodia.conf; two servers that forward to
\* each other; and a way through the other server and back.
MCTopologies ==
  {Topology("front/secrets", "back/forwarder"), Topology("front/forwarder", None),
   Topology("back/forwarder", "front/forwarder"),
   Topology("back/forwarder", "front/secrets")}

MCMaxStarts == [s \in MCServers |-> IF s = "front" THEN 2 ELSE 1]
================================================================================
