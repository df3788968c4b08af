------------------------------- MODULE RemoteCall -------------------------------
(***************************************************************************)
(* What a caller may believe of a request that it sent to a Custodia       *)
(* server, however many servers it went through: it is acted upon once at  *)
(* most; if it succeeded it was acted upon, and if it was refused it never *)
(* is.  After any other failure it was, or still will be, or not.          *)
(***************************************************************************)
EXTENDS Naturals

CONSTANTS Requests

VARIABLES status, acted

vars == <<status, acted>>

Statuses == {"idle", "sent", "ok", "refused", "loop", "error"}

Init ==
  /\ status = [r \in Requests |-> "idle"]
  /\ acted = [r \in Requests |-> 0]

Ask(r) ==
  /\ status[r] = "idle"
  /\ status' = [status EXCEPT ![r] = "sent"]
  /\ UNCHANGED acted

Act(r) ==
  /\ status[r] \in {"sent", "error"} /\ acted[r] = 0
  /\ acted' = [acted EXCEPT ![r] = 1]
  /\ UNCHANGED status

Succeed(r) ==
  /\ status[r] = "sent" /\ acted[r] = 1
  /\ status' = [status EXCEPT ![r] = "ok"]
  /\ UNCHANGED acted

Refuse(r) ==
  /\ status[r] = "sent" /\ acted[r] = 0
  /\ \E code \in {"refused", "loop"} : status' = [status EXCEPT ![r] = code]
  /\ UNCHANGED acted

\* A failure may be that of several requests.
Fail(R) ==
  /\ \A r \in R : status[r] = "sent"
  /\ status' = [r \in Requests |-> IF r \in R THEN "error" ELSE status[r]]
  /\ UNCHANGED acted

Next ==
  \/ \E r \in Requests : Ask(r) \/ Act(r) \/ Succeed(r) \/ Refuse(r)
  \/ \E R \in SUBSET Requests : Fail(R)

Spec == Init /\ [][Next]_vars
================================================================================
