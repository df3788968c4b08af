------------------------------ MODULE SecretsDoc -------------------------------
(***************************************************************************)
(* What API.md says of the answers, as action properties of Secrets: each  *)
(* relates a status to the state of the store in the step that decides it. *)
(* They do not hold: the checks and the effect are separate transactions.  *)
(***************************************************************************)
EXTENDS Secrets

\* h decides on this status for this operation in this step.
Answers(h, operation, status) ==
  /\ req[h] # None
  /\ Operation(req[h]) = operation
  /\ code[h] = 0 /\ code'[h] = status

\* "409 if the container is not empty": the container _destroy() removes is
\* empty when it is removed.  The listing and the cut are two transactions.
DocDeleteEmpty ==
  [][\A h \in Handlers :
       Answers(h, "destroy", 204) => Entries(rows, req[h].path) = {}]_vars

\* "200 if the container already exists".  The same exception is reported as
\* the requested container being there.
DocPostExists ==
  [][\A h \in Handlers :
       Answers(h, "create", 200) => Present(rows, req[h].path)]_vars

================================================================================
