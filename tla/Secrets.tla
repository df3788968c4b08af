-------------------------------- MODULE Secrets --------------------------------
(***************************************************************************)
(* The Secrets consumer (secrets.py) over the SQLite store, run by the     *)
(* children that ForkingHTTPServer forks: each request is handled by a     *)
(* process of its own, the processes share the database file and nothing   *)
(* else, and every store call is a transaction of its own.  An operation   *)
(* that makes two store calls can therefore be interleaved between them.   *)
(*                                                                         *)
(* An idle handler is a child that is not forked yet; Reply and Crash end it.   *)
(***************************************************************************)
EXTENDS SecretsApi

CONSTANTS
  Handlers,   \* the children that can be alive at the same time (a bound)
  Watched,    \* the paths whose audit records are kept (a bound on the log)
  CanCrash    \* children may be killed

ASSUME HandlersAssumption ==
  /\ Watched \subseteq Paths
  /\ CanCrash \in BOOLEAN

VARIABLES
  rows,    \* the table in the database file
  pc,      \* where each handler is
  req,     \* the request it handles
  code,    \* the status it has decided on, 0 while it has not
  out,     \* the output it replies with
  log      \* the audit records about the watched paths

vars == <<rows, pc, req, code, out, log>>

Steps == {"idle", "parent", "namespace", "store", "victim", "audit", "reply"}

\* The verbs and verdicts of the audit messages (log.py).
Records == {"get", "set", "del"} \X {"allowed", "denied"} \X Watched

Listings == SUBSET [name : Seq(STRING), container : BOOLEAN]

TypeOK ==
  /\ rows \in Table
  /\ pc \in [Handlers -> Steps]
  /\ req \in [Handlers -> Requests \cup {None}]
  /\ code \in [Handlers -> Codes]
  /\ out \in [Handlers -> {None} \cup Values \cup Listings]
  /\ log \subseteq Records

Init ==
  /\ rows = NoRows
  /\ pc = [h \in Handlers |-> "idle"]
  /\ req = [h \in Handlers |-> None]
  /\ code = [h \in Handlers |-> 0]
  /\ out = [h \in Handlers |-> None]
  /\ log = {}

--------------------------------------------------------------------------------
Goto(h, step) == pc' = [pc EXCEPT ![h] = step]

\* Broken: only refusals reach the audit log.
DecideAuditsRefusals(h, r, status) ==
  /\ code' = [code EXCEPT ![h] = status]
  /\ Goto(h, IF Audited(r) /\ status \notin Successes THEN "audit" ELSE "reply")

\* The operation returns or raises: _audit() writes its record, then the
\* pipeline sends the reply.
Decide(h, r, status) ==
  /\ code' = [code EXCEPT ![h] = status]
  /\ Goto(h, IF Audited(r) THEN "audit" ELSE "reply")

\* The first store call of an operation.
FirstStep(r) ==
  IF NeedsParent(r) THEN "parent"
  ELSE IF Operation(r) = "destroy" THEN "victim"
  ELSE "store"

\* A child is forked, the method dispatches on the trail, the message is
\* parsed and the key is formed; all of it is local to the child.
Receive(h) ==
  /\ pc[h] = "idle"
  /\ \E r \in Requests :
       /\ req' = [req EXCEPT ![h] = r]
       /\ IF Refusal(r) # 0
          THEN Decide(h, r, Refusal(r))
          ELSE Goto(h, FirstStep(r)) /\ UNCHANGED code
  /\ UNCHANGED <<rows, out, log>>

\* Broken: the default namespace is taken to be there without creating it.
ListParentNoSpan(h) ==
  LET r == req[h] IN
  /\ pc[h] = "parent"
  /\ \/ /\ Exists(rows, Container(r)) \/ InOwnNamespace(r)
        /\ Goto(h, "store")
        /\ UNCHANGED code
     \/ /\ ~Exists(rows, Container(r)) /\ ~InOwnNamespace(r)
        /\ Decide(h, r, 404)
  /\ UNCHANGED <<rows, req, out, log>>

\* _parent_exists(): the listing of the container decides.
ListParent(h) ==
  LET r == req[h] IN
  /\ pc[h] = "parent"
  /\ \/ /\ Exists(rows, Container(r))
        /\ Goto(h, "store")
        /\ UNCHANGED code
     \/ /\ ~Exists(rows, Container(r)) /\ InOwnNamespace(r)
        /\ Goto(h, "namespace")
        /\ UNCHANGED code
     \/ /\ ~Exists(rows, Container(r)) /\ ~InOwnNamespace(r)
        /\ Decide(h, r, 404)
  /\ UNCHANGED <<rows, req, out, log>>

\* Broken: POST does not expect the exception.
ExistsCodeConflict(r) == 409

\* What CSStoreExists is turned into by the operation it escapes from.
ExistsCode(r) == IF Operation(r) = "create" THEN 200 ELSE 409

\* _parent_exists(): span() of the default namespace.  The callers catch the
\* CSStoreExists it raises along with that of their own set() or span().
SpanNamespace(h) ==
  LET r == req[h]
      p == <<r.default>>
  IN
  /\ pc[h] = "namespace"
  /\ \/ /\ ~Conflicts(rows, p, FALSE)
        /\ rows' = Spanned(rows, p)
        /\ Goto(h, "store")
        /\ UNCHANGED code
     \/ /\ Conflicts(rows, p, FALSE)
        /\ Decide(h, r, ExistsCode(r))
        /\ UNCHANGED rows
  /\ UNCHANGED <<req, out, log>>

\* Broken: a conflict is tried again from the start.
InsertRetries(h) ==
  LET r == req[h] IN
  /\ pc[h] = "store" /\ Operation(r) \in {"set", "create"}
  /\ \/ /\ ~Conflicts(rows, r.path, FALSE)
        /\ rows' = IF Operation(r) = "set" THEN Stored(rows, r.path, r.payload)
                                           ELSE Spanned(rows, r.path)
        /\ Decide(h, r, 201)
     \/ /\ Conflicts(rows, r.path, FALSE)
        /\ Goto(h, FirstStep(r))
        /\ UNCHANGED <<rows, code>>
  /\ UNCHANGED <<req, out, log>>

\* Broken: the row is replaced.
InsertReplaces(h) ==
  LET r == req[h] IN
  /\ pc[h] = "store" /\ Operation(r) \in {"set", "create"}
  /\ rows' = IF Operation(r) = "set" THEN Stored(rows, r.path, r.payload)
                                     ELSE Spanned(rows, r.path)
  /\ Decide(h, r, 201)
  /\ UNCHANGED <<req, out, log>>

\* _int_set_key() and _create(): the insertion of the row itself.
Insert(h) ==
  LET r == req[h] IN
  /\ pc[h] = "store" /\ Operation(r) \in {"set", "create"}
  /\ \/ /\ ~Conflicts(rows, r.path, FALSE)
        /\ rows' = IF Operation(r) = "set" THEN Stored(rows, r.path, r.payload)
                                           ELSE Spanned(rows, r.path)
        /\ Decide(h, r, 201)
     \/ /\ Conflicts(rows, r.path, FALSE)
        /\ Decide(h, r, ExistsCode(r))
        /\ UNCHANGED rows
  /\ UNCHANGED <<req, out, log>>

Output(h, value) == out' = [out EXCEPT ![h] = value]

\* _int_get_key(); with Accept: application/octet-stream the value is decoded,
\* and what b64decode() raises is not caught before the pipeline's 500.
GetKey(h) ==
  LET r == req[h]
      value == rows[r.path]
  IN
  /\ pc[h] = "store" /\ Operation(r) = "get"
  /\ \/ IsNone(rows, r.path) /\ Decide(h, r, 404) /\ UNCHANGED out
     \/ value = Empty /\ Decide(h, r, 406) /\ UNCHANGED out
     \/ /\ value \in Values /\ (r.raw => value \in Base64)
        /\ Decide(h, r, 200)
        /\ Output(h, value)
     \/ /\ value \in Values \ Base64 /\ r.raw
        /\ Decide(h, r, 500)
        /\ UNCHANGED out
  /\ UNCHANGED <<rows, req, log>>

\* _list(): the container of the trail, or the default one for no trail.
ListContainer(h) ==
  LET r == req[h] IN
  /\ pc[h] = "store" /\ Operation(r) = "list"
  /\ \/ Exists(rows, Target(r)) /\ Decide(h, r, 200) /\ Output(h, Entries(rows, Target(r)))
     \/ ~Exists(rows, Target(r)) /\ Decide(h, r, 404) /\ UNCHANGED out
  /\ UNCHANGED <<rows, req, log>>

\* _destroy(): the listing that must be there and empty.
ListVictim(h) ==
  LET r == req[h] IN
  /\ pc[h] = "victim"
  /\ \/ ~Exists(rows, r.path) /\ Decide(h, r, 404)
     \/ Entries(rows, r.path) # {} /\ Decide(h, r, 409)
     \/ /\ Exists(rows, r.path) /\ Entries(rows, r.path) = {}
        /\ Goto(h, "store")
        /\ UNCHANGED code
  /\ UNCHANGED <<rows, req, out, log>>

\* Broken: what cut() returns is ignored.
CutAlwaysFinds(h) ==
  LET r == req[h] IN
  /\ pc[h] = "store" /\ Operation(r) \in {"del", "destroy"}
  /\ rows' = CutFrom(rows, r.path)
  /\ Decide(h, r, 204)
  /\ UNCHANGED <<req, out, log>>

\* _int_del_key() and the end of _destroy(): cut() says whether a row was there.
Cut(h) ==
  LET r == req[h] IN
  /\ pc[h] = "store" /\ Operation(r) \in {"del", "destroy"}
  /\ rows' = CutFrom(rows, r.path)
  /\ Decide(h, r, IF Present(rows, r.path) THEN 204 ELSE 404)
  /\ UNCHANGED <<req, out, log>>

\* Any store call may raise instead; the transaction is rolled back.
StoreFault(h) ==
  /\ pc[h] \in {"parent", "namespace", "victim", "store"}
  /\ \E f \in Faults : Decide(h, req[h], FaultCode[f])
  /\ UNCHANGED <<rows, req, out, log>>

\* The finally of _audit(): allowed if the operation returned.
Verdict(h) == IF code[h] \in Successes THEN "allowed" ELSE "denied"

Audit(h) ==
  LET r == req[h] IN
  /\ pc[h] = "audit"
  /\ log' = log \cup ({<<Operation(r), Verdict(h), Spelled(r.trail)>>} \cap Records)
  /\ Goto(h, "reply")
  /\ UNCHANGED <<rows, req, code, out>>

Exit(h) ==
  /\ pc' = [pc EXCEPT ![h] = "idle"]
  /\ req' = [req EXCEPT ![h] = None]
  /\ code' = [code EXCEPT ![h] = 0]
  /\ out' = [out EXCEPT ![h] = None]
  /\ UNCHANGED <<rows, log>>

\* The pipeline returns, the response is written and the child exits.
Reply(h) == pc[h] = "reply" /\ Exit(h)

\* The child is killed at any point of its request, between two transactions.
Crash(h) == CanCrash /\ pc[h] # "idle" /\ Exit(h)

\* What a handler does on its own once it has a request.
Proceed(h) ==
  \/ ListParent(h) \/ SpanNamespace(h) \/ Insert(h) \/ GetKey(h)
  \/ ListContainer(h) \/ ListVictim(h) \/ Cut(h) \/ StoreFault(h)
  \/ Audit(h) \/ Reply(h)

Next == \E h \in Handlers : Receive(h) \/ Proceed(h) \/ Crash(h)

\* Clients need never send a request and nothing has to crash, but the kernel
\* schedules a child that can run.
Spec == Init /\ [][Next]_vars
FairSpec == Spec /\ \A h \in Handlers : WF_vars(Proceed(h))

--------------------------------------------------------------------------------
\* A stored value is never overwritten: a PUT on a key that is there is refused
\* even when both PUTs found the parent first (the INSERT of SqliteStore.set()).
WriteOnce ==
  [][\A p \in Paths : Present(rows, p) /\ Present(rows', p) => rows'[p] = rows[p]]_vars

\* The step of h is the effect of its request on the row p, answered as such.
TakesEffect(h, p) ==
  LET r == req[h] IN
  /\ r # None /\ code[h] = 0 /\ r.path = p
  /\ \/ code'[h] = 201 /\ r.cmd = "PUT" /\ rows'[p] = r.payload
     \/ code'[h] = 201 /\ r.cmd = "POST" /\ rows'[p] = Empty
     \/ code'[h] = 204 /\ r.cmd = "DELETE" /\ rows'[p] = Absent

\* The step of h adds its own default namespace on the way to its operation.
AddsNamespace(h, p) ==
  LET r == req[h] IN
  /\ r # None /\ code[h] = 0 /\ code'[h] = 0
  /\ r.cmd \in {"PUT", "POST"}
  /\ p = <<r.default>>
  /\ rows'[p] = Empty /\ ~Present(rows, p)

\* A row changes only by the call that is told so, and a call that is told
\* 201 or 204 changed its row: no refused or failed call leaves an effect, and
\* no acknowledged one is without (the handlers between their store calls).
EffectsAreAnswered ==
  [][/\ \A p \in Paths : rows'[p] # rows[p] =>
          \E h \in Handlers : TakesEffect(h, p) \/ AddsNamespace(h, p)
     /\ \A h \in Handlers : code[h] = 0 /\ code'[h] \in {201, 204} =>
          TakesEffect(h, req[h].path) /\ rows'[req[h].path] # rows[req[h].path]]_vars

\* While nothing is deleted and segments have no '/' in them, whatever is stored
\* is in containers that all have a row: no interleaving of the check of
\* _parent_exists() with the insertions of other children leaves a key outside
\* the tree that listings show.  (Of a segment "c/k" that method checks only
\* the container that the segments before it name.)
NoOrphans == NoDeletes /\ NoSlashes => NoOrphansIn(rows)

\* While nothing is deleted, of the calls that race to create the same row only
\* one is told 201, and what it was told it stored is there.
OneWinner ==
  NoDeletes =>
    /\ \A g, h \in Handlers :
         code[g] = 201 /\ code[h] = 201 /\ req[g].path = req[h].path => g = h
    /\ \A h \in Handlers :
         code[h] = 201 /\ Operation(req[h]) = "set" => rows[req[h].path] = req[h].payload

\* The answers and effects are those of a tree operated on atomically, though
\* _int_set_key() and _create() check and insert in separate transactions.
Tree == INSTANCE SecretTree WITH
  Clients <- Handlers,
  tree <- rows,
  call <- [h \in Handlers |-> [req |-> req[h], code |-> code[h], out |-> out[h]]]

AtomicTree == Tree!Spec

\* They are so when containers are deleted meanwhile as well, except that what
\* _parent_exists() or the listing of _destroy() found is used some steps later.
Shared == INSTANCE SharedTree WITH
  Clients <- Handlers,
  tree <- rows,
  call <- [h \in Handlers |-> [req |-> req[h], code |-> code[h], out |-> out[h]]],
  noticed <- {h \in Handlers : pc[h] = "store" /\
                (NeedsParent(req[h]) \/ Operation(req[h]) = "destroy")}

AtomicAfterCheck == Shared!SharedSpec

\* A handler has stored the secret p and not written its record yet.
AuditPending(p) ==
  \E h \in Handlers : /\ pc[h] = "audit" /\ code[h] = 201
                      /\ Operation(req[h]) = "set" /\ req[h].path = p

\* While no child is killed, every secret that is there, or that a record says
\* was read, has the record of the PUT that stored it, or its handler is about
\* to write it (the finally of _audit() runs after the store call).  Records
\* have the path as it was sent: no segment may begin with '/'.
AuditComplete ==
  ~CanCrash /\ RowsAreSpelled =>
    \A p \in Watched :
      rows[p] \in Values \/ <<"get", "allowed", p>> \in log =>
        <<"set", "allowed", p>> \in log \/ AuditPending(p)

\* A child that has a request comes to its end, whatever the other children do
\* and however the store fails.
EveryRequestEnds == \A h \in Handlers : pc[h] # "idle" ~> pc[h] = "idle"
================================================================================
