----------------------------- MODULE Secrets_proofs ----------------------------
(***************************************************************************)
(* Proofs about Secrets, for any number of handlers, any requests and any  *)
(* tree of paths.                                                          *)
(***************************************************************************)
EXTENDS Secrets, TLAPS

--------------------------------------------------------------------------------
(***************************************************************************)
(* Facts about requests and paths.                                         *)
(***************************************************************************)

\* The part of the assumptions that the proofs use of one request.
RequestOK(r) ==
  /\ r.cmd \in Commands
  /\ r.trail \in Seq(STRING)
  /\ r.path = Joined(r.trail)
  /\ r.trail # <<>> => r.path \in Paths
  /\ Len(r.trail) > 1 => Container(r) \in Paths
  /\ r.slash \in BOOLEAN
  /\ r.default # None => <<r.default>> \in Paths
  /\ r.payload \in Payloads

LEMMA RequestsOK == \A r \in Requests : RequestOK(r)
  BY RequestsAssumption DEF RequestOK

Operations == {"list", "get", "set", "destroy", "del", "create", "refuse"}

\* Operation dispatches every request somewhere.
LEMMA OperationType == \A r \in Requests : Operation(r) \in Operations
  BY RequestsOK DEF RequestOK, Operation, Operations, Commands

\* Whatever is above a path is its parent or above its parent.
LEMMA AboveParent ==
  ASSUME NEW p \in Paths, NEW q \in Paths, Below(q, p)
  PROVE  Len(p) > 1 /\ (q = Parent(p) \/ Below(q, Parent(p)))
<1>1. p \in Seq(STRING) /\ q \in Seq(STRING) /\ q # <<>>
  BY PathsAssumption
<1>2. Len(q) \in Nat /\ Len(q) > 0 /\ Len(p) \in Nat /\ Len(q) < Len(p)
  BY <1>1 DEF Below
<1>3. Len(Parent(p)) = Len(p) - 1 /\ Parent(p) \in Seq(STRING)
  BY <1>1, <1>2 DEF Parent
<1>4. q = SubSeq(Parent(p), 1, Len(q))
  BY <1>1, <1>2, <1>3 DEF Below, Parent
<1>5. CASE Len(q) = Len(p) - 1
  BY <1>1, <1>2, <1>5 DEF Below, Parent
<1>6. CASE Len(q) # Len(p) - 1
  BY <1>2, <1>3, <1>4, <1>6 DEF Below
<1> QED BY <1>2, <1>5, <1>6

\* Each operation comes from one command.
LEMMA OperationCommand ==
  ASSUME NEW r \in Requests
  PROVE  /\ Operation(r) \in {"list", "get"} => r.cmd = "GET"
         /\ Operation(r) = "set" => r.cmd = "PUT"
         /\ Operation(r) = "create" => r.cmd = "POST"
         /\ Operation(r) \in {"del", "destroy"} => r.cmd = "DELETE"
         /\ Audited(r) => r.trail # <<>>
  BY RequestsOK DEF RequestOK, Operation, Commands, Audited

\* What a request that is not refused at once can be about.
LEMMA Accepted ==
  ASSUME NEW r \in Requests, Refusal(r) = 0
  PROVE  /\ Operation(r) # "refuse"
         /\ Operation(r) # "list" => r.path \in Paths
         /\ Target(r) \in Paths
         /\ NeedsParent(r) => Len(r.trail) > 1 /\ Container(r) \in Paths
         /\ NeedsParent(r) /\ InOwnNamespace(r) => <<r.default>> \in Paths
<1>1. RequestOK(r) /\ Operation(r) \in Operations
  BY RequestsOK, OperationType
<1>2. Operation(r) # "refuse" /\ ~Forbidden(r)
  BY DEF Refusal
<1>3. Operation(r) # "list" => r.path \in Paths
  BY <1>1, <1>2, OperationCommand DEF Forbidden, Operations, RequestOK, Audited
<1>4. Target(r) \in Paths
  <2>1. CASE r.trail = <<>>
    <3>1. Operation(r) = "list"
      BY <2>1, <1>1, <1>2, OperationCommand DEF Forbidden, Operations, Audited
    <3>2. r.default # None
      BY <2>1, <3>1, <1>2 DEF Forbidden
    <3> QED BY <2>1, <3>2, <1>1 DEF Target, RequestOK
  <2>2. CASE r.trail # <<>>
    BY <2>2, <1>1 DEF Target, RequestOK
  <2> QED BY <2>1, <2>2
<1>5. ASSUME NeedsParent(r) PROVE Len(r.trail) > 1
  <2>1. r.trail \in Seq(STRING)
    BY <1>1 DEF RequestOK
  <2> QED BY <2>1, <1>2, <1>5 DEF NeedsParent, Forbidden, Audited
<1>6. NeedsParent(r) => Container(r) \in Paths
  BY <1>1, <1>5 DEF RequestOK
<1>7. NeedsParent(r) /\ InOwnNamespace(r) => <<r.default>> \in Paths
  BY <1>1 DEF InOwnNamespace, RequestOK
<1> QED BY <1>2, <1>3, <1>4, <1>5, <1>6, <1>7

\* Without '/' in its segments a trail is its own row, and its container is
\* the row above that.
LEMMA UnslashedRow ==
  ASSUME NEW r \in Requests, Unslashed(r.trail)
  PROVE  /\ r.path = r.trail
         /\ Len(r.trail) > 1 => Container(r) = Parent(r.path)
<1>1. r.trail \in Seq(STRING) /\ r.path = Joined(r.trail)
  BY RequestsOK DEF RequestOK
<1>2. r.path = r.trail
  BY <1>1 DEF Joined
<1>3. ASSUME Len(r.trail) > 1 PROVE Container(r) = Parent(r.trail)
  <2>1. /\ Len(r.trail) \in Nat /\ DOMAIN Parent(r.trail) = 1..(Len(r.trail) - 1)
        /\ DOMAIN r.trail = 1..Len(r.trail)
        /\ \A i \in 1..(Len(r.trail) - 1) : Parent(r.trail)[i] = r.trail[i]
    BY <1>1, <1>3 DEF Parent
  <2>2. Unslashed(Parent(r.trail))
    BY <2>1 DEF Unslashed
  <2> QED BY <2>2 DEF Container, Joined
<1> QED BY <1>2, <1>3

\* A fault of the store is answered with an error.
LEMMA FaultCodeType == \A f \in Faults : FaultCode[f] \in {403, 500, 501}
<1>1. FaultCode["error"] = 500 /\ FaultCode["denied"] = 403
      /\ FaultCode["unsupported"] = 501
  BY DEF FaultCode
<1> QED BY <1>1, ApiAssumption DEF FaultKinds

LEMMA RefusalType == \A r \in Requests : Refusal(r) \in {0, 400, 403, 405, 406}
  BY DEF Refusal

--------------------------------------------------------------------------------
(***************************************************************************)
(* Type correctness.  Control relates a handler's place to its request:    *)
(* the actions say only where the handler is, so the types of what they    *)
(* look up depend on it.                                                   *)
(***************************************************************************)

ControlOf(h) ==
  LET r == req[h] IN
  /\ pc[h] = "idle" => r = None /\ code[h] = 0 /\ out[h] = None
  /\ pc[h] # "idle" => r \in Requests
  /\ pc[h] \in {"parent", "namespace", "victim", "store"} =>
       code[h] = 0 /\ out[h] = None /\ Refusal(r) = 0
  /\ pc[h] \in {"audit", "reply"} => code[h] # 0
  /\ pc[h] = "parent" => NeedsParent(r)
  /\ pc[h] = "namespace" => NeedsParent(r) /\ InOwnNamespace(r)
  /\ pc[h] = "victim" => Operation(r) = "destroy"
  /\ pc[h] = "audit" => Audited(r)

Control == \A h \in Handlers : ControlOf(h)

\* The listing of a container is a set of entries.
LEMMA EntriesType ==
  ASSUME NEW t, NEW p \in Paths
  PROVE  Entries(t, p) \in Listings
<1> DEFINE Entry(q) == [name |-> SubSeq(q, Len(p) + 1, Len(q)),
                       container |-> t[q] \in Falsy]
           Entry_ == [name : Seq(STRING), container : BOOLEAN]
<1>1. ASSUME NEW q \in Paths, Below(p, q)
      PROVE  SubSeq(q, Len(p) + 1, Len(q)) \in Seq(STRING)
  <2>1. p \in Seq(STRING) /\ q \in Seq(STRING)
    BY PathsAssumption
  <2> QED BY <2>1 DEF Below
<1>2. \A q \in Paths : Below(p, q) => Entry(q) \in Entry_
  BY <1>1
<1>3. Entries(t, p) = {Entry(q) : q \in {x \in Paths : Below(p, x) /\ Present(t, x)}}
  BY DEF Entries
<1> HIDE DEF Entry
<1>4. Entries(t, p) \subseteq Entry_
  BY <1>2, <1>3
<1> QED BY <1>4 DEF Listings

\* A handler that a step of another one leaves alone.
Untouched(g) ==
  pc'[g] = pc[g] /\ req'[g] = req[g] /\ code'[g] = code[g] /\ out'[g] = out[g]

\* Decide() ends the operation of a request that is accepted or refused.
LEMMA DecideStep ==
  ASSUME TypeOK, NEW h \in Handlers, NEW r \in Requests, NEW status \in Codes \ {0},
         Decide(h, r, status)
  PROVE  /\ pc' \in [Handlers -> Steps] /\ code' \in [Handlers -> Codes]
         /\ pc'[h] = IF Audited(r) THEN "audit" ELSE "reply"
         /\ code'[h] = status
         /\ \A g \in Handlers \ {h} : pc'[g] = pc[g] /\ code'[g] = code[g]
  BY DEF Decide, Goto, TypeOK, Steps

LEMMA ReceiveStep ==
  ASSUME TypeOK, Control, NEW h \in Handlers, Receive(h)
  PROVE  TypeOK' /\ ControlOf(h)' /\ \A g \in Handlers \ {h} : Untouched(g)
<1>1. PICK r \in Requests :
        /\ req' = [req EXCEPT ![h] = r]
        /\ IF Refusal(r) # 0
           THEN Decide(h, r, Refusal(r))
           ELSE Goto(h, FirstStep(r)) /\ UNCHANGED code
  BY DEF Receive
<1>2. pc[h] = "idle" /\ code[h] = 0 /\ out[h] = None /\ UNCHANGED <<rows, out, log>>
  BY DEF Receive, Control, ControlOf
<1>3. req' \in [Handlers -> Requests \cup {None}] /\ req'[h] = r
  BY <1>1 DEF TypeOK
<1>4. CASE Refusal(r) # 0
  <2>1. Refusal(r) \in Codes \ {0}
    BY <1>4, RefusalType DEF Codes
  <2>2. Decide(h, r, Refusal(r))
    BY <1>1, <1>4
  <2> QED BY <1>1, <1>2, <1>3, <2>1, <2>2, DecideStep DEF TypeOK, ControlOf, Untouched
<1>5. CASE Refusal(r) = 0
  <2>1. FirstStep(r) \in {"parent", "victim", "store"}
    BY DEF FirstStep
  <2>2. FirstStep(r) = "parent" => NeedsParent(r)
    BY DEF FirstStep
  <2>3. FirstStep(r) = "victim" => Operation(r) = "destroy"
    BY DEF FirstStep
  <2>4. pc' = [pc EXCEPT ![h] = FirstStep(r)] /\ UNCHANGED code
    BY <1>1, <1>5 DEF Goto
  <2> QED BY <1>1, <1>2, <1>3, <1>5, <2>1, <2>2, <2>3, <2>4
          DEF TypeOK, ControlOf, Untouched, Steps
<1> QED BY <1>4, <1>5

\* What is known of a handler that is about to call the store.
LEMMA AtStore ==
  ASSUME TypeOK, Control, NEW h \in Handlers,
         pc[h] \in {"parent", "namespace", "victim", "store"}
  PROVE  /\ req[h] \in Requests /\ Refusal(req[h]) = 0
         /\ code[h] = 0 /\ out[h] = None
         /\ Target(req[h]) \in Paths
         /\ Operation(req[h]) # "list" => req[h].path \in Paths
         /\ pc[h] \in {"parent", "namespace"} => NeedsParent(req[h])
         /\ pc[h] = "namespace" =>
              InOwnNamespace(req[h]) /\ <<req[h].default>> \in Paths
         /\ pc[h] = "victim" => Operation(req[h]) = "destroy"
<1>1. req[h] \in Requests /\ Refusal(req[h]) = 0
  BY DEF Control, ControlOf
<1> QED BY <1>1, Accepted DEF Control, ControlOf

\* A store step of h that leaves the request and the log alone and either goes
\* on to the store or decides keeps the types.
LEMMA StoreStep ==
  ASSUME TypeOK, Control, NEW h \in Handlers,
         pc[h] \in {"parent", "namespace", "victim", "store"},
         UNCHANGED <<req, log>>,
         rows' \in Table,
         out' \in [Handlers -> {None} \cup Values \cup Listings],
         \A g \in Handlers \ {h} : out'[g] = out[g],
         \/ /\ \/ Goto(h, "store")
               \/ /\ Goto(h, "namespace")
                  /\ NeedsParent(req[h]) /\ InOwnNamespace(req[h])
            /\ UNCHANGED <<code, out>>
         \/ \E status \in Codes \ {0} : Decide(h, req[h], status)
  PROVE  TypeOK' /\ ControlOf(h)' /\ \A g \in Handlers \ {h} : Untouched(g)
<1>1. req[h] \in Requests /\ Refusal(req[h]) = 0 /\ code[h] = 0 /\ out[h] = None
  BY AtStore
<1>2. CASE /\ \/ Goto(h, "store")
              \/ Goto(h, "namespace") /\ NeedsParent(req[h]) /\ InOwnNamespace(req[h])
           /\ UNCHANGED <<code, out>>
  BY <1>1, <1>2 DEF TypeOK, Goto, ControlOf, Untouched, Steps
<1>3. CASE \E status \in Codes \ {0} : Decide(h, req[h], status)
  BY <1>1, <1>3, DecideStep DEF TypeOK, ControlOf, Untouched
<1> QED BY <1>2, <1>3

LEMMA ProceedStep ==
  ASSUME TypeOK, Control, NEW h \in Handlers, Proceed(h) \/ Crash(h)
  PROVE  TypeOK' /\ ControlOf(h)' /\ \A g \in Handlers \ {h} : Untouched(g)
<1> DEFINE AtStoreStep == pc[h] \in {"parent", "namespace", "victim", "store"}
<1>1. CASE ListParent(h)
  <2>1. AtStoreStep /\ NeedsParent(req[h])
    BY <1>1, AtStore DEF ListParent
  <2> QED BY <1>1, <2>1, StoreStep DEF ListParent, TypeOK, Codes
<1>2. CASE SpanNamespace(h)
  <2>1. AtStoreStep /\ <<req[h].default>> \in Paths
    BY <1>2, AtStore DEF SpanNamespace
  <2>2. rows' \in Table
    BY <1>2, <2>1 DEF SpanNamespace, Spanned, Stored, TypeOK, Table, Payloads
  <2>3. ExistsCode(req[h]) \in Codes \ {0}
    BY DEF ExistsCode, Codes, Successes
  <2> QED BY <1>2, <2>1, <2>2, <2>3, StoreStep DEF SpanNamespace, TypeOK
<1>3. CASE Insert(h)
  <2>1. AtStoreStep /\ req[h].path \in Paths /\ req[h] \in Requests
    BY <1>3, AtStore DEF Insert
  <2>2. rows' \in Table
    BY <1>3, <2>1, RequestsOK
    DEF Insert, Spanned, Stored, TypeOK, Table, Payloads, RequestOK
  <2>3. ExistsCode(req[h]) \in Codes \ {0} /\ 201 \in Codes \ {0}
    BY DEF ExistsCode, Codes, Successes
  <2> QED BY <1>3, <2>1, <2>2, <2>3, StoreStep DEF Insert, TypeOK
<1>4. CASE GetKey(h)
  <2>1. AtStoreStep
    BY <1>4 DEF GetKey
  <2>2. /\ out' \in [Handlers -> {None} \cup Values \cup Listings]
        /\ \A g \in Handlers \ {h} : out'[g] = out[g]
    BY <1>4 DEF GetKey, Output, TypeOK
  <2>3. \E status \in Codes \ {0} : Decide(h, req[h], status)
    BY <1>4 DEF GetKey, Codes, Successes
  <2>4. rows' \in Table /\ UNCHANGED <<req, log>>
    BY <1>4 DEF GetKey, TypeOK
  <2> QED BY <2>1, <2>2, <2>3, <2>4, StoreStep
<1>5. CASE ListContainer(h)
  <2>1. AtStoreStep
    BY <1>5 DEF ListContainer
  <2>2. Entries(rows, Target(req[h])) \in Listings
    BY <2>1, AtStore, EntriesType
  <2>3. /\ out' \in [Handlers -> {None} \cup Values \cup Listings]
        /\ \A g \in Handlers \ {h} : out'[g] = out[g]
    BY <1>5, <2>2 DEF ListContainer, Output, TypeOK
  <2>4. \E status \in Codes \ {0} : Decide(h, req[h], status)
    BY <1>5 DEF ListContainer, Codes, Successes
  <2>5. rows' \in Table /\ UNCHANGED <<req, log>>
    BY <1>5 DEF ListContainer, TypeOK
  <2> QED BY <2>1, <2>3, <2>4, <2>5, StoreStep
<1>6. CASE ListVictim(h)
  <2>1. AtStoreStep
    BY <1>6 DEF ListVictim
  <2> QED BY <1>6, <2>1, StoreStep DEF ListVictim, TypeOK, Codes
<1>7. CASE Cut(h)
  <2>1. AtStoreStep /\ req[h].path \in Paths
    BY <1>7, AtStore DEF Cut
  <2>2. rows' \in Table
    BY <1>7, <2>1 DEF Cut, CutFrom, TypeOK, Table
  <2>3. \E status \in Codes \ {0} : Decide(h, req[h], status)
    BY <1>7 DEF Cut, Codes, Successes
  <2> QED BY <1>7, <2>1, <2>2, <2>3, StoreStep DEF Cut, TypeOK
<1>8. CASE StoreFault(h)
  <2>1. \A f \in Faults : FaultCode[f] \in Codes \ {0}
    BY FaultCodeType DEF Codes
  <2> QED BY <1>8, <2>1, StoreStep DEF StoreFault, TypeOK
<1>9. CASE Audit(h)
  BY <1>9 DEF Audit, TypeOK, Control, ControlOf, Goto, Untouched, Steps
<1>10. CASE Reply(h) \/ Crash(h)
  BY <1>10 DEF Reply, Crash, Exit, TypeOK, ControlOf, Untouched, Steps, Codes
<1> QED BY <1>1, <1>2, <1>3, <1>4, <1>5, <1>6, <1>7, <1>8, <1>9, <1>10 DEF Proceed

\* Every handler's place agrees with the request it is about, and the variables
\* hold values of their types (all of Secrets).
THEOREM TypeCorrect == Spec => []TypeOK /\ []Control
<1>1. Init => TypeOK /\ Control
  BY DEF Init, TypeOK, Control, ControlOf, Table, NoRows, Steps, Codes
<1>2. TypeOK /\ Control /\ [Next]_vars => TypeOK' /\ Control'
  <2> SUFFICES ASSUME TypeOK, Control, [Next]_vars PROVE TypeOK' /\ Control'
    OBVIOUS
  <2>1. CASE UNCHANGED vars
    BY <2>1 DEF vars, TypeOK, Control, ControlOf
  <2>2. ASSUME NEW h \in Handlers, Receive(h) \/ Proceed(h) \/ Crash(h)
        PROVE  TypeOK' /\ Control'
    <3>1. TypeOK' /\ ControlOf(h)' /\ \A g \in Handlers \ {h} : Untouched(g)
      BY <2>2, ReceiveStep, ProceedStep
    <3>2. ASSUME NEW g \in Handlers \ {h} PROVE ControlOf(g)'
      BY <3>1 DEF Untouched, Control, ControlOf
    <3> QED BY <3>1, <3>2 DEF Control
  <2> QED BY <2>1, <2>2 DEF Next
<1> QED BY <1>1, <1>2, PTL DEF Spec

--------------------------------------------------------------------------------
(***************************************************************************)
(* The four things a step of a handler can do to the table.  Everything    *)
(* below is about which of them a step does.                               *)
(***************************************************************************)

LeavesRows(h) ==
  rows' = rows /\ (code[h] = 0 => code'[h] \notin {201, 204})

AddsRow(h) ==
  LET p == <<req[h].default>> IN
  /\ pc[h] = "namespace" /\ p \in Paths
  /\ ~Present(rows, p) /\ rows' = [rows EXCEPT ![p] = Empty]
  /\ code[h] = 0 /\ code'[h] = 0 /\ pc'[h] = "store"

InsertsRow(h) ==
  LET r == req[h] IN
  /\ pc[h] = "store" /\ r.path \in Paths
  /\ ~Present(rows, r.path)
  /\ \/ Operation(r) = "set" /\ rows' = [rows EXCEPT ![r.path] = r.payload]
     \/ Operation(r) = "create" /\ rows' = [rows EXCEPT ![r.path] = Empty]
  /\ code[h] = 0 /\ code'[h] = 201
  /\ pc'[h] = IF Operation(r) = "set" THEN "audit" ELSE "reply"

RemovesRow(h) ==
  LET r == req[h] IN
  /\ r.path \in Paths /\ Operation(r) \in {"del", "destroy"}
  /\ Present(rows, r.path) /\ rows' = [rows EXCEPT ![r.path] = Absent]
  /\ code[h] = 0 /\ code'[h] = 204

LEMMA RowsStep ==
  ASSUME TypeOK, Control, NEW h \in Handlers,
         Receive(h) \/ Proceed(h) \/ Crash(h)
  PROVE  \/ LeavesRows(h)
         \/ /\ req[h] \in Requests /\ UNCHANGED <<req, log>>
            /\ AddsRow(h) \/ InsertsRow(h) \/ RemovesRow(h)
<1>1. CASE Receive(h)
  <2>1. PICK r \in Requests :
          IF Refusal(r) # 0 THEN Decide(h, r, Refusal(r)) ELSE UNCHANGED code
    BY <1>1 DEF Receive
  <2>2. Refusal(r) \notin {201, 204} /\ rows' = rows
    BY <1>1, RefusalType DEF Receive
  <2> QED BY <2>1, <2>2 DEF LeavesRows, Decide, TypeOK
<1>2. CASE SpanNamespace(h)
  <2>1. /\ req[h] \in Requests /\ code[h] = 0
        /\ <<req[h].default>> \in Paths
    BY <1>2, AtStore DEF SpanNamespace
  <2>2. CASE Conflicts(rows, <<req[h].default>>, FALSE)
    <3>1. rows' = rows /\ Decide(h, req[h], ExistsCode(req[h]))
      BY <1>2, <2>2 DEF SpanNamespace
    <3>2. ExistsCode(req[h]) \in {200, 409}
      BY DEF ExistsCode
    <3> QED BY <3>1, <3>2 DEF LeavesRows, Decide, TypeOK
  <2>3. CASE ~Conflicts(rows, <<req[h].default>>, FALSE)
    BY <1>2, <2>1, <2>3
    DEF SpanNamespace, AddsRow, Conflicts, Spanned, Stored, Goto, TypeOK
  <2> QED BY <2>2, <2>3
<1>3. CASE Insert(h)
  <2>1. /\ req[h] \in Requests /\ code[h] = 0 /\ req[h].path \in Paths
    BY <1>3, AtStore DEF Insert
  <2>2. CASE Conflicts(rows, req[h].path, FALSE)
    <3>1. rows' = rows /\ Decide(h, req[h], ExistsCode(req[h]))
      BY <1>3, <2>2 DEF Insert
    <3>2. ExistsCode(req[h]) \in {200, 409}
      BY DEF ExistsCode
    <3> QED BY <3>1, <3>2 DEF LeavesRows, Decide, TypeOK
  <2>3. CASE ~Conflicts(rows, req[h].path, FALSE)
    BY <1>3, <2>1, <2>3
    DEF Insert, InsertsRow, Conflicts, Spanned, Stored, Decide, Goto, TypeOK, Audited
  <2> QED BY <2>2, <2>3
<1>4. CASE Cut(h)
  <2>1. /\ req[h] \in Requests /\ code[h] = 0 /\ req[h].path \in Paths
    BY <1>4, AtStore DEF Cut
  <2>2. CASE Present(rows, req[h].path)
    BY <1>4, <2>1, <2>2 DEF Cut, RemovesRow, CutFrom, Decide, TypeOK
  <2>3. CASE ~Present(rows, req[h].path)
    BY <1>4, <2>1, <2>3 DEF Cut, LeavesRows, Present, CutFrom, Decide, TypeOK, Table
  <2> QED BY <2>2, <2>3
<1>5. CASE ListParent(h) \/ GetKey(h) \/ ListContainer(h) \/ ListVictim(h)
  BY <1>5 DEF ListParent, GetKey, ListContainer, ListVictim, LeavesRows, Decide, TypeOK
<1>6. CASE StoreFault(h)
  BY <1>6, FaultCodeType DEF StoreFault, LeavesRows, Decide, TypeOK
<1>7. CASE Audit(h)
  BY <1>7 DEF Audit, LeavesRows
<1>8. CASE Reply(h) \/ Crash(h)
  BY <1>8 DEF Reply, Crash, Exit, LeavesRows, TypeOK
<1> QED BY <1>1, <1>2, <1>3, <1>4, <1>5, <1>6, <1>7, <1>8 DEF Proceed

\* WriteOnce of Secrets: no step overwrites a row that is there, so of two PUTs
\* that both found the parent the second is refused (SqliteStore.set()).
THEOREM WrittenOnce == Spec => WriteOnce
<1>1. ASSUME TypeOK, Control, Next, NEW p \in Paths,
             Present(rows, p), Present(rows', p)
      PROVE  rows'[p] = rows[p]
  <2>1. PICK h \in Handlers : Receive(h) \/ Proceed(h) \/ Crash(h)
    BY <1>1 DEF Next
  <2>2. \/ LeavesRows(h)
        \/ AddsRow(h) \/ InsertsRow(h) \/ RemovesRow(h)
    BY <1>1, <2>1, RowsStep
  <2> QED BY <1>1, <2>2
          DEF LeavesRows, AddsRow, InsertsRow, RemovesRow, Present, TypeOK, Table
<1>2. TypeOK /\ Control /\ [Next]_vars =>
        [\A p \in Paths : Present(rows, p) /\ Present(rows', p) => rows'[p] = rows[p]]_vars
  BY <1>1
<1> QED BY <1>2, TypeCorrect, PTL DEF Spec, WriteOnce

\* A handler that leaves the code of another one alone.
LEMMA OthersUntouched ==
  ASSUME TypeOK, Control, NEW h \in Handlers,
         Receive(h) \/ Proceed(h) \/ Crash(h)
  PROVE  \A g \in Handlers \ {h} : Untouched(g)
  BY ReceiveStep, ProceedStep

\* EffectsAreAnswered of Secrets: the table changes by the calls that are told
\* 201 or 204 and by nothing else but the creation of their own namespace.
THEOREM EffectsAnswered == Spec => EffectsAreAnswered
<1> DEFINE Explained ==
      \A p \in Paths : rows'[p] # rows[p] =>
        \E h \in Handlers : TakesEffect(h, p) \/ AddsNamespace(h, p)
    Effective ==
      \A h \in Handlers : code[h] = 0 /\ code'[h] \in {201, 204} =>
        TakesEffect(h, req[h].path) /\ rows'[req[h].path] # rows[req[h].path]
<1>1. ASSUME TypeOK, Control, Next PROVE Explained /\ Effective
  <2>1. PICK h \in Handlers : Receive(h) \/ Proceed(h) \/ Crash(h)
    BY <1>1 DEF Next
  <2>2. \A g \in Handlers \ {h} : code'[g] = code[g]
    BY <1>1, <2>1, OthersUntouched DEF Untouched
  <2>3. CASE LeavesRows(h)
    BY <2>2, <2>3 DEF LeavesRows
  <2>4. ASSUME ~LeavesRows(h)
        PROVE  /\ req[h] \in Requests /\ req[h] # None
               /\ AddsRow(h) \/ InsertsRow(h) \/ RemovesRow(h)
    BY <1>1, <2>1, <2>4, RowsStep, ApiAssumption
  <2>5. CASE ~LeavesRows(h) /\ AddsRow(h)
    <3>1. req[h].cmd \in {"PUT", "POST"}
      <4>1. NeedsParent(req[h])
        BY <1>1, <2>5 DEF AddsRow, Control, ControlOf
      <4> QED BY <2>4, <2>5, <4>1, OperationCommand DEF NeedsParent
    <3>2. AddsNamespace(h, <<req[h].default>>)
      BY <1>1, <2>4, <2>5, <3>1 DEF AddsRow, AddsNamespace, TypeOK, Table
    <3>3. \A p \in Paths \ {<<req[h].default>>} : rows'[p] = rows[p]
      BY <1>1, <2>5 DEF AddsRow, TypeOK, Table
    <3>4. Effective
      BY <2>2, <2>5 DEF AddsRow
    <3> QED BY <3>2, <3>3, <3>4
  <2>6. CASE ~LeavesRows(h) /\ InsertsRow(h)
    <3>1. /\ Operation(req[h]) = "set" => req[h].cmd = "PUT"
          /\ Operation(req[h]) = "create" => req[h].cmd = "POST"
      BY <2>4, <2>6, OperationCommand
    <3>2. req[h].payload # Absent /\ Empty # Absent
      BY <2>4, <2>6, RequestsOK, ValuesAssumption DEF RequestOK, Payloads
    <3>3. TakesEffect(h, req[h].path) /\ rows'[req[h].path] # rows[req[h].path]
      BY <1>1, <2>4, <2>6, <3>1, <3>2 DEF InsertsRow, TakesEffect, Present, TypeOK, Table
    <3>4. \A p \in Paths \ {req[h].path} : rows'[p] = rows[p]
      BY <1>1, <2>6 DEF InsertsRow, TypeOK, Table
    <3> QED BY <2>2, <3>3, <3>4
  <2>7. CASE ~LeavesRows(h) /\ RemovesRow(h)
    <3>1. req[h].cmd = "DELETE"
      BY <2>4, <2>7, OperationCommand DEF RemovesRow
    <3>2. TakesEffect(h, req[h].path) /\ rows'[req[h].path] # rows[req[h].path]
      BY <1>1, <2>4, <2>7, <3>1 DEF RemovesRow, TakesEffect, Present, TypeOK, Table
    <3>3. \A p \in Paths \ {req[h].path} : rows'[p] = rows[p]
      BY <1>1, <2>7 DEF RemovesRow, TypeOK, Table
    <3> QED BY <2>2, <3>2, <3>3
  <2> QED BY <2>3, <2>4, <2>5, <2>6, <2>7
<1>2. TypeOK /\ Control /\ [Next]_vars => [Explained /\ Effective]_vars
  BY <1>1
<1> QED BY <1>2, TypeCorrect, PTL DEF Spec, EffectsAreAnswered

--------------------------------------------------------------------------------
(***************************************************************************)
(* The tree has no holes while nothing is deleted.  The invariant that is  *)
(* inductive adds what a handler knows after _parent_exists(): the parent  *)
(* container is still there when the handler comes to insert.              *)
(***************************************************************************)

ParentKnown ==
  \A h \in Handlers :
    pc[h] = "store" /\ NeedsParent(req[h]) => Exists(rows, Container(req[h]))

GrowingTree == NoOrphansIn(rows) /\ ParentKnown

\* Without deletions rows are only added.
LEMMA RowsGrow ==
  ASSUME TypeOK, Control, NoDeletes, NEW h \in Handlers,
         Receive(h) \/ Proceed(h) \/ Crash(h)
  PROVE  /\ LeavesRows(h) \/ (req[h] \in Requests /\ (AddsRow(h) \/ InsertsRow(h)))
         /\ \A p \in Paths : Present(rows, p) => rows'[p] = rows[p]
<1>1. ~(req[h] \in Requests /\ RemovesRow(h))
  BY OperationCommand DEF RemovesRow, NoDeletes
<1>2. LeavesRows(h) \/ (req[h] \in Requests /\ (AddsRow(h) \/ InsertsRow(h)))
  BY <1>1, RowsStep
<1> QED BY <1>2 DEF LeavesRows, AddsRow, InsertsRow, Present, TypeOK, Table

\* What is there stays there.
LEMMA ExistsGrows ==
  ASSUME NEW t, NEW u, NEW p, \A q \in Paths : Present(t, q) => Present(u, q),
         Exists(t, p)
  PROVE  Exists(u, p)
  BY DEF Exists

LEMMA BelowTransitive ==
  ASSUME NEW p \in Paths, NEW q \in Paths, NEW r \in Paths, Below(p, q), Below(q, r)
  PROVE  Below(p, r)
<1>1. p \in Seq(STRING) /\ q \in Seq(STRING) /\ r \in Seq(STRING)
  BY PathsAssumption
<1>2. Len(p) \in Nat /\ Len(q) \in Nat /\ Len(r) \in Nat /\ Len(p) < Len(q) /\ Len(q) < Len(r)
  BY <1>1 DEF Below
<1>3. SubSeq(r, 1, Len(p)) = SubSeq(SubSeq(r, 1, Len(q)), 1, Len(p))
  BY <1>1, <1>2
<1> QED BY <1>2, <1>3 DEF Below

\* In a tree without holes a container that has something in it has a row.
LEMMA ExistsIsPresent ==
  ASSUME NEW t, NoOrphansIn(t), NEW p \in Paths, Exists(t, p)
  PROVE  Present(t, p)
  BY DEF Exists, NoOrphansIn

\* Inserting a row whose parent is there leaves no hole.
LEMMA InsertKeepsTree ==
  ASSUME NEW t, NEW u, NoOrphansIn(t), NEW p \in Paths,
         \A q \in Paths : Present(u, q) <=> Present(t, q) \/ q = p,
         Len(p) > 1 => Parent(p) \in Paths /\ Exists(t, Parent(p))
  PROVE  NoOrphansIn(u)
<1> SUFFICES ASSUME NEW q \in Paths, NEW a \in Paths, Present(u, q), Below(a, q)
             PROVE  Present(u, a)
  BY DEF NoOrphansIn
<1>1. CASE q # p
  BY <1>1 DEF NoOrphansIn
<1>2. CASE q = p
  <2>1. Len(p) > 1 /\ (a = Parent(p) \/ Below(a, Parent(p))) /\ Parent(p) \in Paths
    BY <1>2, AboveParent
  <2>2. Present(t, Parent(p))
    BY <2>1, ExistsIsPresent
  <2> QED BY <2>1, <2>2 DEF NoOrphansIn
<1> QED BY <1>1, <1>2

\* The missing parent that is created is the default namespace.
LEMMA OwnContainer ==
  ASSUME NEW r \in Requests, InOwnNamespace(r)
  PROVE  Container(r) = <<r.default>>
<1>1. Parent(r.trail) = <<r.default>> /\ <<r.default>> \in Paths
  BY RequestsOK DEF InOwnNamespace, RequestOK
<1>2. Unslashed(Parent(r.trail))
  BY <1>1, SlashedAssumption
<1> QED BY <1>1, <1>2 DEF Container, Joined

\* A handler that arrives at its insertion has just seen or made its parent.
LEMMA ArrivesWithParent ==
  ASSUME TypeOK, Control, NEW h \in Handlers,
         Receive(h) \/ Proceed(h) \/ Crash(h),
         pc'[h] = "store", NeedsParent(req'[h])
  PROVE  Exists(rows, Container(req[h]))'
<1>1. CASE Receive(h)
  <2>1. PICK r \in Requests :
          /\ req' = [req EXCEPT ![h] = r]
          /\ IF Refusal(r) # 0 THEN Decide(h, r, Refusal(r)) ELSE Goto(h, FirstStep(r))
    BY <1>1 DEF Receive
  <2>2. req'[h] = r /\ pc'[h] = FirstStep(r)
    BY <2>1 DEF Decide, Goto, TypeOK
  <2> QED BY <2>2 DEF FirstStep
<1>2. CASE ListParent(h)
  BY <1>2 DEF ListParent, Decide, Goto, TypeOK
<1>3. CASE SpanNamespace(h)
  <2>1. /\ req'[h] = req[h] /\ NeedsParent(req[h]) /\ InOwnNamespace(req[h])
        /\ <<req[h].default>> \in Paths
    BY <1>3, AtStore DEF SpanNamespace
  <2>2. rows' = Spanned(rows, <<req[h].default>>)
    BY <1>3 DEF SpanNamespace, Decide, Goto, TypeOK
  <2>3. Present(rows', <<req[h].default>>)
    BY <2>1, <2>2, ValuesAssumption DEF Spanned, Stored, Present, TypeOK, Table
  <2>4. Container(req[h]) = <<req[h].default>>
    BY <1>3, <2>1, OwnContainer, AtStore DEF SpanNamespace
  <2>5. Exists(rows', Container(req[h]))
    BY <2>1, <2>3, <2>4 DEF Exists
  <2> QED BY <2>1, <2>5
<1>4. CASE \/ Insert(h) \/ GetKey(h) \/ ListContainer(h) \/ Cut(h) \/ StoreFault(h)
  BY <1>4 DEF Insert, GetKey, ListContainer, Cut, StoreFault, Decide, Goto, TypeOK
<1>5. CASE ListVictim(h)
  <2>1. req'[h] = req[h] /\ Operation(req[h]) = "destroy"
    BY <1>5, AtStore DEF ListVictim
  <2> QED BY <2>1 DEF NeedsParent
<1>6. CASE Audit(h) \/ Reply(h) \/ Crash(h)
  BY <1>6 DEF Audit, Reply, Crash, Exit, Goto, TypeOK
<1> QED BY <1>1, <1>2, <1>3, <1>4, <1>5, <1>6 DEF Proceed

LEMMA TreeStep ==
  ASSUME TypeOK, Control, NoDeletes, NoSlashes, GrowingTree, NEW h \in Handlers,
         Receive(h) \/ Proceed(h) \/ Crash(h)
  PROVE  GrowingTree'
<1>1. \A p \in Paths : Present(rows, p) => Present(rows', p)
  BY RowsGrow DEF Present
<1>2. NoOrphansIn(rows')
  <2>1. CASE LeavesRows(h)
    BY <2>1 DEF LeavesRows, GrowingTree
  <2>2. CASE req[h] \in Requests /\ AddsRow(h)
    <3> DEFINE p == <<req[h].default>>
    <3>1. p \in Paths /\ \A q \in Paths : Present(rows', q) <=> Present(rows, q) \/ q = p
      BY <2>2, ValuesAssumption DEF AddsRow, Present, TypeOK, Table
    <3>2. ~(Len(p) > 1)
      OBVIOUS
    <3>3. NoOrphansIn(rows)
      BY DEF GrowingTree
    <3> HIDE DEF p
    <3> QED BY <3>1, <3>2, <3>3, InsertKeepsTree
  <2>3. CASE req[h] \in Requests /\ InsertsRow(h)
    <3> DEFINE p == req[h].path
    <3>1. req[h].payload # Absent /\ Empty # Absent
      BY <2>3, RequestsOK, ValuesAssumption DEF RequestOK, Payloads
    <3>2. p \in Paths /\ \A q \in Paths : Present(rows', q) <=> Present(rows, q) \/ q = p
      BY <2>3, <3>1 DEF InsertsRow, Present, TypeOK, Table
    <3>3. p = req[h].trail /\ (Len(p) > 1 => Container(req[h]) = Parent(p))
      BY <2>3, UnslashedRow DEF NoSlashes
    <3>4. Len(p) > 1 => NeedsParent(req[h])
      BY <2>3, <3>3 DEF InsertsRow, NeedsParent
    <3>5. Len(p) > 1 => Parent(p) \in Paths /\ Exists(rows, Parent(p))
      BY <2>3, <3>3, <3>4, RequestsOK DEF InsertsRow, GrowingTree, ParentKnown, RequestOK
    <3> QED BY <3>2, <3>5, InsertKeepsTree DEF GrowingTree
  <2> QED BY <2>1, <2>2, <2>3, RowsGrow
<1>3. ASSUME NEW g \in Handlers, pc'[g] = "store", NeedsParent(req'[g])
      PROVE  Exists(rows, Container(req[g]))'
  <2>1. CASE g = h
    BY <1>3, <2>1, ArrivesWithParent
  <2>2. CASE g # h
    <3>1. pc'[g] = pc[g] /\ req'[g] = req[g]
      BY <2>2, OthersUntouched DEF Untouched
    <3>2. Exists(rows, Container(req[g]))
      BY <1>3, <3>1 DEF GrowingTree, ParentKnown
    <3> QED BY <1>1, <3>1, <3>2, ExistsGrows
  <2> QED BY <2>1, <2>2
<1> QED BY <1>2, <1>3 DEF GrowingTree, ParentKnown

\* The tree only grows, and a parent that was seen stays (_parent_exists()).
THEOREM TreeGrows == Spec /\ NoDeletes /\ NoSlashes => []GrowingTree
<1>1. Init => GrowingTree
  BY DEF Init, GrowingTree, NoOrphansIn, ParentKnown, NoRows, Present
<1>2. TypeOK /\ Control /\ NoDeletes /\ NoSlashes /\ GrowingTree /\ [Next]_vars => GrowingTree'
  <2> SUFFICES ASSUME TypeOK, Control, NoDeletes, NoSlashes, GrowingTree, [Next]_vars
               PROVE  GrowingTree'
    OBVIOUS
  <2>1. CASE UNCHANGED vars
    BY <2>1 DEF vars, GrowingTree, ParentKnown
  <2> QED BY <2>1, TreeStep DEF Next
<1>3. CASE NoDeletes /\ NoSlashes
  BY <1>1, <1>2, <1>3, TypeCorrect, PTL DEF Spec
<1>4. CASE ~(NoDeletes /\ NoSlashes)
  BY <1>4
<1> QED BY <1>3, <1>4

\* NoOrphans of Secrets: whatever is stored is in containers that all have a
\* row, though _parent_exists() and the insertion are two transactions.
THEOREM NoHoles == Spec => []NoOrphans
<1>1. GrowingTree => NoOrphans
  BY DEF GrowingTree, NoOrphans
<1>2. ~(NoDeletes /\ NoSlashes) => NoOrphans
  BY DEF NoOrphans
<1>3. CASE NoDeletes /\ NoSlashes
  BY <1>1, <1>3, TreeGrows, PTL
<1>4. CASE ~(NoDeletes /\ NoSlashes)
  BY <1>2, <1>4, PTL
<1> QED BY <1>3, <1>4

--------------------------------------------------------------------------------
(***************************************************************************)
(* Of racing creators of a row one is told 201.                            *)
(***************************************************************************)

\* A decided request is only ever audited, answered or lost.
LEMMA DecidedStep ==
  ASSUME TypeOK, Control, NEW h \in Handlers,
         Receive(h) \/ Proceed(h) \/ Crash(h), code[h] # 0
  PROVE  /\ rows' = rows
         /\ \/ /\ pc[h] = "audit" /\ Audit(h)
               /\ req'[h] = req[h] /\ code'[h] = code[h] /\ pc'[h] = "reply"
            \/ code'[h] = 0 /\ pc'[h] = "idle" /\ UNCHANGED log
               /\ (pc[h] = "reply" \/ CanCrash)
<1>1. pc[h] \in {"audit", "reply"}
  BY DEF Control, ControlOf, TypeOK, Steps
<1>2. Audit(h) \/ Reply(h) \/ Crash(h)
  BY <1>1 DEF Receive, Proceed, ListParent, SpanNamespace, Insert, GetKey,
              ListContainer, ListVictim, Cut, StoreFault
<1> QED BY <1>2 DEF Audit, Reply, Crash, Exit, Goto, TypeOK

Winner(h) ==
  code[h] = 201 =>
    /\ req[h].path \in Paths /\ Present(rows, req[h].path)
    /\ Operation(req[h]) = "set" => rows[req[h].path] = req[h].payload

Winners ==
  /\ \A h \in Handlers : Winner(h)
  /\ \A g, h \in Handlers :
       code[g] = 201 /\ code[h] = 201 /\ req[g].path = req[h].path => g = h

LEMMA WinnersStep ==
  ASSUME TypeOK, Control, NoDeletes, Winners, NEW h \in Handlers,
         Receive(h) \/ Proceed(h) \/ Crash(h)
  PROVE  Winners'
<1>1. \A p \in Paths : Present(rows, p) => rows'[p] = rows[p]
  BY RowsGrow
<1>2. \A g \in Handlers \ {h} : req'[g] = req[g] /\ code'[g] = code[g]
  BY OthersUntouched DEF Untouched
<1>3. ASSUME NEW g \in Handlers \ {h} PROVE Winner(g)'
  BY <1>1, <1>2 DEF Winners, Winner, Present
<1>4. CASE code[h] # 0
  <2>1. code'[h] = 201 => code[h] = 201 /\ req'[h] = req[h] /\ rows' = rows
    BY <1>4, DecidedStep
  <2> QED BY <1>2, <1>3, <2>1 DEF Winners, Winner
<1>5. CASE code[h] = 0 /\ code'[h] # 201
  BY <1>2, <1>3, <1>5 DEF Winners, Winner
<1>6. CASE code[h] = 0 /\ code'[h] = 201
  <2>1. req[h] \in Requests /\ InsertsRow(h) /\ req'[h] = req[h]
    <3>1. ~LeavesRows(h)
      BY <1>6 DEF LeavesRows
    <3>2. req[h] \in Requests /\ UNCHANGED req /\ (AddsRow(h) \/ InsertsRow(h) \/ RemovesRow(h))
      BY <3>1, RowsStep
    <3> QED BY <1>6, <3>2 DEF AddsRow, RemovesRow
  <2>2. req[h].payload # Absent /\ Empty # Absent
    BY <2>1, RequestsOK, ValuesAssumption DEF RequestOK, Payloads
  <2>3. Winner(h)'
    BY <2>1, <2>2 DEF Winner, InsertsRow, Present, TypeOK, Table
  <2>4. \A g \in Handlers \ {h} : code'[g] = 201 => req'[g].path # req'[h].path
    BY <1>2, <2>1 DEF Winners, Winner, InsertsRow
  <2>5. \A f, g \in Handlers \ {h} :
          code'[f] = 201 /\ code'[g] = 201 /\ req'[f].path = req'[g].path => f = g
    BY <1>2 DEF Winners
  <2>6. \A f, g \in Handlers :
          code'[f] = 201 /\ code'[g] = 201 /\ req'[f].path = req'[g].path => f = g
    BY <2>4, <2>5
  <2>7. \A g \in Handlers : Winner(g)'
    BY <1>3, <2>3
  <2> QED BY <2>6, <2>7 DEF Winners
<1> QED BY <1>4, <1>5, <1>6

\* OneWinner of Secrets: two children cannot both be told that they created
\* the same row, and what a PUT was told it stored is what is stored.
THEOREM SingleWinner == Spec => []OneWinner
<1>1. Init => Winners
  BY DEF Init, Winners, Winner
<1>2. TypeOK /\ Control /\ NoDeletes /\ Winners /\ [Next]_vars => Winners'
  <2> SUFFICES ASSUME TypeOK, Control, NoDeletes, Winners, [Next]_vars
               PROVE  Winners'
    OBVIOUS
  <2>1. CASE UNCHANGED vars
    BY <2>1 DEF vars, Winners, Winner
  <2> QED BY <2>1, WinnersStep DEF Next
<1>3. Winners => OneWinner
  BY DEF Winners, Winner, OneWinner
<1>4. ~NoDeletes => OneWinner
  BY DEF OneWinner
<1>5. CASE NoDeletes
  BY <1>1, <1>2, <1>3, <1>5, TypeCorrect, PTL DEF Spec
<1>6. CASE ~NoDeletes
  BY <1>4, <1>6, PTL
<1> QED BY <1>5, <1>6

--------------------------------------------------------------------------------
(***************************************************************************)
(* The audit log knows every secret that is there.                         *)
(***************************************************************************)

Known(p) == <<"set", "allowed", p>> \in log \/ AuditPending(p)

\* AuditComplete, and the same for what a handler has read and not audited yet.
AuditInv ==
  \A p \in Watched :
    /\ rows[p] \in Values => Known(p)
    /\ <<"get", "allowed", p>> \in log => Known(p)
    /\ \A h \in Handlers :
         pc[h] = "audit" /\ Operation(req[h]) = "get" /\ code[h] \in Successes
           /\ req[h].path = p => Known(p)

\* A record names the row, as no segment begins with '/'.
LEMMA AuditedRow ==
  ASSUME Control, RowsAreSpelled, NEW h \in Handlers, pc[h] = "audit"
  PROVE  Spelled(req[h].trail) = req[h].path
<1>1. req[h] \in Requests /\ Audited(req[h])
  BY DEF Control, ControlOf
<1> QED BY <1>1, OperationCommand DEF RowsAreSpelled

\* Nobody forgets that a secret was stored: the record replaces the handler.
LEMMA KnownStays ==
  ASSUME TypeOK, Control, ~CanCrash, RowsAreSpelled, NEW h \in Handlers,
         Receive(h) \/ Proceed(h) \/ Crash(h), NEW p \in Watched, Known(p)
  PROVE  Known(p)'
<1>1. CASE <<"set", "allowed", p>> \in log
  <2>1. log \subseteq log'
    BY DEF Receive, Proceed, Crash, ListParent, SpanNamespace, Insert, GetKey,
           ListContainer, ListVictim, Cut, StoreFault, Audit, Reply, Exit
  <2> QED BY <1>1, <2>1 DEF Known
<1>2. CASE AuditPending(p)
  <2>1. PICK g \in Handlers : /\ pc[g] = "audit" /\ code[g] = 201
                              /\ Operation(req[g]) = "set" /\ req[g].path = p
    BY <1>2 DEF AuditPending
  <2>2. CASE g # h
    <3>1. pc'[g] = pc[g] /\ req'[g] = req[g] /\ code'[g] = code[g]
      BY <2>2, OthersUntouched DEF Untouched
    <3> QED BY <2>1, <3>1 DEF Known, AuditPending
  <2>3. CASE g = h
    <3>1. Audit(h)
      BY <2>1, <2>3, DecidedStep
    <3>2. Verdict(h) = "allowed"
      BY <2>1, <2>3 DEF Verdict, Successes
    <3>3. Spelled(req[h].trail) = p
      BY <2>1, <2>3, AuditedRow
    <3>4. <<"set", "allowed", p>> \in log'
      BY <2>1, <2>3, <3>1, <3>2, <3>3 DEF Audit, Records
    <3> QED BY <3>4 DEF Known
  <2> QED BY <2>2, <2>3
<1> QED BY <1>1, <1>2 DEF Known

\* A GET is successful only by the step that finds the value.
LEMMA ReadsValue ==
  ASSUME TypeOK, Control, NEW h \in Handlers,
         Receive(h) \/ Proceed(h) \/ Crash(h),
         pc'[h] = "audit", Operation(req'[h]) = "get", code'[h] \in Successes
  PROVE  /\ GetKey(h) /\ code'[h] = 200 /\ req'[h] = req[h]
         /\ rows[req[h].path] \in Values
<1>1. ~Receive(h)
  <2> SUFFICES ASSUME Receive(h) PROVE FALSE
    OBVIOUS
  <2>1. PICK r \in Requests :
          IF Refusal(r) # 0 THEN Decide(h, r, Refusal(r))
                            ELSE Goto(h, FirstStep(r)) /\ UNCHANGED code
    BY DEF Receive
  <2>2. Refusal(r) # 0 => code'[h] \notin Successes
    BY <2>1, RefusalType DEF Decide, TypeOK, Successes
  <2>3. Refusal(r) = 0 => pc'[h] = FirstStep(r)
    BY <2>1 DEF Goto, TypeOK
  <2> QED BY <2>2, <2>3 DEF FirstStep
<1>2. ~StoreFault(h)
  BY FaultCodeType DEF StoreFault, Decide, TypeOK, Successes
<1>3. ~ListParent(h) /\ ~SpanNamespace(h)
  <2>1. ListParent(h) \/ SpanNamespace(h) =>
          req'[h] = req[h] /\ NeedsParent(req[h])
    BY AtStore DEF ListParent, SpanNamespace
  <2> QED BY <2>1 DEF NeedsParent
<1>4. ~ListVictim(h)
  <2>1. ListVictim(h) => req'[h] = req[h] /\ Operation(req[h]) = "destroy"
    BY AtStore DEF ListVictim
  <2> QED BY <2>1
<1>5. ~Insert(h) /\ ~ListContainer(h) /\ ~Cut(h)
  BY DEF Insert, ListContainer, Cut
<1>6. ~Audit(h) /\ ~Reply(h) /\ ~Crash(h)
  BY DEF Audit, Reply, Crash, Exit, Goto, TypeOK
<1>7. GetKey(h)
  BY <1>1, <1>2, <1>3, <1>4, <1>5, <1>6 DEF Proceed
<1> QED BY <1>7 DEF GetKey, Decide, TypeOK, Successes

LEMMA AuditStep ==
  ASSUME TypeOK, Control, ~CanCrash, RowsAreSpelled, AuditInv, NEW h \in Handlers,
         Receive(h) \/ Proceed(h) \/ Crash(h)
  PROVE  AuditInv'
<1> SUFFICES ASSUME NEW p \in Watched
             PROVE  /\ rows'[p] \in Values => Known(p)'
                    /\ <<"get", "allowed", p>> \in log' => Known(p)'
                    /\ \A g \in Handlers :
                         pc'[g] = "audit" /\ Operation(req'[g]) = "get"
                           /\ code'[g] \in Successes /\ req'[g].path = p => Known(p)'
  BY DEF AuditInv
<1>1. Known(p) => Known(p)'
  BY KnownStays
<1>2. p \in Paths
  BY HandlersAssumption
<1>3. ASSUME rows'[p] \in Values PROVE Known(p)'
  <2>1. CASE rows[p] \in Values
    BY <1>1, <2>1 DEF AuditInv
  <2>2. CASE rows[p] \notin Values
    <3>1. req[h] \in Requests /\ UNCHANGED req /\ InsertsRow(h)
      <4>1. ~LeavesRows(h)
        BY <1>3, <2>2 DEF LeavesRows
      <4>2. ~AddsRow(h) /\ ~RemovesRow(h)
        BY <1>2, <1>3, <2>2, ValuesAssumption DEF AddsRow, RemovesRow, TypeOK, Table
      <4> QED BY <4>1, <4>2, RowsStep
    <3>2. Operation(req[h]) = "set" /\ req[h].path = p
      BY <1>2, <1>3, <2>2, <3>1, ValuesAssumption DEF InsertsRow, TypeOK, Table
    <3>3. pc'[h] = "audit" /\ code'[h] = 201 /\ req'[h] = req[h]
      BY <3>1, <3>2 DEF InsertsRow
    <3> QED BY <3>2, <3>3 DEF Known, AuditPending
  <2> QED BY <2>1, <2>2
<1>4. ASSUME <<"get", "allowed", p>> \in log' PROVE Known(p)'
  <2>1. CASE <<"get", "allowed", p>> \in log
    BY <1>1, <2>1 DEF AuditInv
  <2>2. CASE <<"get", "allowed", p>> \notin log
    <3>1. Audit(h)
      BY <1>4, <2>2
      DEF Receive, Proceed, Crash, ListParent, SpanNamespace, Insert, GetKey,
          ListContainer, ListVictim, Cut, StoreFault, Reply, Exit
    <3>2. pc[h] = "audit" /\ Operation(req[h]) = "get" /\ Verdict(h) = "allowed"
          /\ Spelled(req[h].trail) = p
      BY <1>4, <2>2, <3>1 DEF Audit
    <3>3. code[h] \in Successes
      BY <3>2 DEF Verdict
    <3>4. req[h].path = p
      BY <3>1, <3>2, AuditedRow DEF Audit
    <3> QED BY <1>1, <3>2, <3>3, <3>4 DEF AuditInv
  <2> QED BY <2>1, <2>2
<1>5. ASSUME NEW g \in Handlers, pc'[g] = "audit", Operation(req'[g]) = "get",
             code'[g] \in Successes, req'[g].path = p
      PROVE  Known(p)'
  <2>1. CASE g # h
    <3>1. pc'[g] = pc[g] /\ req'[g] = req[g] /\ code'[g] = code[g]
      BY <2>1, OthersUntouched DEF Untouched
    <3>2. /\ pc[g] = "audit" /\ Operation(req[g]) = "get"
          /\ code[g] \in Successes /\ req[g].path = p
      BY <1>5, <3>1
    <3>3. Known(p)
      BY <3>2 DEF AuditInv
    <3> QED BY <1>1, <3>3
  <2>2. CASE g = h
    <3>1. GetKey(h) /\ code'[h] = 200 /\ req'[h] = req[h] /\ rows[req[h].path] \in Values
      BY <1>5, <2>2, ReadsValue
    <3>2. req[h].path = p
      BY <1>5, <2>2, <3>1
    <3>3. rows[p] \in Values
      BY <3>1, <3>2
    <3>4. Known(p)
      BY <3>3 DEF AuditInv
    <3> QED BY <1>1, <3>4
  <2> QED BY <2>1, <2>2
<1> QED BY <1>3, <1>4, <1>5

\* AuditComplete of Secrets: a secret that is there, or that the log says was
\* read, has the record of its PUT or its handler is about to write it.
THEOREM AuditKnows == Spec => []AuditComplete
<1>1. Init => AuditInv
  <2> SUFFICES ASSUME Init PROVE AuditInv
    OBVIOUS
  <2>1. Absent \notin Values
    BY ValuesAssumption
  <2>2. \A p \in Watched : rows[p] = Absent
    BY HandlersAssumption DEF Init, NoRows
  <2>3. log = {} /\ \A h \in Handlers : pc[h] = "idle"
    BY DEF Init
  <2>4. ASSUME NEW p \in Watched
        PROVE  rows[p] \notin Values /\ <<"get", "allowed", p>> \notin log
    BY <2>1, <2>2, <2>3
  <2>5. \A h \in Handlers : pc[h] # "audit"
    BY <2>3
  <2> QED BY <2>4, <2>5 DEF AuditInv
<1>2. TypeOK /\ Control /\ ~CanCrash /\ RowsAreSpelled /\ AuditInv /\ [Next]_vars => AuditInv'
  <2> SUFFICES ASSUME TypeOK, Control, ~CanCrash, RowsAreSpelled, AuditInv, [Next]_vars
               PROVE  AuditInv'
    OBVIOUS
  <2>1. CASE UNCHANGED vars
    <3>1. UNCHANGED <<rows, pc, req, code, log>>
      BY <2>1 DEF vars
    <3>2. \A p \in Watched : Known(p)' = Known(p)
      BY <3>1 DEF Known, AuditPending
    <3> QED BY <3>1, <3>2 DEF AuditInv
  <2> QED BY <2>1, AuditStep DEF Next
<1>3. AuditInv => AuditComplete
  BY DEF AuditInv, AuditComplete, Known
<1>4. CanCrash \/ ~RowsAreSpelled => AuditComplete
  BY DEF AuditComplete
<1>5. CASE ~CanCrash /\ RowsAreSpelled
  BY <1>1, <1>2, <1>3, <1>5, TypeCorrect, PTL DEF Spec
<1>6. CASE CanCrash \/ ~RowsAreSpelled
  BY <1>4, <1>6, PTL
<1> QED BY <1>5, <1>6
================================================================================
