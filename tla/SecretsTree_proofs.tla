--------------------------- MODULE SecretsTree_proofs --------------------------
(***************************************************************************)
(* Secrets implements its abstract trees: SecretTree while nothing is      *)
(* deleted, and SharedTree always.  Every handler step is one step of a    *)
(* client of the tree, or none.                                            *)
(***************************************************************************)
EXTENDS Secrets_proofs

\* The state of the client that a handler serves.
CallOf(h) == [req |-> req[h], code |-> code[h], out |-> out[h]]

Call == [h \in Handlers |-> CallOf(h)]

\* A step of h changes the call of h only.
LEMMA CallStep ==
  ASSUME TypeOK, Control, NEW h \in Handlers,
         Receive(h) \/ Proceed(h) \/ Crash(h)
  PROVE  Call' = [Call EXCEPT ![h] = CallOf(h)']
<1>1. \A g \in Handlers \ {h} : CallOf(g)' = CallOf(g)
  BY OthersUntouched DEF Untouched, CallOf
<1> QED BY <1>1 DEF Call

\* A store step that goes on is no step of the client.
LEMMA CallStutters ==
  ASSUME TypeOK, Control, NEW h \in Handlers,
         Receive(h) \/ Proceed(h) \/ Crash(h),
         req'[h] = req[h], code'[h] = code[h], out'[h] = out[h]
  PROVE  Call' = Call
<1>1. CallOf(h)' = CallOf(h)
  BY DEF CallOf
<1> QED BY <1>1, CallStep DEF Call

\* A handler at the store serves a pending call.
LEMMA CallPending ==
  ASSUME TypeOK, Control, NEW h \in Handlers,
         pc[h] \in {"parent", "namespace", "victim", "store"}
  PROVE  Tree!Pending(h) /\ Call[h].req = req[h] /\ out[h] = None
<1>1. req[h] \in Requests /\ code[h] = 0 /\ out[h] = None
  BY AtStore
<1>2. req[h] # None
  BY <1>1, ApiAssumption
<1> QED BY <1>1, <1>2 DEF Tree!Pending, Call, CallOf

(***************************************************************************)
(* The operators on requests and tables mean the same in both modules: the *)
(* instance replaces the variables only.                                   *)
(***************************************************************************)

LEMMA SameStore ==
  /\ \A p, q : Tree!Below(p, q) <=> Below(p, q)
  /\ \A p : Tree!Parent(p) = Parent(p)
  /\ \A t, p : Tree!Present(t, p) <=> Present(t, p)
  /\ \A t, p : Tree!IsNone(t, p) <=> IsNone(t, p)
  /\ \A t, p : Tree!Exists(t, p) <=> Exists(t, p)
  /\ \A t, p, v : Tree!Stored(t, p, v) = Stored(t, p, v)
  /\ \A t, p : Tree!Spanned(t, p) = Spanned(t, p)
  /\ Tree!NoRows = NoRows
  BY DEF Tree!Below, Below, Tree!Parent, Parent, Tree!Present, Present,
         Tree!IsNone, IsNone, Tree!Exists, Exists, Tree!Stored, Stored,
         Tree!Spanned, Spanned, Tree!NoRows, NoRows

LEMMA SameEntries == \A t, p : Tree!Entries(t, p) = Entries(t, p)
  BY DEF Tree!Entries, Entries, Tree!Below, Below, Tree!Present, Present,
         Tree!Falsy, Falsy

LEMMA SameOperation == \A r : Tree!Operation(r) = Operation(r)
  BY Zenon DEF Tree!Operation, Operation

LEMMA SameRequests ==
  /\ \A r : Tree!Refusal(r) = Refusal(r)
  /\ \A r : Tree!Target(r) = Target(r)
  /\ \A r : Tree!NeedsParent(r) <=> NeedsParent(r)
  /\ \A r : Tree!InOwnNamespace(r) <=> InOwnNamespace(r)
  /\ \A r : Tree!Container(r) = Container(r)
<1>1. \A r : Tree!Forbidden(r) <=> Forbidden(r)
  BY SameOperation DEF Tree!Forbidden, Forbidden, Tree!Audited, Audited
<1>2. \A t : Tree!Joined(t) = Joined(t)
  BY Zenon DEF Tree!Joined, Joined, Tree!Join, Join, Tree!Parts, Parts, Tree!Unslashed, Unslashed
<1>3. \A r : Tree!Container(r) = Container(r)
  BY <1>2, SameStore DEF Tree!Container, Container
<1> QED BY <1>1, <1>3, SameOperation, SameStore
        DEF Tree!Refusal, Refusal, Tree!Target, Target, Tree!NeedsParent,
            NeedsParent, Tree!InOwnNamespace, InOwnNamespace

LEMMA SameFaults == Tree!FaultCodes = FaultCodes
  BY DEF Tree!FaultCodes, FaultCodes, Tree!FaultCode, FaultCode

LEMMA ReceiveOpens ==
  ASSUME TypeOK, Control, NEW h \in Handlers, Receive(h)
  PROVE  Tree!Open(h)
<1>1. PICK r \in Requests :
        /\ req' = [req EXCEPT ![h] = r]
        /\ IF Refusal(r) # 0 THEN Decide(h, r, Refusal(r)) ELSE UNCHANGED code
  BY DEF Receive
<1>2. req[h] = None /\ code[h] = 0 /\ out[h] = None /\ UNCHANGED <<rows, out>>
  BY DEF Receive, Control, ControlOf
<1>3. CallOf(h)' = [req |-> r, code |-> Refusal(r), out |-> None]
  BY <1>1, <1>2 DEF CallOf, Decide, TypeOK
<1>4. Call' = [Call EXCEPT ![h] = [req |-> r, code |-> Refusal(r), out |-> None]]
  BY <1>3, CallStep
<1> QED BY <1>1, <1>2, <1>4, SameRequests DEF Tree!Open, Call, CallOf

LEMMA ExitCloses ==
  ASSUME TypeOK, Control, NEW h \in Handlers, Reply(h) \/ Crash(h)
  PROVE  Tree!Close(h)
<1>1. Exit(h) /\ req[h] # None
  <2>1. pc[h] # "idle"
    BY DEF Reply, Crash
  <2>2. req[h] \in Requests
    BY <2>1 DEF Control, ControlOf
  <2> QED BY <2>2, ApiAssumption DEF Reply, Crash
<1>2. CallOf(h)' = Tree!Idle
  BY <1>1 DEF Exit, CallOf, Tree!Idle, TypeOK
<1>3. Call' = [Call EXCEPT ![h] = Tree!Idle]
  BY <1>2, CallStep DEF Proceed
<1> QED BY <1>1, <1>3 DEF Tree!Close, Call, CallOf, Exit

\* The step by which Decide() ends an operation without output.
LEMMA DecideAnswers ==
  ASSUME TypeOK, Control, NEW h \in Handlers, Proceed(h), NEW STATE status,
         pc[h] \in {"parent", "namespace", "victim", "store"},
         Decide(h, req[h], status), UNCHANGED <<req, out>>
  PROVE  Tree!Answered(h, status, None)
<1>1. code'[h] = status /\ req'[h] = req[h] /\ out'[h] = None
  BY AtStore DEF Decide, TypeOK
<1>2. CallOf(h)' = [req |-> req[h], code |-> status, out |-> None]
  BY <1>1 DEF CallOf
<1>3. Call' = [Call EXCEPT ![h] = [req |-> Call[h].req, code |-> status, out |-> None]]
  BY <1>2, CallStep DEF Call, CallOf
<1> QED BY <1>3 DEF Tree!Answered, Call, CallOf

LEMMA ListParentStep ==
  ASSUME TypeOK, Control, NEW h \in Handlers, ListParent(h)
  PROVE  Tree!Set(h) \/ Tree!Create(h) \/ (UNCHANGED rows /\ Call' = Call)
<1>1. NeedsParent(req[h]) /\ Tree!Pending(h) /\ Call[h].req = req[h]
  BY AtStore, CallPending DEF ListParent
<1>2. CASE UNCHANGED code
  BY <1>2, CallStutters DEF ListParent, Proceed
<1>3. CASE /\ ~Exists(rows, Container(req[h])) /\ ~InOwnNamespace(req[h])
           /\ Decide(h, req[h], 404)
  <2>1. Tree!Answered(h, 404, None) /\ UNCHANGED rows
    BY <1>3, DecideAnswers DEF ListParent, Proceed
  <2>2. ~Tree!ContainerIsThere(req[h]) /\ ~Tree!MayAddNamespace(req[h])
    BY <1>1, <1>3, SameStore, SameRequests
    DEF Tree!ContainerIsThere, Tree!MayAddNamespace
  <2> QED BY <1>1, <2>1, <2>2, SameOperation DEF Tree!Set, Tree!Create, NeedsParent, Call
<1> QED BY <1>2, <1>3 DEF ListParent

LEMMA SpanNamespaceStep ==
  ASSUME TypeOK, Control, GrowingTree, NEW h \in Handlers, SpanNamespace(h)
  PROVE  Tree!AddNamespace(h) \/ Tree!Set(h) \/ Tree!Create(h)
<1> DEFINE p == <<req[h].default>>
<1>1. /\ NeedsParent(req[h]) /\ InOwnNamespace(req[h]) /\ p \in Paths
      /\ Tree!Pending(h) /\ Call[h].req = req[h]
  BY AtStore, CallPending DEF SpanNamespace
<1>2. CASE ~Conflicts(rows, p, FALSE)
  <2>1. ~Exists(rows, p)
    BY <1>1, <1>2, ExistsIsPresent DEF Conflicts, GrowingTree
  <2>2. rows' = Spanned(rows, p) /\ UNCHANGED <<req, code, out>>
    BY <1>2 DEF SpanNamespace
  <2>3. Call' = Call
    BY <2>2, CallStutters DEF Proceed
  <2> QED BY <1>1, <2>1, <2>2, <2>3, SameStore, SameRequests
          DEF Tree!AddNamespace, Tree!MayAddNamespace, Call
<1>3. CASE Conflicts(rows, p, FALSE)
  <2>1. Tree!Answered(h, ExistsCode(req[h]), None) /\ UNCHANGED rows
    BY <1>3, DecideAnswers DEF SpanNamespace, Conflicts, Proceed
  <2>2. Tree!NamespaceTaken(req[h])
    BY <1>1, <1>3, SameStore, SameRequests
    DEF Tree!NamespaceTaken, Tree!MayAddNamespace, Conflicts
  <2> QED BY <1>1, <2>1, <2>2, SameOperation
          DEF Tree!Set, Tree!Create, NeedsParent, ExistsCode, Call
<1> QED BY <1>2, <1>3

LEMMA InsertStep ==
  ASSUME TypeOK, Control, GrowingTree, NEW h \in Handlers, Insert(h)
  PROVE  Tree!Set(h) \/ Tree!Create(h)
<1>1. Tree!Pending(h) /\ Call[h].req = req[h]
  BY CallPending DEF Insert
<1>2. Tree!ContainerIsThere(req[h])
  BY SameStore, SameRequests
  DEF Insert, GrowingTree, ParentKnown, Tree!ContainerIsThere
<1>3. CASE ~Conflicts(rows, req[h].path, FALSE)
  <2>1. Tree!Answered(h, 201, None)
    BY <1>3, DecideAnswers DEF Insert, Conflicts, Proceed
  <2> QED BY <1>1, <1>2, <1>3, <2>1, SameStore, SameOperation
          DEF Insert, Conflicts, Tree!Set, Tree!Create, Call
<1>4. CASE Conflicts(rows, req[h].path, FALSE)
  <2>1. Tree!Answered(h, ExistsCode(req[h]), None) /\ UNCHANGED rows
    BY <1>4, DecideAnswers DEF Insert, Conflicts, Proceed
  <2> QED BY <1>1, <1>4, <2>1, SameStore, SameOperation
          DEF Insert, Conflicts, ExistsCode, Tree!Set, Tree!Create, Call
<1> QED BY <1>3, <1>4

\* The answer that carries an output.
LEMMA OutputAnswers ==
  ASSUME TypeOK, Control, NEW h \in Handlers, GetKey(h) \/ ListContainer(h),
         NEW STATE value, Decide(h, req[h], 200), Output(h, value)
  PROVE  Call' = [Call EXCEPT ![h] = [req |-> req[h], code |-> 200, out |-> value]]
<1>1. req'[h] = req[h] /\ code'[h] = 200 /\ out'[h] = value
  BY DEF GetKey, ListContainer, Decide, Output, TypeOK
<1>2. CallOf(h)' = [req |-> req[h], code |-> 200, out |-> value]
  BY <1>1 DEF CallOf
<1> QED BY <1>2, CallStep DEF Proceed

LEMMA GetKeyStep ==
  ASSUME TypeOK, Control, NEW h \in Handlers, GetKey(h)
  PROVE  Tree!Get(h)
<1>1. Tree!Pending(h) /\ Call[h].req = req[h] /\ UNCHANGED rows
      /\ Operation(req[h]) = "get"
  BY CallPending DEF GetKey
<1>2. ASSUME NEW status \in Codes, Decide(h, req[h], status), UNCHANGED out
      PROVE  Tree!Answered(h, status, None)
  BY <1>2, DecideAnswers DEF GetKey, Proceed
<1>3. CASE /\ Decide(h, req[h], 200) /\ Output(h, rows[req[h].path])
           /\ rows[req[h].path] \in Values
           /\ req[h].raw => rows[req[h].path] \in Base64
  <2>1. Call' = [Call EXCEPT ![h] =
                   [req |-> req[h], code |-> 200, out |-> rows[req[h].path]]]
    BY <1>3, OutputAnswers
  <2> QED BY <1>1, <1>3, <2>1, SameOperation DEF Tree!Get, Tree!Answered, Call, CallOf
<1>4. CASE \E status \in {404, 406, 500} :
             /\ Decide(h, req[h], status) /\ UNCHANGED out
             /\ status = 404 => IsNone(rows, req[h].path)
             /\ status = 406 => rows[req[h].path] = Empty
             /\ status = 500 => rows[req[h].path] \in Values \ Base64 /\ req[h].raw
  <2>1. \/ Tree!Answered(h, 404, None) /\ IsNone(rows, req[h].path)
        \/ Tree!Answered(h, 406, None) /\ rows[req[h].path] = Empty
        \/ /\ Tree!Answered(h, 500, None)
           /\ rows[req[h].path] \in Values \ Base64 /\ req[h].raw
    BY <1>2, <1>4 DEF Codes
  <2> QED BY <1>1, <2>1, SameStore, SameOperation DEF Tree!Get, Call
<1> QED BY <1>3, <1>4 DEF GetKey

LEMMA ListContainerStep ==
  ASSUME TypeOK, Control, NEW h \in Handlers, ListContainer(h)
  PROVE  Tree!List(h)
<1>1. Tree!Pending(h) /\ Call[h].req = req[h] /\ UNCHANGED rows
      /\ Operation(req[h]) = "list"
  BY CallPending DEF ListContainer
<1>2. CASE /\ Exists(rows, Target(req[h])) /\ Decide(h, req[h], 200)
           /\ Output(h, Entries(rows, Target(req[h])))
  <2>1. Call' = [Call EXCEPT ![h] =
                   [req |-> req[h], code |-> 200,
                    out |-> Entries(rows, Target(req[h]))]]
    BY <1>2, OutputAnswers
  <2>2. /\ Tree!Exists(rows, Tree!Target(req[h]))
        /\ Tree!Entries(rows, Tree!Target(req[h])) = Entries(rows, Target(req[h]))
    BY <1>2, SameStore, SameEntries, SameRequests
  <2>3. Tree!Operation(req[h]) = "list"
    BY <1>1, SameOperation
  <2>4. CallOf(h).req = req[h] /\ Call[h] = CallOf(h)
    BY DEF Call, CallOf
  <2> QED BY <1>1, <2>1, <2>2, <2>3, <2>4 DEF Tree!List, Tree!Answered, Call, CallOf
<1>3. CASE ~Exists(rows, Target(req[h])) /\ Decide(h, req[h], 404) /\ UNCHANGED out
  <2>1. Tree!Answered(h, 404, None)
    BY <1>3, DecideAnswers DEF ListContainer, Proceed
  <2> QED BY <1>1, <1>3, <2>1, SameStore, SameOperation, SameRequests
          DEF Tree!List, Call
<1> QED BY <1>2, <1>3 DEF ListContainer

LEMMA StoreFaultStep ==
  ASSUME TypeOK, Control, NEW h \in Handlers, StoreFault(h)
  PROVE  Tree!Fail(h)
<1>1. Tree!Pending(h) /\ UNCHANGED rows
  BY CallPending DEF StoreFault
<1>2. PICK f \in Faults : Decide(h, req[h], FaultCode[f])
  BY DEF StoreFault
<1>3. Tree!Answered(h, FaultCode[f], None)
  BY <1>2, DecideAnswers DEF StoreFault, Proceed
<1> QED BY <1>1, <1>2, <1>3, SameFaults DEF Tree!Fail, FaultCodes

\* Every step of a handler is a step of its client in the atomic tree or none:
\* no interleaving of the store calls of several children shows.
LEMMA HandlerStep ==
  ASSUME TypeOK, Control, GrowingTree, NoDeletes, NEW h \in Handlers,
         Receive(h) \/ Proceed(h) \/ Crash(h)
  PROVE  Tree!ClientStep(h) \/ (UNCHANGED rows /\ Call' = Call)
<1>1. CASE Audit(h)
  <2>1. UNCHANGED <<rows, req, code, out>>
    BY <1>1 DEF Audit
  <2> QED BY <2>1 DEF Call, CallOf
<1>2. ~ListVictim(h) /\ ~Cut(h)
  <2>1. ListVictim(h) \/ Cut(h) =>
          req[h] \in Requests /\ Operation(req[h]) \in {"del", "destroy"}
    BY AtStore DEF ListVictim, Cut
  <2> QED BY <2>1, OperationCommand DEF NoDeletes
<1> QED BY <1>1, <1>2, ReceiveOpens, ExitCloses, ListParentStep, SpanNamespaceStep,
           InsertStep, GetKeyStep, ListContainerStep, StoreFaultStep
        DEF Proceed, Tree!ClientStep

\* AtomicTree of Secrets: without deletions the children answer and store as if
\* each request were handled at one instant (secrets.py, its two-step
\* operations _int_set_key() and _create()).
THEOREM SecretsAreAtomic == ASSUME NoDeletes, NoSlashes PROVE Spec => AtomicTree
<1>1. Init => Tree!Init
  BY SameStore DEF Init, Tree!Init, Tree!Idle
<1>2. TypeOK /\ Control /\ GrowingTree /\ [Next]_vars => [Tree!Next]_(Tree!vars)
  <2> SUFFICES ASSUME TypeOK, Control, GrowingTree, [Next]_vars
               PROVE  [Tree!Next]_(Tree!vars)
    OBVIOUS
  <2>1. CASE UNCHANGED vars
    BY <2>1 DEF vars, Tree!vars
  <2>2. ASSUME NEW h \in Handlers, Receive(h) \/ Proceed(h) \/ Crash(h)
        PROVE  [Tree!Next]_(Tree!vars)
    <3>1. CASE Tree!ClientStep(h)
      BY <3>1 DEF Tree!Next
    <3>2. CASE UNCHANGED rows /\ Call' = Call
      BY <3>2 DEF Tree!vars, Call, CallOf
    <3> QED BY <2>2, <3>1, <3>2, HandlerStep
  <2> QED BY <2>1, <2>2 DEF Next
<1> QED BY <1>1, <1>2, TypeCorrect, TreeGrows, NoDeletes, NoSlashes, PTL
        DEF Spec, AtomicTree, Tree!Spec

--------------------------------------------------------------------------------
(***************************************************************************)
(* Secrets implements SharedTree whatever is deleted: every handler step   *)
(* is one step of a client of that tree, or none.                          *)
(***************************************************************************)

\* The handler knows what its store call relies on.
Notices(h) ==
  pc[h] = "store" /\ (NeedsParent(req[h]) \/ Operation(req[h]) = "destroy")

Noticed == {h \in Handlers : Notices(h)}

\* A step of h changes what h has noticed only.
LEMMA NoticedStep ==
  ASSUME TypeOK, Control, NEW h \in Handlers,
         Receive(h) \/ Proceed(h) \/ Crash(h)
  PROVE  /\ Notices(h)' => Noticed' = Noticed \cup {h}
         /\ ~Notices(h)' => Noticed' = Noticed \ {h}
<1>1. \A g \in Handlers \ {h} : Notices(g)' <=> Notices(g)
  BY OthersUntouched DEF Untouched, Notices
<1> QED BY <1>1 DEF Noticed

\* The instance's operators on requests and tables are those of Secrets.
LEMMA SharedStore ==
  /\ \A t, p : Shared!Present(t, p) <=> Present(t, p)
  /\ \A p : Shared!Parent(p) = Parent(p)
  /\ \A t, p : Shared!Exists(t, p) <=> Exists(t, p)
  /\ \A t, p, v : Shared!Stored(t, p, v) = Stored(t, p, v)
  /\ \A t, p : Shared!Spanned(t, p) = Spanned(t, p)
  /\ \A t, p : Shared!CutFrom(t, p) = CutFrom(t, p)
  /\ Shared!NoRows = NoRows
  BY DEF Shared!Below, Below, Shared!Present, Present, Shared!Parent, Parent,
         Shared!Exists, Exists, Shared!Stored, Stored, Shared!Spanned, Spanned,
         Shared!CutFrom, CutFrom, Shared!NoRows, NoRows

LEMMA SharedEntries == \A t, p : Shared!Entries(t, p) = Entries(t, p)
  BY DEF Shared!Entries, Entries, Shared!Below, Below, Shared!Present, Present,
         Shared!Falsy, Falsy

LEMMA SharedOperation == \A r : Shared!Operation(r) = Operation(r)
  BY Zenon DEF Shared!Operation, Operation

LEMMA SharedRequests ==
  /\ \A r : Shared!Refusal(r) = Refusal(r)
  /\ \A r : Shared!Target(r) = Target(r)
  /\ \A r : Shared!NeedsParent(r) <=> NeedsParent(r)
  /\ \A r : Shared!InOwnNamespace(r) <=> InOwnNamespace(r)
  /\ \A r : Shared!Container(r) = Container(r)
<1>1. \A r : Shared!Forbidden(r) <=> Forbidden(r)
  BY SharedOperation DEF Shared!Forbidden, Forbidden, Shared!Audited, Audited
<1>2. \A t : Shared!Joined(t) = Joined(t)
  BY Zenon DEF Shared!Joined, Joined, Shared!Join, Join, Shared!Parts, Parts, Shared!Unslashed, Unslashed
<1>3. \A r : Shared!Container(r) = Container(r)
  BY <1>2, SharedStore DEF Shared!Container, Container
<1> QED BY <1>1, <1>3, SharedOperation, SharedStore
        DEF Shared!Refusal, Refusal, Shared!Target, Target, Shared!NeedsParent,
            NeedsParent, Shared!InOwnNamespace, InOwnNamespace

LEMMA SharedFaults == Shared!FaultCodes = FaultCodes
  BY DEF Shared!FaultCodes, FaultCodes, Shared!FaultCode, FaultCode

\* Both trees have the same calls.
LEMMA SharedPending ==
  ASSUME TypeOK, Control, NEW h \in Handlers,
         pc[h] \in {"parent", "namespace", "victim", "store"}
  PROVE  Shared!Pending(h) /\ Call[h].req = req[h]
  BY CallPending DEF Tree!Pending, Shared!Pending, Call, CallOf

LEMMA SharedDone ==
  ASSUME TypeOK, Control, NEW h \in Handlers,
         Receive(h) \/ Proceed(h) \/ Crash(h), ~Notices(h)'
  PROVE  Shared!Done(h)
  BY NoticedStep DEF Shared!Done, Noticed, Notices

\* The step by which Decide() ends an operation that had something to notice.
LEMMA DecidedDone ==
  ASSUME TypeOK, Control, NEW h \in Handlers, Proceed(h), NEW STATE status,
         pc[h] \in {"parent", "namespace", "victim", "store"},
         Decide(h, req[h], status), UNCHANGED <<req, out>>
  PROVE  Shared!Answered(h, status, None) /\ Shared!Done(h)
<1>1. pc'[h] # "store"
  BY DEF Decide, Goto, TypeOK
<1>2. Shared!Done(h)
  BY <1>1, SharedDone DEF Notices
<1>3. Shared!Answered(h, status, None)
  <2>1. Tree!Answered(h, status, None)
    BY DecideAnswers
  <2> QED BY <2>1 DEF Tree!Answered, Shared!Answered
<1> QED BY <1>2, <1>3

LEMMA NoStep ==
  ASSUME TypeOK, Control, NEW h \in Handlers,
         Receive(h) \/ Proceed(h) \/ Crash(h),
         UNCHANGED <<rows, req, code, out>>, ~Notices(h), ~Notices(h)'
  PROVE  UNCHANGED rows /\ Call' = Call /\ Noticed' = Noticed
  BY NoticedStep, CallStutters DEF Noticed

--------------------------------------------------------------------------------
LEMMA SharedReceive ==
  ASSUME TypeOK, Control, NEW h \in Handlers, Receive(h)
  PROVE  Shared!SharedStep(h)
<1>1. Tree!Open(h)
  BY ReceiveOpens
<1>2. Shared!Open(h)
  BY <1>1, SameRequests, SharedRequests DEF Tree!Open, Shared!Open
<1>3. PICK r \in Requests :
        /\ req' = [req EXCEPT ![h] = r]
        /\ IF Refusal(r) # 0
           THEN Decide(h, r, Refusal(r))
           ELSE Goto(h, FirstStep(r)) /\ UNCHANGED code
  BY DEF Receive
<1>4. ~Notices(h)'
  <2>1. req'[h] = r /\ pc'[h] \in {"audit", "reply", FirstStep(r)}
    BY <1>3 DEF Decide, Goto, TypeOK
  <2> QED BY <2>1 DEF Notices, FirstStep
<1> QED BY <1>2, <1>4, SharedDone DEF Shared!SharedStep

LEMMA SharedExit ==
  ASSUME TypeOK, Control, NEW h \in Handlers, Reply(h) \/ Crash(h)
  PROVE  Shared!SharedStep(h)
<1>1. Shared!Close(h)
  BY ExitCloses DEF Tree!Close, Shared!Close, Tree!Idle, Shared!Idle
<1>2. ~Notices(h)'
  BY DEF Reply, Crash, Exit, Notices, TypeOK
<1> QED BY <1>1, <1>2, SharedDone DEF Shared!SharedStep, Proceed

LEMMA SharedListParent ==
  ASSUME TypeOK, Control, NEW h \in Handlers, ListParent(h)
  PROVE  Shared!SharedStep(h) \/ (UNCHANGED rows /\ Call' = Call /\ Noticed' = Noticed)
<1>1. /\ NeedsParent(req[h]) /\ Shared!Pending(h) /\ Call[h].req = req[h]
      /\ ~Notices(h) /\ Operation(req[h]) \in {"set", "create"}
  BY AtStore, SharedPending DEF ListParent, Notices, NeedsParent
<1>2. CASE Exists(rows, Container(req[h])) /\ Goto(h, "store") /\ UNCHANGED code
  <2>1. UNCHANGED <<rows, req, code, out>> /\ Notices(h)'
    BY <1>1, <1>2 DEF ListParent, Goto, TypeOK, Notices
  <2>2. Call' = Call /\ Noticed' = Noticed \cup {h} /\ h \notin Noticed
    BY <1>1, <2>1, CallStutters, NoticedStep DEF Proceed, Noticed
  <2>3. Shared!Suits(req[h])
    BY <1>1, <1>2, SharedStore, SharedRequests DEF Shared!Suits
  <2>4. Shared!Notice(h)
    BY <1>1, <2>1, <2>2, <2>3 DEF Shared!Notice, Shared!vars, Call, CallOf, Noticed, Notices
  <2> QED BY <2>4 DEF Shared!SharedStep
<1>3. CASE Goto(h, "namespace") /\ UNCHANGED code
  <2>1. UNCHANGED <<rows, req, code, out>> /\ ~Notices(h)'
    BY <1>3 DEF ListParent, Goto, TypeOK, Notices
  <2> QED BY <1>1, <2>1, NoStep DEF Proceed
<1>4. CASE /\ ~Exists(rows, Container(req[h])) /\ ~InOwnNamespace(req[h])
           /\ Decide(h, req[h], 404)
  <2>1. Shared!Answered(h, 404, None) /\ Shared!Done(h) /\ UNCHANGED rows
    BY <1>4, DecidedDone DEF ListParent, Proceed
  <2>2. ~Shared!ContainerIsThere(req[h]) /\ ~Shared!MayAddNamespace(req[h])
    BY <1>1, <1>4, SharedStore, SharedRequests
    DEF Shared!ContainerIsThere, Shared!MayAddNamespace
  <2>3. ~Shared!Found(h)
    BY <1>1, SharedRequests DEF Shared!Found, Noticed, Notices, Call
  <2>4. Shared!SharedAdd(h)
    BY <1>1, <2>1, <2>2, <2>3, SharedOperation DEF Shared!SharedAdd, Call
  <2> QED BY <2>4 DEF Shared!SharedStep
<1> QED BY <1>2, <1>3, <1>4 DEF ListParent

LEMMA SharedSpan ==
  ASSUME TypeOK, Control, NEW h \in Handlers, SpanNamespace(h)
  PROVE  Shared!SharedStep(h)
<1> DEFINE p == <<req[h].default>>
<1>1. /\ NeedsParent(req[h]) /\ InOwnNamespace(req[h])
      /\ Shared!Pending(h) /\ Call[h].req = req[h]
      /\ ~Notices(h) /\ Operation(req[h]) \in {"set", "create"}
  BY AtStore, SharedPending DEF SpanNamespace, Notices, NeedsParent
<1>2. Shared!MayAddNamespace(req[h])
  BY <1>1, SharedRequests DEF Shared!MayAddNamespace
<1>3. CASE ~Conflicts(rows, p, FALSE)
  <2>1. /\ rows' = Spanned(rows, p) /\ UNCHANGED <<req, code, out>>
        /\ Goto(h, "store")
    BY <1>3 DEF SpanNamespace
  <2>2. Notices(h)'
    BY <1>1, <2>1 DEF Goto, TypeOK, Notices
  <2>3. Call' = Call /\ Noticed' = Noticed \cup {h} /\ h \notin Noticed
    BY <1>1, <2>1, <2>2, CallStutters, NoticedStep DEF Proceed, Noticed
  <2>4. Shared!AddAndNotice(h)
    BY <1>1, <1>2, <1>3, <2>1, <2>3, SharedStore
    DEF Shared!AddAndNotice, Conflicts, Call, Noticed, Notices
  <2> QED BY <2>4 DEF Shared!SharedStep
<1>4. CASE Conflicts(rows, p, FALSE)
  <2>1. /\ Shared!Answered(h, ExistsCode(req[h]), None) /\ Shared!Done(h)
        /\ UNCHANGED rows
    BY <1>4, DecidedDone DEF SpanNamespace, Conflicts, Proceed
  <2>2. Shared!NamespaceTaken(req[h]) /\ ~Shared!Found(h)
    BY <1>1, <1>2, <1>4, SharedStore, SharedRequests
    DEF Shared!NamespaceTaken, Shared!Found, Conflicts, Noticed, Notices, Call
  <2>3. Shared!SharedAdd(h)
    BY <1>1, <2>1, <2>2, SharedOperation DEF Shared!SharedAdd, ExistsCode, Call
  <2> QED BY <2>3 DEF Shared!SharedStep
<1> QED BY <1>3, <1>4

LEMMA SharedInsert ==
  ASSUME TypeOK, Control, NEW h \in Handlers, Insert(h)
  PROVE  Shared!SharedStep(h)
<1>1. /\ Shared!Pending(h) /\ Call[h].req = req[h]
      /\ Operation(req[h]) \in {"set", "create"} /\ pc[h] = "store"
  BY SharedPending DEF Insert
<1>2. Shared!Found(h)
  BY <1>1, SharedRequests DEF Shared!Found, Noticed, Notices, Call
<1>3. CASE ~Conflicts(rows, req[h].path, FALSE)
  <2>1. Shared!Answered(h, 201, None) /\ Shared!Done(h)
    BY <1>3, DecidedDone DEF Insert, Conflicts, Proceed
  <2>2. Shared!SharedAdd(h)
    BY <1>1, <1>2, <1>3, <2>1, SharedStore, SharedOperation
    DEF Insert, Conflicts, Shared!SharedAdd, Call
  <2> QED BY <2>2 DEF Shared!SharedStep
<1>4. CASE Conflicts(rows, req[h].path, FALSE)
  <2>1. /\ Shared!Answered(h, ExistsCode(req[h]), None) /\ Shared!Done(h)
        /\ UNCHANGED rows
    BY <1>4, DecidedDone DEF Insert, Conflicts, Proceed
  <2>2. Shared!SharedAdd(h)
    BY <1>1, <1>2, <1>4, <2>1, SharedStore, SharedOperation
    DEF Conflicts, ExistsCode, Shared!SharedAdd, Call
  <2> QED BY <2>2 DEF Shared!SharedStep
<1> QED BY <1>3, <1>4

LEMMA SharedReads ==
  ASSUME TypeOK, Control, NEW h \in Handlers, GetKey(h) \/ ListContainer(h)
  PROVE  Shared!SharedStep(h)
<1>1. Shared!Get(h) \/ Shared!List(h)
  <2>1. Tree!Get(h) => Shared!Get(h)
    BY SharedOperation, SameOperation
    DEF Tree!Get, Shared!Get, Tree!Pending, Shared!Pending, Tree!Answered,
        Shared!Answered, Tree!IsNone, Shared!IsNone
  <2>2. Tree!List(h) => Shared!List(h)
    <3> DEFINE r == Call[h].req
               listed == Tree!Entries(rows, Tree!Target(r))
    <3>1. /\ Tree!Exists(rows, Tree!Target(r)) <=> Shared!Exists(rows, Shared!Target(r))
          /\ listed = Shared!Entries(rows, Shared!Target(r))
      <4>1. Tree!Target(r) = Target(r) /\ Shared!Target(r) = Target(r)
        BY SameRequests, SharedRequests
      <4> QED BY <4>1, SameStore, SharedStore, SameEntries, SharedEntries
    <3>2. Tree!Operation(r) = Shared!Operation(r)
      BY SameOperation, SharedOperation
    <3> SUFFICES ASSUME Tree!List(h) PROVE Shared!List(h)
      OBVIOUS
    <3>3. /\ Tree!Pending(h) /\ Tree!Operation(r) = "list" /\ UNCHANGED rows
          /\ \/ Tree!Exists(rows, Tree!Target(r)) /\ Tree!Answered(h, 200, listed)
             \/ ~Tree!Exists(rows, Tree!Target(r)) /\ Tree!Answered(h, 404, None)
      BY DEF Tree!List, Call, CallOf
    <3>4. Shared!Pending(h)
      BY <3>3 DEF Tree!Pending, Shared!Pending
    <3> HIDE DEF listed, r
    <3>5. CASE Tree!Exists(rows, Tree!Target(r)) /\ Tree!Answered(h, 200, listed)
      <4>1. Shared!Answered(h, 200, listed)
        BY <3>5 DEF Tree!Answered, Shared!Answered
      <4>2. Shared!Answered(h, 200, Shared!Entries(rows, Shared!Target(r)))
        BY <3>1, <4>1 DEF Shared!Answered
      <4> QED BY <3>1, <3>2, <3>3, <3>4, <3>5, <4>2 DEF Shared!List, Call, CallOf, r
    <3>6. CASE ~Tree!Exists(rows, Tree!Target(r)) /\ Tree!Answered(h, 404, None)
      <4>1. Shared!Answered(h, 404, None)
        BY <3>6 DEF Tree!Answered, Shared!Answered
      <4> QED BY <3>1, <3>2, <3>3, <3>4, <3>6, <4>1 DEF Shared!List, Call, CallOf, r
    <3> QED BY <3>3, <3>5, <3>6
  <2> QED BY <2>1, <2>2, GetKeyStep, ListContainerStep
<1>2. ~Notices(h)'
  BY DEF GetKey, ListContainer, Decide, Goto, TypeOK, Notices
<1> QED BY <1>1, <1>2, SharedDone DEF Shared!SharedStep, Proceed

LEMMA SharedFail ==
  ASSUME TypeOK, Control, NEW h \in Handlers, StoreFault(h)
  PROVE  Shared!SharedStep(h)
<1>1. Shared!Pending(h) /\ UNCHANGED rows
  BY SharedPending DEF StoreFault
<1>2. PICK f \in Faults : Decide(h, req[h], FaultCode[f])
  BY DEF StoreFault
<1>3. Shared!Answered(h, FaultCode[f], None) /\ Shared!Done(h)
  BY <1>2, DecidedDone DEF StoreFault, Proceed
<1>4. Shared!Fail(h)
  BY <1>1, <1>3, SharedFaults DEF Shared!Fail, FaultCodes
<1> QED BY <1>3, <1>4 DEF Shared!SharedStep

LEMMA SharedListVictim ==
  ASSUME TypeOK, Control, NEW h \in Handlers, ListVictim(h)
  PROVE  Shared!SharedStep(h)
<1>1. /\ Shared!Pending(h) /\ Call[h].req = req[h] /\ UNCHANGED rows
      /\ Operation(req[h]) = "destroy" /\ ~Notices(h)
  BY AtStore, SharedPending DEF ListVictim, Notices
<1>2. h \notin Noticed
  BY <1>1 DEF Noticed
<1>3. CASE ~Exists(rows, req[h].path) /\ Decide(h, req[h], 404)
  <2>1. Shared!Answered(h, 404, None) /\ Shared!Done(h)
    BY <1>3, DecidedDone DEF ListVictim, Proceed
  <2>2. Shared!SharedRemove(h)
    BY <1>1, <1>2, <1>3, <2>1, SharedStore, SharedOperation
    DEF Shared!SharedRemove, Call, Noticed, Notices
  <2> QED BY <2>2 DEF Shared!SharedStep
<1>4. CASE Entries(rows, req[h].path) # {} /\ Decide(h, req[h], 409)
  <2>1. Shared!Answered(h, 409, None) /\ Shared!Done(h)
    BY <1>4, DecidedDone DEF ListVictim, Proceed
  <2>2. Shared!SharedRemove(h)
    BY <1>1, <1>2, <1>4, <2>1, SharedEntries, SharedOperation
    DEF Shared!SharedRemove, Call, Noticed, Notices
  <2> QED BY <2>2 DEF Shared!SharedStep
<1>5. CASE /\ Exists(rows, req[h].path) /\ Entries(rows, req[h].path) = {}
           /\ Goto(h, "store") /\ UNCHANGED code
  <2>1. UNCHANGED <<rows, req, code, out>> /\ Notices(h)'
    BY <1>1, <1>5 DEF ListVictim, Goto, TypeOK, Notices
  <2>2. Call' = Call /\ Noticed' = Noticed \cup {h}
    BY <2>1, CallStutters, NoticedStep DEF Proceed
  <2>3. Shared!Suits(req[h])
    BY <1>1, <1>5, SharedStore, SharedEntries, SharedOperation DEF Shared!Suits
  <2>4. Shared!Notice(h)
    BY <1>1, <1>2, <2>1, <2>2, <2>3
    DEF Shared!Notice, Shared!vars, Call, CallOf, Noticed, Notices
  <2> QED BY <2>4 DEF Shared!SharedStep
<1> QED BY <1>3, <1>4, <1>5 DEF ListVictim

LEMMA SharedCut ==
  ASSUME TypeOK, Control, NEW h \in Handlers, Cut(h)
  PROVE  Shared!SharedStep(h)
<1> DEFINE status == IF Present(rows, req[h].path) THEN 204 ELSE 404
<1>1. /\ Shared!Pending(h) /\ Call[h].req = req[h] /\ pc[h] = "store"
      /\ Operation(req[h]) \in {"del", "destroy"}
  BY SharedPending DEF Cut
<1>2. rows' = CutFrom(rows, req[h].path)
  BY DEF Cut
<1>3. Shared!Answered(h, status, None) /\ Shared!Done(h)
  BY DecidedDone DEF Cut, Proceed
<1>4. rows' = rows \/ Present(rows, req[h].path)
  <2>1. req[h].path \in Paths
    BY <1>1, AtStore
  <2> QED BY <1>2, <2>1 DEF CutFrom, Present, TypeOK, Table
<1>5. CASE Operation(req[h]) = "destroy"
  <2>1. h \in Noticed
    BY <1>1, <1>5 DEF Noticed, Notices
  <2>2. Shared!SharedRemove(h)
    BY <1>1, <1>2, <1>3, <1>4, <1>5, <2>1, SharedStore, SharedOperation
    DEF Shared!SharedRemove, Call, Noticed, Notices
  <2> QED BY <2>2 DEF Shared!SharedStep
<1>6. CASE Operation(req[h]) = "del"
  <2>1. Shared!Delete(h)
    BY <1>1, <1>2, <1>3, <1>4, <1>6, SharedStore, SharedOperation DEF Shared!Delete, Call
  <2>2. Shared!SharedDel(h)
    BY <1>1, <1>6, <2>1, SharedOperation DEF Shared!SharedDel, Call
  <2> QED BY <1>3, <2>2 DEF Shared!SharedStep
<1> QED BY <1>1, <1>5, <1>6

LEMMA SharedHandlerStep ==
  ASSUME TypeOK, Control, NEW h \in Handlers,
         Receive(h) \/ Proceed(h) \/ Crash(h)
  PROVE  Shared!SharedStep(h) \/ (UNCHANGED rows /\ Call' = Call /\ Noticed' = Noticed)
<1>1. CASE Audit(h)
  <2>1. UNCHANGED <<rows, req, code, out>> /\ ~Notices(h) /\ ~Notices(h)'
    BY <1>1 DEF Audit, Goto, TypeOK, Notices
  <2> QED BY <2>1, NoStep
<1> QED BY <1>1, SharedReceive, SharedExit, SharedListParent, SharedSpan, SharedInsert,
           SharedReads, SharedFail, SharedListVictim, SharedCut
        DEF Proceed

\* AtomicAfterCheck of Secrets: with deletions too the children answer and
\* store as if each request were handled at one instant, but for the listing
\* of _parent_exists() or _destroy() (secrets.py) that precedes it.
THEOREM SecretsAreShared == Spec => AtomicAfterCheck
<1>1. Init => Shared!SharedInit
  BY SharedStore DEF Init, Shared!SharedInit, Shared!Init, Shared!Idle
<1>2. TypeOK /\ Control /\ [Next]_vars => [Shared!SharedNext]_(Shared!sharedVars)
  <2> SUFFICES ASSUME TypeOK, Control, [Next]_vars
               PROVE  [Shared!SharedNext]_(Shared!sharedVars)
    OBVIOUS
  <2>1. CASE UNCHANGED vars
    BY <2>1 DEF vars, Shared!sharedVars, Shared!vars
  <2>2. ASSUME NEW h \in Handlers, Receive(h) \/ Proceed(h) \/ Crash(h)
        PROVE  [Shared!SharedNext]_(Shared!sharedVars)
    <3>1. CASE Shared!SharedStep(h)
      BY <3>1 DEF Shared!SharedNext
    <3>2. CASE UNCHANGED rows /\ Call' = Call /\ Noticed' = Noticed
      BY <3>2 DEF Shared!sharedVars, Shared!vars, Call, CallOf, Noticed, Notices
    <3> QED BY <2>2, <3>1, <3>2, SharedHandlerStep
  <2> QED BY <2>1, <2>2 DEF Next
<1> QED BY <1>1, <1>2, TypeCorrect, PTL
        DEF Spec, AtomicAfterCheck, Shared!SharedSpec
================================================================================
