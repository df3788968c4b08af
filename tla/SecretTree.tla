------------------------------ MODULE SecretTree -------------------------------
(***************************************************************************)
(* What the secrets API promises: one tree of containers and secrets that  *)
(* every client operates on atomically.  A call is opened, takes effect    *)
(* and is answered in ONE step, on the tree as it is in that step, and is  *)
(* closed.  The only other change of the tree is the creation of the       *)
(* caller's own default namespace on the way to an operation in it.        *)
(***************************************************************************)
EXTENDS SecretsApi

CONSTANT Clients

VARIABLES
  tree,    \* the rows
  call     \* what each client has asked, and the answer it got

vars == <<tree, call>>

Idle == [req |-> None, code |-> 0, out |-> None]

Init == /\ tree = NoRows
        /\ call = [c \in Clients |-> Idle]

\* A request that can be refused without looking at the tree is.
Open(c) ==
  /\ call[c].req = None
  /\ \E r \in Requests :
       call' = [call EXCEPT ![c] = [req |-> r, code |-> Refusal(r), out |-> None]]
  /\ UNCHANGED tree

Pending(c) == call[c].req # None /\ call[c].code = 0

Answered(c, code, out) ==
  call' = [call EXCEPT ![c] = [req |-> call[c].req, code |-> code, out |-> out]]

\* The operation goes into the caller's own namespace.
MayAddNamespace(r) == NeedsParent(r) /\ InOwnNamespace(r)

AddNamespace(c) ==
  LET r == call[c].req IN
  /\ Pending(c)
  /\ MayAddNamespace(r)
  /\ ~Exists(tree, <<r.default>>)
  /\ tree' = Spanned(tree, <<r.default>>)
  /\ UNCHANGED call

ContainerIsThere(r) == NeedsParent(r) => Exists(tree, Container(r))

\* Another call created the namespace that this one was about to create.
NamespaceTaken(r) == MayAddNamespace(r) /\ Present(tree, <<r.default>>)

--------------------------------------------------------------------------------
Get(c) ==
  LET r == call[c].req IN
  /\ Pending(c) /\ Operation(r) = "get"
  /\ UNCHANGED tree
  /\ \/ IsNone(tree, r.path) /\ Answered(c, 404, None)
     \/ tree[r.path] = Empty /\ Answered(c, 406, None)
     \/ /\ tree[r.path] \in Values
        /\ r.raw => tree[r.path] \in Base64
        /\ Answered(c, 200, tree[r.path])
     \/ /\ tree[r.path] \in Values \ Base64
        /\ r.raw
        /\ Answered(c, 500, None)

List(c) ==
  LET r == call[c].req IN
  /\ Pending(c) /\ Operation(r) = "list"
  /\ UNCHANGED tree
  /\ \/ Exists(tree, Target(r)) /\ Answered(c, 200, Entries(tree, Target(r)))
     \/ ~Exists(tree, Target(r)) /\ Answered(c, 404, None)

Set(c) ==
  LET r == call[c].req IN
  /\ Pending(c) /\ Operation(r) = "set"
  /\ \/ /\ ContainerIsThere(r)
        /\ ~Present(tree, r.path)
        /\ tree' = Stored(tree, r.path, r.payload)
        /\ Answered(c, 201, None)
     \/ /\ Present(tree, r.path) \/ NamespaceTaken(r)
        /\ Answered(c, 409, None)
        /\ UNCHANGED tree
     \/ /\ ~ContainerIsThere(r) /\ ~MayAddNamespace(r)
        /\ Answered(c, 404, None)
        /\ UNCHANGED tree

Create(c) ==
  LET r == call[c].req IN
  /\ Pending(c) /\ Operation(r) = "create"
  /\ \/ /\ ContainerIsThere(r)
        /\ ~Present(tree, r.path)
        /\ tree' = Spanned(tree, r.path)
        /\ Answered(c, 201, None)
     \/ /\ Present(tree, r.path) \/ NamespaceTaken(r)
        /\ Answered(c, 200, None)
        /\ UNCHANGED tree
     \/ /\ ~ContainerIsThere(r) /\ ~MayAddNamespace(r)
        /\ Answered(c, 404, None)
        /\ UNCHANGED tree

Delete(c) ==
  LET r == call[c].req IN
  /\ Pending(c) /\ Operation(r) \in {"del", "destroy"}
  /\ \/ /\ Present(tree, r.path)
        /\ Operation(r) = "destroy" => Entries(tree, r.path) = {}
        /\ tree' = CutFrom(tree, r.path)
        /\ Answered(c, 204, None)
     \/ /\ ~Present(tree, r.path)
        /\ Answered(c, 404, None)
        /\ UNCHANGED tree
     \/ /\ Operation(r) = "destroy" /\ Entries(tree, r.path) # {}
        /\ Answered(c, 409, None)
        /\ UNCHANGED tree

\* The store may fail instead: then nothing has happened.
Fail(c) ==
  /\ Pending(c)
  /\ \E code \in FaultCodes : Answered(c, code, None)
  /\ UNCHANGED tree

\* The answer is delivered, or the process serving the call is gone.
Close(c) ==
  /\ call[c].req # None
  /\ call' = [call EXCEPT ![c] = Idle]
  /\ UNCHANGED tree

ClientStep(c) ==
  \/ Open(c) \/ AddNamespace(c) \/ Get(c) \/ List(c) \/ Set(c) \/ Create(c)
  \/ Delete(c) \/ Fail(c) \/ Close(c)

Next == \E c \in Clients : ClientStep(c)

Spec == Init /\ [][Next]_vars
================================================================================
