------------------------------ MODULE SharedTree -------------------------------
(***************************************************************************)
(* What the secrets API still promises when containers are deleted while   *)
(* it is used: as in SecretTree a call takes effect and is answered in one *)
(* step, on the tree as it is in that step, but for one thing.  That the   *)
(* container a call works in is there, or that the one it is to remove is  *)
(* empty, need only have been so at a moment of that call.                 *)
(***************************************************************************)
EXTENDS SecretTree

VARIABLE noticed   \* the calls that have found their container to be so

sharedVars == <<vars, noticed>>

SharedInit == Init /\ noticed = {}

\* A container that is wanted there, and one that is wanted empty.
Suits(r) ==
  \/ NeedsParent(r) /\ Exists(tree, Container(r))
  \/ Operation(r) = "destroy" /\ Exists(tree, r.path) /\ Entries(tree, r.path) = {}

Notice(c) ==
  /\ Pending(c) /\ c \notin noticed
  /\ Suits(call[c].req)
  /\ noticed' = noticed \cup {c}
  /\ UNCHANGED vars

AddAndNotice(c) ==
  LET r == call[c].req IN
  /\ Pending(c) /\ c \notin noticed
  /\ MayAddNamespace(r)
  /\ ~Present(tree, <<r.default>>)
  /\ tree' = Spanned(tree, <<r.default>>)
  /\ noticed' = noticed \cup {c}
  /\ UNCHANGED call

Done(c) == noticed' = noticed \ {c}

\* A container below / needs no other.
Found(c) == c \in noticed \/ ~NeedsParent(call[c].req)

\* PUT and POST.
SharedAdd(c) ==
  LET r == call[c].req IN
  /\ Pending(c) /\ Operation(r) \in {"set", "create"}
  /\ Done(c)
  /\ \/ /\ Found(c)
        /\ ~Present(tree, r.path)
        /\ tree' = IF Operation(r) = "set" THEN Stored(tree, r.path, r.payload)
                                           ELSE Spanned(tree, r.path)
        /\ Answered(c, 201, None)
     \/ /\ IF Found(c) THEN Present(tree, r.path) ELSE NamespaceTaken(r)
        /\ Answered(c, IF Operation(r) = "set" THEN 409 ELSE 200, None)
        /\ UNCHANGED tree
     \/ /\ ~Found(c) /\ ~ContainerIsThere(r) /\ ~MayAddNamespace(r)
        /\ Answered(c, 404, None)
        /\ UNCHANGED tree

\* DELETE of a container.
SharedRemove(c) ==
  LET r == call[c].req IN
  /\ Pending(c) /\ Operation(r) = "destroy"
  /\ Done(c)
  /\ \/ /\ c \in noticed /\ Present(tree, r.path)
        /\ tree' = CutFrom(tree, r.path)
        /\ Answered(c, 204, None)
     \/ /\ IF c \in noticed THEN ~Present(tree, r.path) ELSE ~Exists(tree, r.path)
        /\ Answered(c, 404, None)
        /\ UNCHANGED tree
     \/ /\ c \notin noticed /\ Entries(tree, r.path) # {}
        /\ Answered(c, 409, None)
        /\ UNCHANGED tree

\* DELETE of a secret.
SharedDel(c) == Pending(c) /\ Operation(call[c].req) = "del" /\ Delete(c)

SharedStep(c) ==
  \/ Notice(c) \/ AddAndNotice(c) \/ SharedAdd(c) \/ SharedRemove(c)
  \/ /\ Open(c) \/ Get(c) \/ List(c) \/ SharedDel(c) \/ Fail(c) \/ Close(c)
     /\ Done(c)

SharedNext == \E c \in Clients : SharedStep(c)

SharedSpec == SharedInit /\ [][SharedNext]_sharedVars
================================================================================
