---------------------------- MODULE IpaStores_proofs ----------------------------
(***************************************************************************)
(* Proofs about IpaStores, for any number of children, keys, hosts and     *)
(* certificates, and any names of vaults that IpaAssumption allows.        *)
(***************************************************************************)
EXTENDS IpaStores, Functions, FiniteSetTheorems, TLAPS

--------------------------------------------------------------------------------
(***************************************************************************)
(* Types, and what the place of a call says about it.                      *)
(***************************************************************************)

\* Of a call c, when the scenario and the issued certificates are s and i.
PlaceOK(c, s, i) ==
  /\ c.op \in s.operations
  /\ c.at # "done" => c.key \in Keys \cup Hosts
  /\ c.at \in {"request", "find", "revoke"} => c.key \in Hosts
  /\ c.at \in {"retrieve", "request"} => c.op = "get"
  /\ c.at \in {"add", "archive"} =>
       /\ c.value \in Data
       /\ c.op = "set" \/ (c.op = "get" /\ c.key \in Hosts)
  /\ c.at \in {"find", "revoke", "delete"} => c.op = "cut"
  /\ c.at = "revoke" => \A n \in c.todo : i[n] # None

Control == \A h \in Handlers : call[h] # None => PlaceOK(call[h], scenario, issued)

\* A step of child h may change its own call only.
Alone(h) == \A g \in Handlers \ {h} : call'[g] = call[g]

\* A call goes on with its next remote call, or gets its result.
LEMMA GoesTo ==
  ASSUME TypeOK, NEW h \in Handlers, call[h] # None, NEW step \in Steps, Goto(h, step)
  PROVE  /\ call' \in [Handlers -> Calls \cup {None}] /\ Alone(h)
         /\ call'[h] = [call[h] EXCEPT !.at = step] /\ call[h] \in Calls
<1>1. call[h] \in Calls
  BY DEF TypeOK
<1>2. [call[h] EXCEPT !.at = step] \in Calls
  BY <1>1 DEF Calls
<1> QED BY <1>1, <1>2 DEF TypeOK, Goto, Alone

LEMMA Returns ==
  ASSUME TypeOK, NEW h \in Handlers, call[h] # None, NEW result \in Results,
         Return(h, result)
  PROVE  /\ call' \in [Handlers -> Calls \cup {None}] /\ Alone(h)
         /\ call'[h] = [call[h] EXCEPT !.at = "done", !.result = result]
         /\ call[h] \in Calls
<1>1. call[h] \in Calls
  BY DEF TypeOK
<1>2. [call[h] EXCEPT !.at = "done", !.result = result] \in Calls
  BY <1>1 DEF Calls, Steps
<1>3. call' = [call EXCEPT ![h] = [call[h] EXCEPT !.at = "done", !.result = result]]
  BY <1>1 DEF Return, TypeOK, Calls
<1> QED BY <1>1, <1>2, <1>3 DEF TypeOK, Alone

\* An exception ends a call.
LEMMA RaisesReturns ==
  ASSUME NEW h \in Handlers, Raises(h)
  PROVE  \E result \in {"error", "denied"} : Return(h, result)
  BY DEF Raises

\* What a child does with its own call keeps types, and its place is right for
\* the state of the new certificates.
Moved(h) ==
  /\ call' \in [Handlers -> Calls \cup {None}]
  /\ Alone(h)
  /\ call'[h] # None => PlaceOK(call'[h], scenario', issued')

LEMMA ReturnMoves ==
  ASSUME TypeOK, Control, NEW h \in Handlers, call[h] # None, scenario' = scenario,
         NEW result \in Results, Return(h, result)
  PROVE  Moved(h)
<1>1. PlaceOK(call[h], scenario, issued)
  BY DEF Control
<1>2. /\ call' \in [Handlers -> Calls \cup {None}] /\ Alone(h)
      /\ call'[h] = [call[h] EXCEPT !.at = "done", !.result = result] /\ call[h] \in Calls
  BY Returns
<1>3. call'[h].op = call[h].op /\ call'[h].at = "done"
  BY <1>2 DEF Calls
<1> QED BY <1>1, <1>2, <1>3 DEF Moved, PlaceOK

LEMMA RaiseMoves ==
  ASSUME TypeOK, Control, NEW h \in Handlers, call[h] # None, scenario' = scenario,
         Raises(h)
  PROVE  Moved(h)
  BY RaisesReturns, ReturnMoves DEF Results

LEMMA GotoMoves ==
  ASSUME TypeOK, Control, NEW h \in Handlers, call[h] # None, scenario' = scenario,
         NEW step \in Steps, Goto(h, step),
         PlaceOK([call[h] EXCEPT !.at = step], scenario, issued')
  PROVE  Moved(h)
  BY GoesTo DEF Moved

\* What every step does to the rest: it keeps types, and certificates stay issued.
Sound ==
  /\ vaults' \in [Vaults -> Data \cup {NoVault, NoData}]
  /\ issued' \in [Serials -> Hosts \cup {None}]
  /\ revoked' \subseteq {s \in Serials : issued'[s] # None}
  /\ scenario' = scenario
  /\ \A s \in Serials : issued[s] # None => issued'[s] = issued[s]

LEMMA SoundWithout ==
  ASSUME TypeOK, UNCHANGED <<vaults, issued, revoked, scenario>>
  PROVE  Sound
  BY DEF TypeOK, Sound

LEMMA VaultOfCall ==
  ASSUME NEW h \in Handlers, call[h] # None, call[h].key \in Keys \cup Hosts
  PROVE  VaultFor(h) \in Vaults
  BY DEF VaultFor, Vaults

LEMMA BeginSteps ==
  ASSUME TypeOK, Control, NEW h \in Handlers, Begin(h)
  PROVE  Moved(h) /\ Sound
<1>a. PICK op \in scenario.operations, key \in Keys \cup Hosts \cup OtherHosts :
        \E value \in IF op = "set" THEN Payloads ELSE {None} :
          call' = [call EXCEPT ![h] =
            [op |-> op, key |-> key, value |-> value, todo |-> {}, known |-> {},
             at |-> IF key \in OtherHosts THEN "done" ELSE FirstStep(op, key),
             result |-> IF key \in OtherHosts THEN "denied" ELSE "pending"]]
  BY DEF Begin
<1>1. PICK value \in IF op = "set" THEN Payloads ELSE {None} :
        call' = [call EXCEPT ![h] =
          [op |-> op, key |-> key, value |-> value, todo |-> {}, known |-> {},
           at |-> IF key \in OtherHosts THEN "done" ELSE FirstStep(op, key),
           result |-> IF key \in OtherHosts THEN "denied" ELSE "pending"]]
  BY <1>a
<1>2. op \in Operations /\ value \in Data \cup {None} /\ (op = "set" => value \in Data)
  BY IpaAssumption DEF TypeOK, Data
<1>3. FirstStep(op, key) \in Steps
  BY <1>2 DEF FirstStep, Steps, Operations
<1>4. call'[h] = [op |-> op, key |-> key, value |-> value, todo |-> {}, known |-> {},
                  at |-> IF key \in OtherHosts THEN "done" ELSE FirstStep(op, key),
                  result |-> IF key \in OtherHosts THEN "denied" ELSE "pending"]
  BY <1>1 DEF TypeOK
<1>5. call'[h] \in Calls
  BY <1>2, <1>3, <1>4 DEF Calls, Steps, Results
<1>6. PlaceOK(call'[h], scenario, issued)
  BY <1>2, <1>4 DEF PlaceOK, FirstStep, Operations
<1>7. UNCHANGED <<vaults, issued, revoked, scenario>>
  BY DEF Begin
<1>8. call' \in [Handlers -> Calls \cup {None}] /\ Alone(h)
  BY <1>1, <1>4, <1>5 DEF TypeOK, Alone
<1> QED BY <1>6, <1>7, <1>8, SoundWithout DEF Moved

LEMMA RetrieveSteps ==
  ASSUME TypeOK, Control, NEW h \in Handlers, Retrieve(h)
  PROVE  Moved(h) /\ Sound
<1>1. /\ call[h] # None /\ PlaceOK(call[h], scenario, issued) /\ call[h].at = "retrieve"
      /\ UNCHANGED <<vaults, issued, revoked, scenario>> /\ call[h] \in Calls
  BY DEF Retrieve, At, Control, TypeOK
<1>2. CASE ~IsEmpty(VaultFor(h)) /\ Return(h, vaults[VaultFor(h)])
  <2>1. vaults[VaultFor(h)] \in Results
    BY <1>1, <1>2, VaultOfCall DEF IsEmpty, PlaceOK, TypeOK, Results
  <2> QED BY <1>1, <1>2, <2>1, ReturnMoves, SoundWithout
<1>3. CASE Return(h, "none")
  BY <1>1, <1>3, ReturnMoves, SoundWithout DEF Results
<1>4. CASE Raises(h)
  BY <1>1, <1>4, RaiseMoves, SoundWithout
<1>5. CASE call[h].key \in Hosts /\ Goto(h, "request")
  <2>1. PlaceOK([call[h] EXCEPT !.at = "request"], scenario, issued')
    BY <1>1, <1>5 DEF PlaceOK, Calls
  <2> QED BY <1>1, <1>5, <2>1, GotoMoves, SoundWithout DEF Steps
<1> QED BY <1>2, <1>3, <1>4, <1>5 DEF Retrieve

LEMMA RequestSteps ==
  ASSUME TypeOK, Control, NEW h \in Handlers, Request(h)
  PROVE  Moved(h) /\ Sound
<1>1. /\ call[h] # None /\ PlaceOK(call[h], scenario, issued) /\ call[h].at = "request"
      /\ UNCHANGED <<vaults, revoked, scenario>> /\ call[h] \in Calls
  BY DEF Request, At, Control, TypeOK
<1>2. ASSUME NEW s \in Serials, issued[s] = None,
             issued' = [issued EXCEPT ![s] = call[h].key]
      PROVE  Sound
  <2>1. call[h].key \in Hosts
    BY <1>1 DEF PlaceOK
  <2> QED BY <1>1, <1>2, <2>1, IpaAssumption DEF Sound, TypeOK
<1>3. ASSUME NEW s \in Serials, call' = [call EXCEPT ![h].at = "add", ![h].value = s]
      PROVE  Moved(h)
  <2>1. call'[h] = [call[h] EXCEPT !.at = "add", !.value = s] /\ Alone(h)
    BY <1>1, <1>3 DEF TypeOK, Calls, Alone
  <2>2. call'[h] \in Calls /\ call' \in [Handlers -> Calls \cup {None}]
    BY <1>1, <1>3, <2>1 DEF TypeOK, Calls, Steps, Data
  <2>3. PlaceOK(call'[h], scenario, issued')
    BY <1>1, <2>1 DEF PlaceOK, Calls, Data
  <2> QED BY <1>1, <2>1, <2>2, <2>3 DEF Moved
<1>4. CASE (Return(h, "denied") \/ Raises(h)) /\ UNCHANGED issued
  BY <1>1, <1>4, ReturnMoves, RaiseMoves, SoundWithout DEF Results
<1>5. ASSUME Raises(h) PROVE Moved(h)
  BY <1>1, <1>5, RaiseMoves
<1> QED BY <1>2, <1>3, <1>4, <1>5 DEF Request

\* A vault gets data of the right type, or none, or goes.
LEMMA VaultSound ==
  ASSUME TypeOK, NEW v \in Vaults, NEW data \in Data \cup {NoVault, NoData},
         vaults' = [vaults EXCEPT ![v] = data], UNCHANGED <<issued, revoked, scenario>>
  PROVE  Sound
  BY DEF TypeOK, Sound

LEMMA AddSteps ==
  ASSUME TypeOK, Control, NEW h \in Handlers, Add(h)
  PROVE  Moved(h) /\ Sound
<1>1. /\ call[h] # None /\ PlaceOK(call[h], scenario, issued) /\ call[h].at = "add"
      /\ UNCHANGED <<issued, revoked, scenario>> /\ call[h] \in Calls
  BY DEF Add, At, Control, TypeOK
<1>2. vaults' = [vaults EXCEPT ![VaultFor(h)] = NoData] => Sound
  BY <1>1, VaultOfCall, VaultSound DEF PlaceOK
<1>3. UNCHANGED vaults => Sound
  BY <1>1, SoundWithout
<1>4. ASSUME Goto(h, "archive") PROVE Moved(h)
  <2>1. PlaceOK([call[h] EXCEPT !.at = "archive"], scenario, issued')
    BY <1>1 DEF PlaceOK, Calls
  <2> QED BY <1>1, <1>4, <2>1, GotoMoves DEF Steps
<1>5. ASSUME Return(h, "exists") PROVE Moved(h)
  BY <1>1, <1>5, ReturnMoves DEF Results
<1>6. ASSUME Raises(h) PROVE Moved(h)
  BY <1>1, <1>6, RaiseMoves
<1> QED BY <1>2, <1>3, <1>4, <1>5, <1>6 DEF Add

LEMMA ArchiveSteps ==
  ASSUME TypeOK, Control, NEW h \in Handlers, Archive(h)
  PROVE  Moved(h) /\ Sound
<1>1. /\ call[h] # None /\ PlaceOK(call[h], scenario, issued) /\ call[h].at = "archive"
      /\ UNCHANGED <<issued, revoked, scenario>> /\ call[h] \in Calls
  BY DEF Archive, At, Control, TypeOK
<1>2. call[h].value \in Data
  BY <1>1 DEF PlaceOK
<1>3. vaults' = [vaults EXCEPT ![VaultFor(h)] = call[h].value] => Sound
  BY <1>1, <1>2, VaultOfCall, VaultSound DEF PlaceOK
<1>4. UNCHANGED vaults => Sound
  BY <1>1, SoundWithout
<1>5. ASSUME Return(h, IF call[h].op = "get" THEN call[h].value ELSE "done")
      PROVE Moved(h)
  BY <1>1, <1>2, <1>5, ReturnMoves DEF Results
<1>6. ASSUME Return(h, "error") \/ Raises(h) PROVE Moved(h)
  BY <1>1, <1>6, ReturnMoves, RaiseMoves DEF Results
<1> QED BY <1>3, <1>4, <1>5, <1>6 DEF Archive

LEMMA FindSteps ==
  ASSUME TypeOK, Control, NEW h \in Handlers, Find(h)
  PROVE  Moved(h) /\ Sound
<1> DEFINE certs == IssuedFor(call[h].key) \ revoked
<1>1. /\ call[h] # None /\ PlaceOK(call[h], scenario, issued) /\ call[h].at = "find"
      /\ UNCHANGED <<vaults, issued, revoked, scenario>> /\ call[h] \in Calls
  BY DEF Find, At, Control, TypeOK
<1>2. call[h].key \in Hosts /\ call[h].op = "cut"
  BY <1>1 DEF PlaceOK
<1>3. certs \subseteq Serials /\ IssuedFor(call[h].key) \subseteq Serials
      /\ \A n \in certs : issued[n] # None
  BY <1>2, IpaAssumption DEF IssuedFor
<1>4. ASSUME call' = [call EXCEPT ![h].todo = certs, ![h].known = IssuedFor(call[h].key),
                                 ![h].at = RevokeNext(certs)]
      PROVE  Moved(h)
  <2>1. /\ call'[h] = [call[h] EXCEPT !.todo = certs, !.known = IssuedFor(call[h].key),
                                     !.at = RevokeNext(certs)]
        /\ Alone(h)
    BY <1>1, <1>4 DEF TypeOK, Calls, Alone
  <2>2. RevokeNext(certs) \in {"revoke", "delete"}
    BY DEF RevokeNext
  <2>3. call'[h] \in Calls
    BY <1>1, <1>3, <2>1, <2>2 DEF Calls, Steps
  <2>4. call' \in [Handlers -> Calls \cup {None}]
    BY <1>4, <2>1, <2>3 DEF TypeOK, Alone
  <2>5. PlaceOK(call'[h], scenario, issued)
    BY <1>1, <1>2, <1>3, <2>1, <2>2 DEF PlaceOK, Calls
  <2> QED BY <1>1, <2>1, <2>4, <2>5 DEF Moved
<1>5. ASSUME Raises(h) PROVE Moved(h)
  BY <1>1, <1>5, RaiseMoves
<1> QED BY <1>1, <1>4, <1>5, SoundWithout DEF Find

LEMMA RevokeSteps ==
  ASSUME TypeOK, Control, NEW h \in Handlers, Revoke(h)
  PROVE  Moved(h) /\ Sound
<1>1. /\ call[h] # None /\ PlaceOK(call[h], scenario, issued) /\ call[h].at = "revoke"
      /\ UNCHANGED <<vaults, issued, scenario>> /\ call[h] \in Calls
  BY DEF Revoke, At, Control, TypeOK
<1>2. /\ call[h].key \in Hosts /\ call[h].op = "cut" /\ call[h].todo \subseteq Serials
      /\ \A n \in call[h].todo : issued[n] # None
  BY <1>1 DEF PlaceOK, Calls
<1>3. ASSUME NEW s \in call[h].todo, revoked' = revoked \cup {s} PROVE Sound
  BY <1>1, <1>2, <1>3 DEF TypeOK, Sound
<1>4. ASSUME NEW s \in call[h].todo,
             call' = [call EXCEPT ![h].todo = @ \ {s},
                                 ![h].at = RevokeNext(call[h].todo \ {s})]
      PROVE  Moved(h)
  <2>1. /\ call'[h] = [call[h] EXCEPT !.todo = @ \ {s},
                                     !.at = RevokeNext(call[h].todo \ {s})]
        /\ Alone(h)
    BY <1>1, <1>4 DEF TypeOK, Calls, Alone
  <2>2. RevokeNext(call[h].todo \ {s}) \in {"revoke", "delete"}
    BY DEF RevokeNext
  <2>3. call'[h] \in Calls
    BY <1>1, <1>2, <2>1, <2>2 DEF Calls, Steps
  <2>4. call' \in [Handlers -> Calls \cup {None}]
    BY <1>4, <2>1, <2>3 DEF TypeOK, Alone
  <2>5. PlaceOK(call'[h], scenario, issued)
    BY <1>1, <1>2, <2>1, <2>2 DEF PlaceOK, Calls
  <2> QED BY <1>1, <2>1, <2>4, <2>5 DEF Moved
<1>5. ASSUME Raises(h) PROVE Moved(h)
  BY <1>1, <1>5, RaiseMoves
<1>6. UNCHANGED revoked => Sound
  BY <1>1, SoundWithout
<1> QED BY <1>3, <1>4, <1>5, <1>6 DEF Revoke

LEMMA DeleteSteps ==
  ASSUME TypeOK, Control, NEW h \in Handlers, Delete(h)
  PROVE  Moved(h) /\ Sound
<1>1. /\ call[h] # None /\ PlaceOK(call[h], scenario, issued) /\ call[h].at = "delete"
      /\ UNCHANGED <<issued, revoked, scenario>> /\ call[h] \in Calls
  BY DEF Delete, At, Control, TypeOK
<1>2. vaults' = [vaults EXCEPT ![VaultFor(h)] = NoVault] => Sound
  BY <1>1, VaultOfCall, VaultSound DEF PlaceOK
<1>3. UNCHANGED vaults => Sound
  BY <1>1, SoundWithout
<1>4. ASSUME NEW result \in {"done", "none"}, Return(h, result) PROVE Moved(h)
  BY <1>1, <1>4, ReturnMoves DEF Results
<1>5. ASSUME Raises(h) PROVE Moved(h)
  BY <1>1, <1>5, RaiseMoves
<1> QED BY <1>2, <1>3, <1>4, <1>5 DEF Delete

LEMMA EndSteps ==
  ASSUME TypeOK, Control, NEW h \in Handlers, Reply(h) \/ Kill(h)
  PROVE  Moved(h) /\ Sound
<1>1. call' = [call EXCEPT ![h] = None] /\ UNCHANGED <<vaults, issued, revoked, scenario>>
  BY DEF Reply, Kill
<1>2. Sound
  BY <1>1, SoundWithout
<1>3. call' \in [Handlers -> Calls \cup {None}] /\ call'[h] = None /\ Alone(h)
  BY <1>1 DEF TypeOK, Alone
<1> QED BY <1>2, <1>3 DEF Moved

AnyStep(h) ==
  \/ Begin(h) \/ Retrieve(h) \/ Request(h) \/ Add(h) \/ Archive(h) \/ Find(h)
  \/ Revoke(h) \/ Delete(h) \/ Reply(h) \/ Kill(h)

LEMMA EveryStep ==
  ASSUME TypeOK, Control, NEW h \in Handlers, AnyStep(h)
  PROVE  Moved(h) /\ Sound
  BY BeginSteps, RetrieveSteps, RequestSteps, AddSteps, ArchiveSteps, FindSteps,
     RevokeSteps, DeleteSteps, EndSteps DEF AnyStep

\* Type correctness of the stores and of the calls on them, and that each call
\* is where its operation and its key take it.
THEOREM IpaTypeCorrect == Spec => []TypeOK /\ []Control
<1>1. Init => TypeOK /\ Control
  BY DEF Init, TypeOK, Control
<1>2. ASSUME TypeOK, Control, [Next]_vars PROVE TypeOK' /\ Control'
  <2>1. CASE UNCHANGED vars
    BY <1>2, <2>1 DEF vars, TypeOK, Control
  <2>2. CASE Next
    <3>1. PICK h \in Handlers : Moved(h) /\ Sound
      BY <1>2, <2>2, EveryStep DEF Next, AnyStep
    <3>2. TypeOK'
      BY <1>2, <3>1 DEF Moved, Sound, TypeOK
    <3>3. ASSUME NEW g \in Handlers \ {h}, call'[g] # None
          PROVE  PlaceOK(call'[g], scenario', issued')
      <4>1. call'[g] = call[g] /\ PlaceOK(call[g], scenario, issued) /\ call[g] \in Calls
        BY <1>2, <3>1, <3>3 DEF Moved, Alone, Control, TypeOK
      <4>2. call[g].todo \subseteq Serials
        BY <4>1 DEF Calls
      <4> QED BY <3>1, <4>1, <4>2 DEF Sound, PlaceOK
    <3> QED BY <3>1, <3>2, <3>3 DEF Moved, Control
  <2> QED BY <1>2, <2>1, <2>2
<1> QED BY <1>1, <1>2, PTL DEF Spec

--------------------------------------------------------------------------------
(***************************************************************************)
(* Revocation.  While a DELETE revokes, what it has found is revoked or    *)
(* still to be revoked; when it comes to the cached pair, all of it is.    *)
(***************************************************************************)

RevokingOK(c, r) ==
  /\ c.at = "revoke" => c.known \subseteq r \cup c.todo
  /\ c.at = "delete" /\ c.key \in Hosts => c.known \subseteq r

Revoking == \A h \in Handlers : call[h] # None => RevokingOK(call[h], revoked)

\* Nothing else brings a call to where it revokes or deletes.
LEMMA NotRevoking ==
  ASSUME TypeOK, NEW h \in Handlers, call[h] # None,
         \/ \E step \in {"request", "add", "archive"} : Goto(h, step)
         \/ \E result \in Results : Return(h, result)
         \/ Raises(h)
  PROVE  Alone(h) /\ RevokingOK(call'[h], revoked')
<1>1. ASSUME NEW step \in {"request", "add", "archive"}, Goto(h, step)
      PROVE  Alone(h) /\ RevokingOK(call'[h], revoked')
  <2>1. Alone(h) /\ call'[h] = [call[h] EXCEPT !.at = step] /\ call[h] \in Calls
    BY <1>1, GoesTo DEF Steps
  <2> QED BY <2>1 DEF RevokingOK, Calls
<1>2. ASSUME NEW result \in Results, Return(h, result)
      PROVE  Alone(h) /\ RevokingOK(call'[h], revoked')
  <2>1. /\ Alone(h) /\ call[h] \in Calls
        /\ call'[h] = [call[h] EXCEPT !.at = "done", !.result = result]
    BY <1>2, Returns
  <2> QED BY <2>1 DEF RevokingOK, Calls
<1>3. CASE Raises(h)
  BY <1>2, <1>3, RaisesReturns DEF Results
<1> QED BY <1>1, <1>2, <1>3

LEMMA RevokingStep ==
  ASSUME TypeOK, Control, Revoking, NEW h \in Handlers, AnyStep(h)
  PROVE  /\ Alone(h) /\ revoked \subseteq revoked'
         /\ call'[h] # None => RevokingOK(call'[h], revoked')
<1>1. CASE Begin(h)
  <2>1. Alone(h)
    BY <1>1, BeginSteps DEF Moved
  <2>2. call' \in [Handlers -> Calls \cup {None}]
    BY <1>1, BeginSteps DEF Moved
  <2>3. call'[h].at \in {"done", "retrieve", "add", "find", "delete"} /\ call'[h].known = {}
    BY <1>1, IpaAssumption DEF Begin, FirstStep, TypeOK, Operations
  <2> QED BY <1>1, <2>1, <2>3 DEF Begin, RevokingOK
<1>2. CASE Retrieve(h)
  <2>1. call[h] # None /\ UNCHANGED revoked /\ PlaceOK(call[h], scenario, issued)
    BY <1>2 DEF Retrieve, At, Control
  <2>2. vaults[VaultFor(h)] \in Results \cup {NoVault, NoData}
    BY <1>2, <2>1, VaultOfCall DEF Retrieve, At, PlaceOK, TypeOK, Results
  <2>3. \/ \E step \in {"request", "add", "archive"} : Goto(h, step)
        \/ \E result \in Results : Return(h, result)
        \/ Raises(h)
    BY <1>2, <2>2 DEF Retrieve, IsEmpty, Results
  <2> QED BY <2>1, <2>3, NotRevoking
<1>3. CASE Request(h)
  <2>1. call[h] # None /\ UNCHANGED revoked
    BY <1>3 DEF Request, At
  <2>2. ASSUME NEW s \in Serials, call' = [call EXCEPT ![h].at = "add", ![h].value = s]
        PROVE  Alone(h) /\ RevokingOK(call'[h], revoked')
    <3>1. call'[h] = [call[h] EXCEPT !.at = "add", !.value = s] /\ call[h] \in Calls
      BY <2>1, <2>2 DEF TypeOK, Calls
    <3> QED BY <2>2, <3>1 DEF Alone, RevokingOK, Calls, TypeOK
  <2>3. CASE Return(h, "denied") \/ Raises(h)
    BY <2>1, <2>3, NotRevoking DEF Results
  <2> QED BY <1>3, <2>1, <2>2, <2>3 DEF Request
<1>4. CASE Add(h)
  <2>1. call[h] # None /\ UNCHANGED revoked
    BY <1>4 DEF Add, At
  <2>2. Goto(h, "archive") \/ Return(h, "exists") \/ Raises(h)
    BY <1>4 DEF Add
  <2> QED BY <2>1, <2>2, NotRevoking DEF Results
<1>5. CASE Archive(h)
  <2>1. call[h] # None /\ UNCHANGED revoked /\ PlaceOK(call[h], scenario, issued)
    BY <1>5 DEF Archive, At, Control
  <2>2. call[h].value \in Data
    BY <1>5, <2>1 DEF Archive, At, PlaceOK
  <2>3. \/ Return(h, IF call[h].op = "get" THEN call[h].value ELSE "done")
        \/ Return(h, "error") \/ Raises(h)
    BY <1>5 DEF Archive
  <2> QED BY <2>1, <2>2, <2>3, NotRevoking DEF Results
<1>6. CASE Find(h)
  <2>1. call[h] # None /\ UNCHANGED revoked /\ call[h] \in Calls /\ Alone(h)
    BY <1>6, FindSteps DEF Find, At, TypeOK, Moved
  <2>2. CASE Raises(h)
    BY <2>1, <2>2, NotRevoking
  <2>3. CASE ~Raises(h)
    <3> DEFINE found == IssuedFor(call[h].key)
    <3>1. call' = [call EXCEPT ![h].todo = found \ revoked, ![h].known = found,
                               ![h].at = RevokeNext(found \ revoked)]
      BY <1>6, <2>3 DEF Find
    <3>2. call'[h] = [call[h] EXCEPT !.todo = found \ revoked, !.known = found,
                                     !.at = RevokeNext(found \ revoked)]
      BY <2>1, <3>1 DEF TypeOK, Calls
    <3> QED BY <2>1, <3>2 DEF RevokingOK, RevokeNext, Calls
  <2> QED BY <2>2, <2>3
<1>7. CASE Revoke(h)
  <2>1. call[h] # None /\ call[h] \in Calls /\ Alone(h) /\ revoked \subseteq revoked'
        /\ RevokingOK(call[h], revoked) /\ call[h].at = "revoke"
    BY <1>7, RevokeSteps DEF Revoke, At, TypeOK, Moved, Revoking
  <2>2. CASE Raises(h)
    BY <2>1, <2>2, NotRevoking
  <2>3. CASE ~Raises(h)
    <3>1. PICK s \in call[h].todo :
            /\ revoked' = revoked \cup {s}
            /\ call' = [call EXCEPT ![h].todo = @ \ {s},
                                   ![h].at = RevokeNext(call[h].todo \ {s})]
      BY <1>7, <2>3 DEF Revoke
    <3>2. call'[h] = [call[h] EXCEPT !.todo = @ \ {s},
                                     !.at = RevokeNext(call[h].todo \ {s})]
      BY <2>1, <3>1 DEF TypeOK, Calls
    <3>3. /\ call'[h].known = call[h].known /\ call'[h].todo = call[h].todo \ {s}
          /\ call'[h].at = RevokeNext(call[h].todo \ {s})
      BY <2>1, <3>2 DEF Calls
    <3>4. call[h].known \subseteq revoked' \cup (call[h].todo \ {s})
      BY <2>1, <3>1 DEF RevokingOK
    <3>5. RevokingOK(call'[h], revoked')
      BY <3>3, <3>4 DEF RevokingOK, RevokeNext
    <3> QED BY <2>1, <3>5
  <2> QED BY <2>2, <2>3
<1>8. CASE Delete(h)
  <2>1. call[h] # None /\ UNCHANGED revoked
    BY <1>8 DEF Delete, At
  <2>2. Return(h, "done") \/ Return(h, "none") \/ Raises(h)
    BY <1>8 DEF Delete
  <2> QED BY <2>1, <2>2, NotRevoking DEF Results
<1>9. CASE Reply(h) \/ Kill(h)
  BY <1>9 DEF Reply, Kill, TypeOK, Alone
<1> QED BY <1>1, <1>2, <1>3, <1>4, <1>5, <1>6, <1>7, <1>8, <1>9 DEF AnyStep

\* A DELETE that is told 204 has revoked every certificate that was issued for
\* its host when it asked IPA for them (cut() and _revoke_certs()).
THEOREM RevokedBeforeDeleted == Spec => DeletedIsRevoked
<1>1. Init => Revoking
  BY DEF Init, Revoking
<1>2. ASSUME TypeOK, Control, Revoking, [Next]_vars PROVE Revoking'
  <2>1. CASE UNCHANGED vars
    BY <1>2, <2>1 DEF vars, Revoking
  <2>2. CASE Next
    <3>1. PICK h \in Handlers :
            /\ Alone(h) /\ revoked \subseteq revoked'
            /\ call'[h] # None => RevokingOK(call'[h], revoked')
      BY <1>2, <2>2, RevokingStep DEF Next, AnyStep
    <3> QED BY <1>2, <3>1 DEF Revoking, RevokingOK, Alone
  <2> QED BY <1>2, <2>1, <2>2
<1>3. ASSUME TypeOK, Control, Revoking, [Next]_vars
      PROVE  [\A h \in Handlers :
                /\ At(h, "delete") /\ call[h].key \in Hosts
                /\ call'[h] # None /\ call'[h].result = "done"
                => call[h].known \subseteq revoked']_vars
  <2>1. revoked \subseteq revoked'
    BY <1>3, RevokingStep DEF Next, AnyStep, vars
  <2> QED BY <1>3, <2>1 DEF Revoking, RevokingOK, At
<1> QED BY <1>1, <1>2, <1>3, IpaTypeCorrect, PTL DEF Spec, DeletedIsRevoked

--------------------------------------------------------------------------------
(***************************************************************************)
(* The vaults.  Each step changes at most the vault of its call, in one of *)
(* three ways, and a call archives only after it has added.                *)
(***************************************************************************)

ChangesTo(h, data) == vaults' = [vaults EXCEPT ![VaultFor(h)] = data]

LEMMA VaultSteps ==
  ASSUME NEW h \in Handlers, AnyStep(h)
  PROVE  \/ UNCHANGED vaults
         \/ At(h, "add") /\ vaults[VaultFor(h)] = NoVault /\ ChangesTo(h, NoData)
         \/ At(h, "archive") /\ ChangesTo(h, call[h].value)
         \/ At(h, "delete") /\ ChangesTo(h, NoVault)
  BY DEF AnyStep, Begin, Retrieve, Request, Add, Archive, Find, Revoke, Delete, Reply, Kill,
         ChangesTo

Archives(h) == At(h, "archive")

\* A call that has come to archiving has just added its vault, or replaces.
LEMMA ComesToArchive ==
  ASSUME TypeOK, Control, NEW h \in Handlers, AnyStep(h), Archives(h)'
  PROVE  /\ call[h] # None /\ call[h].at = "add"
         /\ call'[h].key = call[h].key
         /\ \/ vaults[VaultFor(h)] = NoVault /\ ChangesTo(h, NoData)
            \/ Replaces(h)
<1>1. call'[h] # None /\ call'[h].at = "archive"
  BY DEF Archives, At
<1>2. CASE Begin(h)
  <2>1. call'[h].at \in {"done", "retrieve", "add", "find", "delete"}
    BY <1>2, IpaAssumption DEF Begin, FirstStep, TypeOK, Operations
  <2> QED BY <1>1, <2>1
<1>3. CASE Add(h)
  <2>1. call[h] # None /\ call[h].at = "add"
    BY <1>3 DEF Add, At
  <2>2. ASSUME Return(h, "exists") \/ Raises(h) PROVE FALSE
    <3>1. PICK result \in {"exists", "error", "denied"} : Return(h, result)
      BY <2>2, RaisesReturns
    <3>2. call'[h] = [call[h] EXCEPT !.at = "done", !.result = result] /\ call[h] \in Calls
      BY <2>1, <3>1, Returns DEF Results
    <3> QED BY <1>1, <3>2 DEF Calls
  <2>3. Goto(h, "archive")
    BY <1>3, <2>2 DEF Add
  <2>4. call'[h] = [call[h] EXCEPT !.at = "archive"] /\ call[h] \in Calls
    BY <2>1, <2>3, GoesTo DEF Steps
  <2>5. call'[h].key = call[h].key
    BY <2>4 DEF Calls
  <2>6. \/ vaults[VaultFor(h)] = NoVault /\ ChangesTo(h, NoData)
        \/ Replaces(h)
    BY <1>3, <2>2 DEF Add, ChangesTo
  <2> QED BY <2>1, <2>5, <2>6
<1>4. CASE ~Begin(h) /\ ~Add(h)
  <2>1. ASSUME NEW step \in Steps \ {"archive"}, call[h] # None, Goto(h, step) PROVE FALSE
    <3>1. call'[h] = [call[h] EXCEPT !.at = step] /\ call[h] \in Calls
      BY <2>1, GoesTo
    <3> QED BY <1>1, <2>1, <3>1 DEF Calls
  <2>2. ASSUME NEW result \in Results, call[h] # None, Return(h, result) PROVE FALSE
    <3>1. call'[h] = [call[h] EXCEPT !.at = "done", !.result = result] /\ call[h] \in Calls
      BY <2>2, Returns
    <3> QED BY <1>1, <3>1 DEF Calls
  <2>3. ASSUME call[h] # None, Raises(h) PROVE FALSE
    BY <2>2, <2>3, RaisesReturns DEF Results
  <2>4. ASSUME Retrieve(h) PROVE FALSE
    <3>1. call[h] # None /\ PlaceOK(call[h], scenario, issued) /\ call[h].at = "retrieve"
      BY <2>4 DEF Retrieve, At, Control
    <3>2. vaults[VaultFor(h)] \in Results \cup {NoVault, NoData}
      BY <3>1, VaultOfCall DEF PlaceOK, TypeOK, Results
    <3> QED BY <2>1, <2>2, <2>3, <2>4, <3>1, <3>2 DEF Retrieve, IsEmpty, Results, Steps
  <2>5. ASSUME Request(h) PROVE FALSE
    <3>1. call[h] # None /\ call[h] \in Calls
      BY <2>5 DEF Request, At, TypeOK
    <3>2. PICK s \in Serials : call' = [call EXCEPT ![h].at = "add", ![h].value = s]
      BY <2>2, <2>3, <2>5, <3>1 DEF Request, Results
    <3> QED BY <1>1, <3>1, <3>2 DEF TypeOK, Calls
  <2>6. ASSUME Archive(h) PROVE FALSE
    <3>1. call[h] # None /\ PlaceOK(call[h], scenario, issued) /\ call[h].at = "archive"
      BY <2>6 DEF Archive, At, Control
    <3>2. call[h].value \in Data
      BY <3>1 DEF PlaceOK
    <3> QED BY <2>2, <2>3, <2>6, <3>1, <3>2 DEF Archive, Results
  <2>7. ASSUME Find(h) PROVE FALSE
    <3>1. call[h] # None /\ call[h] \in Calls
      BY <2>7 DEF Find, At, TypeOK
    <3>2. PICK certs : call' = [call EXCEPT ![h].todo = certs,
                                            ![h].known = IssuedFor(call[h].key),
                                            ![h].at = RevokeNext(certs)]
      BY <2>3, <2>7, <3>1 DEF Find
    <3>3. call'[h].at \in {"revoke", "delete"}
      BY <3>1, <3>2 DEF TypeOK, Calls, RevokeNext
    <3> QED BY <1>1, <3>3
  <2>8. ASSUME Revoke(h) PROVE FALSE
    <3>1. call[h] # None /\ call[h] \in Calls
      BY <2>8 DEF Revoke, At, TypeOK
    <3>2. PICK certs : call' = [call EXCEPT ![h].todo = @ \ certs,
                                            ![h].at = RevokeNext(call[h].todo \ certs)]
      BY <2>3, <2>8, <3>1 DEF Revoke
    <3>3. call'[h].at \in {"revoke", "delete"}
      BY <3>1, <3>2 DEF TypeOK, Calls, RevokeNext
    <3> QED BY <1>1, <3>3
  <2>9. ASSUME Delete(h) PROVE FALSE
    BY <2>2, <2>3, <2>9 DEF Delete, At, Results
  <2>10. ASSUME Reply(h) \/ Kill(h) PROVE FALSE
    BY <1>1, <2>10 DEF Reply, Kill, TypeOK
  <2> QED BY <1>4, <2>4, <2>5, <2>6, <2>7, <2>8, <2>9, <2>10 DEF AnyStep
<1> QED BY <1>2, <1>3, <1>4

LEMMA KeyVaults ==
  ASSUME NEW x \in Keys \cup Hosts, NEW k \in Keys, VaultOf[x] = VaultOf[k]
  PROVE  x \in Keys /\ x \notin Hosts
  BY IpaAssumption

\* While nothing is deleted, the vault that a PUT is about to archive into is
\* empty, and the PUT is the only one.
ArchivesKey(h) == Archives(h) /\ call[h].key \in Keys

OneArchiver ==
  "cut" \notin scenario.operations =>
    \A h \in Handlers : ArchivesKey(h) =>
      /\ vaults[VaultFor(h)] = NoData
      /\ \A g \in Handlers : ArchivesKey(g) /\ VaultFor(g) = VaultFor(h) => g = h

LEMMA OneArchiverStep ==
  ASSUME TypeOK, Control, OneArchiver, NEW h \in Handlers, AnyStep(h)
  PROVE  OneArchiver'
<1>1. Moved(h) /\ Sound
  BY EveryStep
<1>2. SUFFICES ASSUME "cut" \notin scenario.operations
               PROVE  \A f \in Handlers : ArchivesKey(f)' =>
                        /\ vaults'[VaultFor(f)'] = NoData
                        /\ \A g \in Handlers :
                             ArchivesKey(g)' /\ VaultFor(g)' = VaultFor(f)' => g = f
  BY <1>1 DEF OneArchiver, Sound
<1>3. ASSUME NEW g \in Handlers \ {h}
      PROVE  (ArchivesKey(g)' <=> ArchivesKey(g)) /\ VaultFor(g)' = VaultFor(g)
  BY <1>1, <1>3 DEF Moved, Alone, ArchivesKey, Archives, At, VaultFor
<1>4. ASSUME NEW g \in Handlers, ArchivesKey(g) PROVE vaults[VaultFor(g)] = NoData
  BY <1>2, <1>4 DEF OneArchiver
\* A PUT that comes to archiving found no vault, so nobody else archives into it.
<1>5. ASSUME ArchivesKey(h)'
      PROVE  /\ call[h] # None /\ VaultFor(h)' = VaultFor(h) /\ VaultFor(h) \in Vaults
             /\ vaults[VaultFor(h)] = NoVault /\ ChangesTo(h, NoData)
  <2>1. /\ call[h] # None /\ call[h].at = "add" /\ call'[h].key = call[h].key
        /\ \/ vaults[VaultFor(h)] = NoVault /\ ChangesTo(h, NoData)
           \/ Replaces(h)
    BY <1>5, ComesToArchive DEF ArchivesKey
  <2>2. call[h].key \in Keys /\ call[h].key \notin Hosts
    BY <1>5, <2>1, KeyVaults DEF ArchivesKey
  <2>3. call[h].op = "set"
    BY <2>1, <2>2 DEF Control, PlaceOK
  <2> QED BY <2>1, <2>2, <2>3, VaultOfCall DEF Replaces, VaultFor
\* Others' vaults are not changed: to add needs no vault, and to archive into it
\* is h's alone.
<1>6. ASSUME NEW g \in Handlers \ {h}, ArchivesKey(g)
      PROVE  vaults'[VaultFor(g)] = NoData
  <2>1. vaults[VaultFor(g)] = NoData
    BY <1>4, <1>6
  <2>2. CASE At(h, "archive") /\ ChangesTo(h, call[h].value)
    <3>1. call[h] # None /\ call[h].key \in Keys \cup Hosts
      BY <2>2 DEF At, Control, PlaceOK
    <3>2. VaultFor(h) # VaultFor(g)
      BY <1>2, <1>6, <2>2, <3>1, KeyVaults DEF OneArchiver, ArchivesKey, Archives, VaultFor
    <3> QED BY <2>1, <2>2, <3>2 DEF ChangesTo, TypeOK
  <2>3. CASE At(h, "add") /\ vaults[VaultFor(h)] = NoVault /\ ChangesTo(h, NoData)
    BY <2>1, <2>3, IpaAssumption DEF ChangesTo, TypeOK
  <2>4. ~At(h, "delete")
    BY <1>2 DEF At, Control, PlaceOK
  <2> QED BY <2>1, <2>2, <2>3, <2>4, VaultSteps
<1>7. ASSUME ArchivesKey(h)' PROVE vaults'[VaultFor(h)'] = NoData
  BY <1>5, <1>7 DEF ChangesTo, TypeOK
<1>8. ASSUME NEW g \in Handlers \ {h}, ArchivesKey(g)', ArchivesKey(h)'
      PROVE  VaultFor(g)' # VaultFor(h)'
  BY <1>3, <1>4, <1>5, <1>8, IpaAssumption
<1>9. ASSUME NEW f \in Handlers \ {h}, NEW g \in Handlers \ {h}, ArchivesKey(f)',
             ArchivesKey(g)', VaultFor(g)' = VaultFor(f)'
      PROVE  g = f
  BY <1>2, <1>3, <1>9 DEF OneArchiver
<1> QED BY <1>3, <1>6, <1>7, <1>8, <1>9

\* While nothing is deleted, a PUT never changes a secret that is there, under
\* whatever name it was stored (IPAVault.set()).
THEOREM StoredOnce == Spec => WrittenOnce
<1>1. Init => OneArchiver
  BY DEF Init, OneArchiver, ArchivesKey, Archives, At
<1>2. ASSUME TypeOK, Control, OneArchiver, [Next]_vars PROVE OneArchiver'
  <2>1. CASE UNCHANGED vars
    BY <1>2, <2>1 DEF vars, OneArchiver, ArchivesKey, Archives, At, VaultFor
  <2>2. CASE Next
    BY <1>2, <2>2, OneArchiverStep DEF Next, AnyStep
  <2> QED BY <1>2, <2>1, <2>2
<1>3. ASSUME TypeOK, Control, OneArchiver, [Next]_vars
      PROVE  [\A k \in Keys : "cut" \notin scenario.operations /\ ~IsEmpty(VaultOf[k]) =>
                vaults'[VaultOf[k]] = vaults[VaultOf[k]]]_vars
  <2>1. SUFFICES ASSUME Next, NEW k \in Keys, "cut" \notin scenario.operations,
                        ~IsEmpty(VaultOf[k])
                 PROVE  vaults'[VaultOf[k]] = vaults[VaultOf[k]]
    BY <1>3
  <2>2. PICK h \in Handlers : AnyStep(h)
    BY <2>1 DEF Next, AnyStep
  <2>3. CASE At(h, "add") /\ vaults[VaultFor(h)] = NoVault /\ ChangesTo(h, NoData)
    BY <1>3, <2>1, <2>3 DEF ChangesTo, IsEmpty, TypeOK
  <2>4. CASE At(h, "archive") /\ ChangesTo(h, call[h].value)
    <3>1. call[h] # None /\ call[h].key \in Keys \cup Hosts
      BY <1>3, <2>4 DEF At, Control, PlaceOK
    <3>2. VaultFor(h) # VaultOf[k]
      BY <1>3, <2>1, <2>4, <3>1, KeyVaults
      DEF OneArchiver, ArchivesKey, Archives, VaultFor, IsEmpty
    <3> QED BY <1>3, <2>4, <3>2 DEF ChangesTo, TypeOK
  <2>5. ~At(h, "delete")
    BY <1>3, <2>1 DEF At, Control, PlaceOK
  <2> QED BY <2>2, <2>3, <2>4, <2>5, VaultSteps
<1> QED BY <1>1, <1>2, <1>3, IpaTypeCorrect, PTL DEF Spec, WrittenOnce

\* While nothing fails and nobody is killed, a vault without data has a child
\* that is about to archive it (vault_add and vault_archive of IPAVault.set()).
THEOREM NothingHalfMade == Spec => []HalfMade
<1>1. Init => HalfMade
  BY IpaAssumption DEF Init, HalfMade
<1>2. ASSUME TypeOK, Control, HalfMade, [Next]_vars PROVE HalfMade'
  <2>1. CASE UNCHANGED vars
    BY <1>2, <2>1 DEF vars, HalfMade, Quiet, At, VaultFor
  <2>2. ASSUME NEW h \in Handlers, AnyStep(h) PROVE HalfMade'
    <3>1. Moved(h) /\ Sound
      BY <1>2, <2>2, EveryStep
    <3>2. SUFFICES ASSUME Quiet, NEW v \in Vaults, vaults'[v] = NoData
                   PROVE  \E g \in Handlers : At(g, "archive")' /\ VaultFor(g)' = v
      BY <3>1 DEF HalfMade, Quiet, Sound
    <3>3. ~Raises(h) /\ ~Kill(h)
      BY <3>2 DEF Quiet, Raises, Kill
    <3>4. CASE vaults[v] = NoData /\ ~(At(h, "archive") /\ VaultFor(h) = v)
      <4>1. PICK g \in Handlers : At(g, "archive") /\ VaultFor(g) = v
        BY <1>2, <3>2, <3>4 DEF HalfMade
      <4> QED BY <3>1, <3>4, <4>1 DEF Moved, Alone, At, VaultFor
    <3>5. CASE At(h, "archive") /\ VaultFor(h) = v
      <4>1. Archive(h) /\ call[h].value \in Data
        BY <1>2, <2>2, <3>3, <3>5
        DEF AnyStep, Begin, Retrieve, Request, Add, Find, Revoke, Delete, Reply, At,
            Control, PlaceOK
      <4>2. vaults'[v] # NoData
        BY <1>2, <3>3, <3>5, <4>1, IpaAssumption DEF Archive, TypeOK, Data
      <4> QED BY <3>2, <4>2
    <3>6. CASE vaults[v] # NoData /\ ~(At(h, "archive") /\ VaultFor(h) = v)
      <4>1. /\ At(h, "add") /\ vaults[VaultFor(h)] = NoVault /\ ChangesTo(h, NoData)
            /\ VaultFor(h) = v
        BY <1>2, <2>2, <3>2, <3>6, VaultSteps, IpaAssumption DEF ChangesTo, TypeOK
      <4>2. Goto(h, "archive") /\ call[h] # None
        BY <1>2, <2>2, <3>3, <4>1
        DEF AnyStep, Begin, Retrieve, Request, Add, Archive, Find, Revoke, Delete, Reply, At
      <4>3. call'[h] = [call[h] EXCEPT !.at = "archive"] /\ call[h] \in Calls
        BY <1>2, <4>2, GoesTo DEF Steps
      <4>4. call'[h].key = call[h].key /\ call'[h].at = "archive"
        BY <4>3 DEF Calls
      <4>5. call'[h] # None
        BY <1>2, <4>2, <4>3, CallsAssumption DEF Calls, Steps
      <4> QED BY <4>1, <4>4, <4>5 DEF At, VaultFor
    <3> QED BY <3>4, <3>5, <3>6
  <2> QED BY <1>2, <2>1, <2>2 DEF Next, AnyStep
<1> QED BY <1>1, <1>2, IpaTypeCorrect, PTL DEF Spec

--------------------------------------------------------------------------------
(***************************************************************************)
(* Certificates that are requested by mistake.  Each one can be charged to *)
(* a child of its own: while nothing is cached for the host, the child     *)
(* that requested it and still has it; afterwards, a child that can no     *)
(* longer request one.                                                     *)
(***************************************************************************)

\* c is a GET of a certificate for host that has come to one of the steps.
Gets(c, host, steps) == c # None /\ c.op = "get" /\ c.key = host /\ c.at \in steps

Holds(c, host) == Gets(c, host, {"add", "archive"})

Asks(c, host) == Gets(c, host, {"request"})

Held(host) ==
  \A s \in IssuedFor(host) : \E h \in Handlers : Holds(call[h], host) /\ call[h].value = s

\* Charges f are to different children, and to none that is about to request.
ChargedBy(f, host) ==
  /\ \A r, s \in IssuedFor(host) : f[r] = f[s] => r = s
  /\ \A s \in IssuedFor(host) : ~Asks(call[f[s]], host)

Charged(host) == \E f \in [IssuedFor(host) -> Handlers] : ChargedBy(f, host)

NothingDeleted == Quiet /\ "cut" \notin scenario.operations

Bounding ==
  NothingDeleted =>
    /\ \A h \in Handlers : At(h, "archive") => vaults[VaultFor(h)] # NoVault
    /\ \A host \in Hosts :
         /\ IsEmpty(VaultOf[host]) => Held(host)
         /\ Charged(host)

\* Children that hold different certificates are different children.
LEMMA HeldIsCharged ==
  ASSUME NEW host \in Hosts, Held(host)
  PROVE  Charged(host)
<1> DEFINE holder(s) == CHOOSE h \in Handlers : Holds(call[h], host) /\ call[h].value = s
           f == [s \in IssuedFor(host) |-> holder(s)]
<1>1. ASSUME NEW s \in IssuedFor(host)
      PROVE  /\ f[s] \in Handlers /\ Holds(call[f[s]], host) /\ call[f[s]].value = s
  BY <1>1 DEF Held
<1>2. f \in [IssuedFor(host) -> Handlers]
  BY <1>1
<1> HIDE DEF f
<1>3. ChargedBy(f, host)
  BY <1>1 DEF ChargedBy, Holds, Asks, Gets
<1> QED BY <1>2, <1>3 DEF Charged

LEMMA ChargedIsBounded ==
  ASSUME NEW host \in Hosts, Charged(host)
  PROVE  Cardinality(IssuedFor(host)) <= Cardinality(Handlers)
<1>1. PICK f \in [IssuedFor(host) -> Handlers] : ChargedBy(f, host)
  BY DEF Charged
<1>2. f \in Injection(IssuedFor(host), Handlers)
  BY <1>1 DEF ChargedBy, Injection, IsInjective
<1> QED BY <1>2, HandlersAssumption, FS_Injection

\* What a step of child h that issues no certificate does for a host, when
\* nothing is deleted: a vault is not emptied; h keeps the certificate that it
\* holds until something is cached; and only who finds nothing cached goes on to
\* request one.
Keeps(h, host) ==
  LET vault == VaultOf[host] IN
  /\ IsEmpty(vault)' => IsEmpty(vault)
  /\ Holds(call[h], host) /\ IsEmpty(vault)' =>
       Holds(call'[h], host) /\ call'[h].value = call[h].value
  /\ Asks(call'[h], host) => Asks(call[h], host) \/ IsEmpty(vault)'

\* A step of child h that is issued certificate s.
IssuedTo(h, s) ==
  /\ call[h] # None /\ call[h].at = "request" /\ issued[s] = None
  /\ issued' = [issued EXCEPT ![s] = call[h].key]
  /\ call' = [call EXCEPT ![h].at = "add", ![h].value = s]
  /\ UNCHANGED <<vaults, revoked, scenario>>

\* Without deletions vaults stay, and so does what is in them.
LEMMA NotEmptied ==
  ASSUME TypeOK, Control, NothingDeleted, NEW h \in Handlers, AnyStep(h), NEW v \in Vaults
  PROVE  /\ vaults[v] # NoVault => vaults'[v] # NoVault
         /\ IsEmpty(v)' => IsEmpty(v)
<1>1. ~At(h, "delete")
  BY DEF NothingDeleted, At, Control, PlaceOK
<1>2. CASE At(h, "add") /\ vaults[VaultFor(h)] = NoVault /\ ChangesTo(h, NoData)
  BY <1>2, IpaAssumption DEF ChangesTo, IsEmpty, TypeOK
<1>3. CASE At(h, "archive") /\ ChangesTo(h, call[h].value)
  <2>1. call[h].value \in Data
    BY <1>3 DEF At, Control, PlaceOK
  <2> QED BY <1>3, <2>1, IpaAssumption DEF ChangesTo, IsEmpty, TypeOK, Data
<1>4. CASE UNCHANGED vaults
  BY <1>4 DEF IsEmpty
<1> QED BY <1>1, <1>2, <1>3, <1>4, VaultSteps

\* A call that does not go on to request, and holds nothing, keeps everything.
LEMMA KeepsIfIdle ==
  ASSUME TypeOK, Control, NothingDeleted, NEW h \in Handlers, AnyStep(h), NEW host \in Hosts,
         ~Holds(call[h], host), ~Asks(call'[h], host)
  PROVE  Keeps(h, host)
<1>1. VaultOf[host] \in Vaults
  BY DEF Vaults
<1> QED BY <1>1, NotEmptied DEF Keeps

LEMMA ReturnAsksNothing ==
  ASSUME TypeOK, NEW h \in Handlers, call[h] # None, NEW host \in Hosts,
         NEW result \in Results, Return(h, result)
  PROVE  ~Asks(call'[h], host)
<1>1. call'[h] = [call[h] EXCEPT !.at = "done", !.result = result] /\ call[h] \in Calls
  BY Returns
<1> QED BY <1>1 DEF Asks, Gets, Calls

LEMMA BeginKeeps ==
  ASSUME TypeOK, Control, NothingDeleted, NEW h \in Handlers, Begin(h), NEW host \in Hosts
  PROVE  Keeps(h, host)
<1>1. call'[h].at \in {"done", "retrieve", "add", "find", "delete"}
  BY IpaAssumption DEF Begin, FirstStep, TypeOK, Operations
<1>2. ~Holds(call[h], host) /\ ~Asks(call'[h], host)
  BY <1>1 DEF Begin, Holds, Asks, Gets
<1> QED BY <1>2, KeepsIfIdle DEF AnyStep

LEMMA RetrieveKeeps ==
  ASSUME TypeOK, Control, NothingDeleted, NEW h \in Handlers, Retrieve(h), NEW host \in Hosts
  PROVE  Keeps(h, host)
<1>1. /\ call[h] # None /\ PlaceOK(call[h], scenario, issued) /\ call[h].at = "retrieve"
      /\ UNCHANGED <<vaults, issued, revoked, scenario>> /\ call[h] \in Calls
  BY DEF Retrieve, At, Control, TypeOK
<1>2. ~Holds(call[h], host) /\ ~Raises(h)
  BY <1>1 DEF Holds, Gets, NothingDeleted, Quiet, Raises
<1>3. CASE ~IsEmpty(VaultFor(h)) /\ Return(h, vaults[VaultFor(h)])
  <2>1. vaults[VaultFor(h)] \in Results
    BY <1>1, <1>3, VaultOfCall DEF IsEmpty, PlaceOK, TypeOK, Results
  <2> QED BY <1>1, <1>2, <1>3, <2>1, ReturnAsksNothing, KeepsIfIdle DEF AnyStep
<1>4. CASE Return(h, "none")
  <2>1. ~Asks(call'[h], host)
    BY <1>1, <1>4, ReturnAsksNothing DEF Results
  <2> QED BY <1>2, <2>1, KeepsIfIdle DEF AnyStep
<1>5. CASE IsEmpty(VaultFor(h)) /\ Goto(h, "request")
  <2>1. call'[h] = [call[h] EXCEPT !.at = "request"]
    BY <1>1, <1>5, GoesTo DEF Steps
  <2>2. Asks(call'[h], host) => call[h].key = host
    BY <1>1, <2>1 DEF Asks, Gets, Calls
  <2>3. Asks(call'[h], host) => IsEmpty(VaultOf[host])'
    BY <1>1, <1>5, <2>2 DEF VaultFor, IsEmpty
  <2> QED BY <1>1, <1>2, <2>3 DEF Keeps, IsEmpty
<1> QED BY <1>2, <1>3, <1>4, <1>5 DEF Retrieve

LEMMA RequestKeeps ==
  ASSUME TypeOK, Control, NothingDeleted, NEW h \in Handlers, Request(h)
  PROVE  \/ \E s \in Serials : IssuedTo(h, s)
         \/ UNCHANGED issued /\ \A host \in Hosts : Keeps(h, host)
<1>1. /\ call[h] # None /\ call[h].at = "request" /\ ~Raises(h)
      /\ UNCHANGED <<vaults, revoked, scenario>>
  BY DEF Request, At, NothingDeleted, Quiet, Raises
<1>2. ASSUME Return(h, "denied"), UNCHANGED issued, NEW host \in Hosts
      PROVE  Keeps(h, host)
  <2>1. ~Holds(call[h], host) /\ ~Asks(call'[h], host)
    BY <1>1, <1>2, ReturnAsksNothing DEF Holds, Gets, Results
  <2> QED BY <2>1, KeepsIfIdle DEF AnyStep
<1> QED BY <1>1, <1>2 DEF Request, IssuedTo

LEMMA AddKeeps ==
  ASSUME TypeOK, Control, NothingDeleted, NEW h \in Handlers, Add(h), NEW host \in Hosts
  PROVE  Keeps(h, host)
<1>1. /\ call[h] # None /\ call[h].at = "add" /\ ~Raises(h) /\ call[h] \in Calls
      /\ VaultOf[host] \in Vaults
  BY DEF Add, At, NothingDeleted, Quiet, Raises, TypeOK, Vaults
<1>2. CASE ~Replaces(h) /\ Return(h, "exists")
  <2>1. ~Holds(call[h], host) /\ ~Asks(call'[h], host)
    BY <1>1, <1>2, ReturnAsksNothing DEF Holds, Gets, Replaces, Results
  <2> QED BY <2>1, KeepsIfIdle DEF AnyStep
<1>3. CASE Goto(h, "archive")
  <2>1. call'[h] = [call[h] EXCEPT !.at = "archive"] /\ call'[h] \in Calls \cup {None}
    BY <1>1, <1>3, GoesTo DEF Steps
  <2>2. call'[h] \in Calls
    BY <1>1, <2>1 DEF Calls, Steps
  <2>3. Holds(call[h], host) => Holds(call'[h], host) /\ call'[h].value = call[h].value
    BY <1>1, <2>1, <2>2, CallsAssumption DEF Holds, Gets, Calls
  <2>4. ~Asks(call'[h], host)
    BY <1>1, <2>1 DEF Asks, Gets, Calls
  <2> QED BY <1>1, <2>3, <2>4, NotEmptied DEF Keeps, AnyStep
<1> QED BY <1>1, <1>2, <1>3 DEF Add

LEMMA ArchiveKeeps ==
  ASSUME TypeOK, Control, NothingDeleted, NEW h \in Handlers, Archive(h), NEW host \in Hosts,
         vaults[VaultFor(h)] # NoVault
  PROVE  Keeps(h, host)
<1>1. /\ call[h] # None /\ call[h].at = "archive" /\ ~Raises(h) /\ call[h].value \in Data
      /\ VaultOf[host] \in Vaults
  BY DEF Archive, At, NothingDeleted, Quiet, Raises, Control, PlaceOK, Vaults
<1>2. /\ vaults' = [vaults EXCEPT ![VaultFor(h)] = call[h].value]
      /\ Return(h, IF call[h].op = "get" THEN call[h].value ELSE "done")
  BY <1>1 DEF Archive
<1>3. ~Asks(call'[h], host)
  BY <1>1, <1>2, ReturnAsksNothing DEF Results
\* Its certificate is cached, and need not be held any longer.
<1>4. Holds(call[h], host) => ~IsEmpty(VaultOf[host])'
  <2>1. Holds(call[h], host) => VaultFor(h) = VaultOf[host]
    BY DEF Holds, Gets, VaultFor
  <2> QED BY <1>1, <1>2, <2>1, IpaAssumption DEF IsEmpty, TypeOK, Data
<1> QED BY <1>1, <1>3, <1>4, NotEmptied DEF Keeps, AnyStep

LEMMA QuietStep ==
  ASSUME TypeOK, Control, NothingDeleted, NEW h \in Handlers, AnyStep(h),
         At(h, "archive") => vaults[VaultFor(h)] # NoVault
  PROVE  \/ \E s \in Serials : IssuedTo(h, s)
         \/ UNCHANGED issued /\ \A host \in Hosts : Keeps(h, host)
<1>1. ~At(h, "find") /\ ~At(h, "revoke") /\ ~At(h, "delete")
  BY DEF NothingDeleted, At, Control, PlaceOK
<1>2. CASE Request(h)
  BY <1>2, RequestKeeps
<1>3. CASE Begin(h) \/ Retrieve(h) \/ Add(h) \/ Archive(h)
  <2>1. UNCHANGED issued
    BY <1>3 DEF Begin, Retrieve, Add, Archive
  <2>2. ASSUME NEW host \in Hosts PROVE Keeps(h, host)
    BY <1>3, BeginKeeps, RetrieveKeeps, AddKeeps, ArchiveKeeps DEF Archive
  <2> QED BY <2>1, <2>2
<1>4. CASE Reply(h)
  <2>1. UNCHANGED issued
    BY <1>4 DEF Reply
  <2>2. ASSUME NEW host \in Hosts PROVE Keeps(h, host)
    <3>1. ~Holds(call[h], host) /\ ~Asks(call'[h], host)
      BY <1>4 DEF Reply, At, Holds, Asks, Gets, TypeOK
    <3> QED BY <1>4, <3>1, KeepsIfIdle DEF AnyStep
  <2> QED BY <2>1, <2>2
<1>5. ~Kill(h)
  BY DEF NothingDeleted, Quiet, Kill
<1> QED BY <1>1, <1>2, <1>3, <1>4, <1>5 DEF AnyStep, Find, Revoke, Delete

\* A certificate that was just issued is held, and can be charged to its child,
\* which asked for it and so was not charged yet.
LEMMA IssuedIsCharged ==
  ASSUME TypeOK, NEW h \in Handlers, NEW s \in Serials, IssuedTo(h, s), Alone(h),
         NEW host \in Hosts, PlaceOK(call[h], scenario, issued)
  PROVE  /\ Held(host) => Held(host)'
         /\ Charged(host) => Charged(host)'
<1>1. call'[h] = [call[h] EXCEPT !.at = "add", !.value = s] /\ call[h] \in Calls
  BY DEF IssuedTo, TypeOK, Calls
<1>2. /\ call'[h].at = "add" /\ call'[h].key = call[h].key /\ call'[h].op = call[h].op
      /\ call'[h].value = s /\ call'[h] \in Calls /\ call[h].op = "get"
      /\ call[h].key \in Hosts
  <2>1. call[h].at = "request" /\ call[h].op = "get" /\ call[h].key \in Hosts
    BY DEF PlaceOK, IssuedTo
  <2>2. call'[h] \in Calls
    BY <1>1 DEF Calls, Steps, Data
  <2> QED BY <1>1, <2>1, <2>2 DEF Calls
<1>3. ~Asks(call'[h], host) /\ ~Holds(call[h], host)
  BY <1>2 DEF Asks, Holds, Gets, IssuedTo
<1>4. ASSUME NEW g \in Handlers \ {h} PROVE call'[g] = call[g]
  BY DEF Alone
<1>5. CASE call[h].key # host
  <2>1. IssuedFor(host)' = IssuedFor(host)
    BY <1>5, IpaAssumption DEF IssuedFor, IssuedTo, TypeOK
  <2>2. Held(host) => Held(host)'
    BY <1>3, <1>4, <2>1 DEF Held
  <2>3. ASSUME NEW f \in [IssuedFor(host) -> Handlers], ChargedBy(f, host)
        PROVE  Charged(host)'
    BY <1>3, <1>4, <2>1, <2>3 DEF ChargedBy, Charged
  <2> QED BY <2>2, <2>3 DEF Charged
<1>6. CASE call[h].key = host
  <2>1. IssuedFor(host)' = IssuedFor(host) \cup {s} /\ s \notin IssuedFor(host)
    BY <1>6, IpaAssumption DEF IssuedFor, IssuedTo, TypeOK
  <2>2. Holds(call'[h], host)
    BY <1>2, <1>6, CallsAssumption DEF Holds, Gets
  <2>3. Held(host) => Held(host)'
    BY <1>2, <1>3, <1>4, <2>1, <2>2 DEF Held
  <2>4. Asks(call[h], host)
    BY <1>2, <1>6 DEF Asks, Gets, IssuedTo
  <2>5. ASSUME NEW f \in [IssuedFor(host) -> Handlers], ChargedBy(f, host)
        PROVE  Charged(host)'
    <3> DEFINE e == [r \in IssuedFor(host) \cup {s} |-> IF r = s THEN h ELSE f[r]]
    <3>1. e \in [IssuedFor(host)' -> Handlers]
      BY <2>1
    <3>2. ASSUME NEW r \in IssuedFor(host) PROVE e[r] = f[r] /\ f[r] # h
      BY <2>1, <2>4, <2>5, <3>2 DEF ChargedBy
    <3>3. e[s] = h
      OBVIOUS
    <3> HIDE DEF e
    <3>4. ASSUME NEW r \in IssuedFor(host)' PROVE ~Asks(call'[e[r]], host)
      BY <1>3, <1>4, <2>1, <2>5, <3>2, <3>3, <3>4 DEF ChargedBy
    <3>5. ASSUME NEW q \in IssuedFor(host)', NEW r \in IssuedFor(host)', e[q] = e[r]
          PROVE  q = r
      BY <2>1, <2>5, <3>2, <3>3, <3>5 DEF ChargedBy
    <3>6. /\ \A q, r \in IssuedFor(host)' : e[q] = e[r] => q = r
          /\ \A r \in IssuedFor(host)' : ~Asks(call'[e[r]], host)
      BY <3>4, <3>5
    <3> QED BY <3>1, <3>6 DEF Charged, ChargedBy
  <2> QED BY <2>3, <2>5 DEF Charged
<1> QED BY <1>5, <1>6

\* When nothing new is issued, charges stay unless the vault stays empty; then
\* all certificates are still held.
LEMMA KeptIsCharged ==
  ASSUME NEW h \in Handlers, UNCHANGED issued, Alone(h), NEW host \in Hosts, Keeps(h, host),
         IsEmpty(VaultOf[host]) => Held(host), Charged(host)
  PROVE  /\ IsEmpty(VaultOf[host])' => Held(host)'
         /\ ~IsEmpty(VaultOf[host])' => Charged(host)'
<1>1. IssuedFor(host)' = IssuedFor(host)
  BY DEF IssuedFor
<1>2. ASSUME NEW g \in Handlers \ {h} PROVE call'[g] = call[g]
  BY DEF Alone
<1>3. ASSUME IsEmpty(VaultOf[host])' PROVE Held(host)'
  <2>1. Held(host)
    BY <1>3 DEF Keeps
  <2>2. Holds(call[h], host) => Holds(call'[h], host) /\ call'[h].value = call[h].value
    BY <1>3 DEF Keeps
  <2> QED BY <1>1, <1>2, <2>1, <2>2 DEF Held
<1>4. ASSUME ~IsEmpty(VaultOf[host])' PROVE Charged(host)'
  <2>1. PICK f \in [IssuedFor(host) -> Handlers] : ChargedBy(f, host)
    BY DEF Charged
  <2>2. Asks(call'[h], host) => Asks(call[h], host)
    BY <1>4 DEF Keeps
  <2>3. \A s \in IssuedFor(host) : ~Asks(call'[f[s]], host)
    BY <1>2, <2>1, <2>2 DEF ChargedBy
  <2> QED BY <1>1, <2>1, <2>3 DEF ChargedBy, Charged
<1> QED BY <1>3, <1>4

LEMMA BoundingStep ==
  ASSUME TypeOK, Control, Bounding, NEW h \in Handlers, AnyStep(h)
  PROVE  Bounding'
<1>1. Moved(h) /\ Sound
  BY EveryStep
<1>2. NothingDeleted' = NothingDeleted
  BY <1>1 DEF NothingDeleted, Quiet, Sound
<1>3. SUFFICES ASSUME NothingDeleted
               PROVE  /\ \A g \in Handlers : At(g, "archive")' => vaults'[VaultFor(g)'] # NoVault
                      /\ \A host \in Hosts :
                           /\ IsEmpty(VaultOf[host])' => Held(host)'
                           /\ Charged(host)'
  BY <1>2 DEF Bounding
<1>4. /\ \A g \in Handlers : At(g, "archive") => vaults[VaultFor(g)] # NoVault
      /\ \A host \in Hosts : (IsEmpty(VaultOf[host]) => Held(host)) /\ Charged(host)
  BY <1>3 DEF Bounding
<1>5. ASSUME NEW g \in Handlers, At(g, "archive")' PROVE vaults'[VaultFor(g)'] # NoVault
  <2>1. CASE g # h
    <3>1. call'[g] = call[g] /\ At(g, "archive")
      BY <1>1, <1>5, <2>1 DEF Moved, Alone, At
    <3>2. VaultFor(g)' = VaultFor(g) /\ VaultFor(g) \in Vaults
      BY <3>1, VaultOfCall DEF VaultFor, At, Control, PlaceOK
    <3> QED BY <1>3, <1>4, <3>1, <3>2, NotEmptied
  <2>2. CASE g = h
    <3>1. /\ call[h] # None /\ call[h].at = "add" /\ call'[h].key = call[h].key
      BY <1>5, <2>2, ComesToArchive DEF Archives
    <3>2. VaultFor(h)' = VaultFor(h) /\ VaultFor(h) \in Vaults
      BY <3>1, VaultOfCall DEF VaultFor, Control, PlaceOK
    <3>3. Add(h)
      BY <1>3, <3>1 DEF AnyStep, Begin, Retrieve, Request, Archive, Find, Revoke, Delete,
                        Reply, Kill, At, NothingDeleted, Quiet
    <3>4. vaults'[VaultFor(h)] # NoVault
      BY <1>3, <3>2, <3>3, IpaAssumption DEF Add, TypeOK, NothingDeleted, Quiet, Raises
    <3> QED BY <2>2, <3>2, <3>4
  <2> QED BY <2>1, <2>2
<1>6. ASSUME NEW host \in Hosts
      PROVE  /\ IsEmpty(VaultOf[host])' => Held(host)'
             /\ Charged(host)'
  <2>1. CASE \E s \in Serials : IssuedTo(h, s)
    <3>1. PICK s \in Serials : IssuedTo(h, s)
      BY <2>1
    <3>2. PlaceOK(call[h], scenario, issued)
      BY <3>1 DEF IssuedTo, Control
    <3>3. IsEmpty(VaultOf[host])' = IsEmpty(VaultOf[host])
      BY <3>1 DEF IssuedTo, IsEmpty
    <3>4. (Held(host) => Held(host)') /\ (Charged(host) => Charged(host)')
      BY <1>1, <3>1, <3>2, IssuedIsCharged DEF Moved
    <3> QED BY <1>4, <3>3, <3>4
  <2>2. CASE UNCHANGED issued /\ \A g \in Hosts : Keeps(h, g)
    <3>1. /\ IsEmpty(VaultOf[host])' => Held(host)'
          /\ ~IsEmpty(VaultOf[host])' => Charged(host)'
      BY <1>1, <1>4, <2>2, KeptIsCharged DEF Moved
    <3>2. Held(host)' => Charged(host)'
      BY HeldIsCharged, PTL
    <3> QED BY <3>1, <3>2
  <2> QED BY <1>3, <1>4, <2>1, <2>2, QuietStep
<1> QED BY <1>5, <1>6

\* While nothing is deleted and nothing fails, no more certificates are issued
\* for a host than there are children (get() of IPACertRequest).
THEOREM RequestsAreBounded == Spec => []RequestsBounded
<1>1. Init => Bounding
  <2>1. SUFFICES ASSUME Init PROVE Bounding
    OBVIOUS
  <2>2. \A host \in Hosts : IssuedFor(host) = {}
    <3>1. \A host \in Hosts : None # host
      BY IpaAssumption
    <3> QED BY <2>1, <3>1 DEF Init, IssuedFor
  <2>3. \A host \in Hosts : Held(host)
    BY <2>2 DEF Held
  <2>4. \A host \in Hosts : Charged(host)
    BY <2>3, HeldIsCharged
  <2> QED BY <2>1, <2>3, <2>4 DEF Init, Bounding, At
<1>2. ASSUME TypeOK, Control, Bounding, [Next]_vars PROVE Bounding'
  <2>1. CASE UNCHANGED vars
    <3>1. \A host : IssuedFor(host)' = IssuedFor(host)
      BY <2>1 DEF vars, IssuedFor
    <3>2. \A host : Held(host)' = Held(host)
      BY <2>1, <3>1 DEF vars, Held
    <3>3. \A host : Charged(host)' = Charged(host)
      BY <2>1, <3>1 DEF vars, Charged, ChargedBy
    <3> QED BY <1>2, <2>1, <3>2, <3>3
            DEF vars, Bounding, NothingDeleted, Quiet, At, VaultFor, IsEmpty
  <2>2. CASE Next
    BY <1>2, <2>2, BoundingStep DEF Next, AnyStep
  <2> QED BY <1>2, <2>1, <2>2
<1>3. Bounding => RequestsBounded
  BY ChargedIsBounded DEF Bounding, NothingDeleted, RequestsBounded
<1> QED BY <1>1, <1>2, <1>3, IpaTypeCorrect, PTL DEF Spec

=================================================================================
