----------------------------- MODULE Overlay_proofs -----------------------------
(***************************************************************************)
(* What is proved of the encrypted overlay: for any children, keys,        *)
(* secrets and deployments.                                                *)
(***************************************************************************)
EXTENDS Overlay, TLAPS

--------------------------------------------------------------------------------
(***************************************************************************)
(* Types.  A child that has read a secret is in a get() that goes on.      *)
(***************************************************************************)

Migrating ==
  \A h \in Handlers : read[h] # None =>
    /\ protection = "migrate" /\ read[h].pin = None
    /\ call[h] # None /\ call[h].kind = "get" /\ call[h].result = "pending"

\* SQL has no NULL for a ciphertext.
NoNulls == \A k \in Paths : rows[k] # Null

OverlayInv == OverlayTypeOK /\ Migrating /\ NoNulls

\* What one child does: its own call and what it has read change only.
Alone(h) ==
  \A g \in Handlers \ {h} : call'[g] = call[g] /\ read'[g] = read[g]

Steps(h) ==
  Begin(h) \/ Read(h) \/ WriteBack(h) \/ Set(h) \/ Span(h) \/ Cut(h) \/ Fault(h) \/ Return(h)

\* A child gets the result of its call.
LEMMA GetsResult ==
  ASSUME OverlayTypeOK, NEW h \in Handlers, call[h] # None,
         NEW result \in Results, Result(h, result)
  PROVE  /\ call[h] \in Calls /\ call' \in [Handlers -> Calls \cup {None}]
         /\ call'[h] = [call[h] EXCEPT !.result = result] /\ call'[h] \in Calls
         /\ \A g \in Handlers \ {h} : call'[g] = call[g]
<1>1. call[h] \in Calls
  BY DEF OverlayTypeOK
<1>2. [call[h] EXCEPT !.result = result] \in Calls
  BY <1>1 DEF Calls
<1>3. call' = [call EXCEPT ![h] = [call[h] EXCEPT !.result = result]]
  BY DEF Result
<1> QED BY <1>1, <1>2, <1>3 DEF OverlayTypeOK

\* Decryption gives back what was encrypted, and a pin is the key it is for.
LEMMA EncryptedTypes ==
  ASSUME NEW secret \in Secrets, NEW key \in Paths, NEW origin \in Paths
  PROVE  /\ Encrypted(secret, key, origin) \in Ciphertexts
         /\ Encrypted(secret, key, origin).secret = secret
         /\ Encrypted(secret, key, origin).origin = origin
         /\ Encrypted(secret, key, origin).pin \in {None, key}
  BY DEF Encrypted, Ciphertexts

\* The rest of the state of a step of child h.
StepOK(h) ==
  /\ rows' \in Table /\ NoNulls'
  /\ deployment' = deployment /\ protection' = protection
  /\ call' \in [Handlers -> Calls \cup {None}]
  /\ read' \in [Handlers -> Ciphertexts \cup {None}]
  /\ Alone(h)
  /\ read'[h] # None =>
       /\ protection = "migrate" /\ read'[h].pin = None
       /\ call'[h] # None /\ call'[h].kind = "get" /\ call'[h].result = "pending"

\* A value that is stored.
LEMMA StoredTypes ==
  ASSUME OverlayTypeOK, NoNulls, NEW k \in Paths,
         NEW value \in Ciphertexts \cup {Empty, Absent}, rows' = Stored(rows, k, value)
  PROVE  rows' \in Table /\ NoNulls'
  BY ValuesAssumption, OverlayAssumption DEF OverlayTypeOK, Table, Payloads, NoNulls, Stored

LEMMA BeginSteps ==
  ASSUME OverlayInv, NEW h \in Handlers, Begin(h)
  PROVE  StepOK(h)
<1>1. PICK kind \in {"get", "set", "span", "cut"}, k \in Paths, s \in Secrets :
        call' = [call EXCEPT ![h] = [kind |-> kind, key |-> k, secret |-> s,
                                     result |-> "pending"]]
  BY DEF Begin
<1>2. [kind |-> kind, key |-> k, secret |-> s, result |-> "pending"] \in Calls
  BY DEF Calls, Results
<1>3. call[h] = None /\ read[h] = None /\ UNCHANGED <<rows, deployment, protection, read>>
  BY DEF Begin, OverlayInv, Migrating
<1>4. call' \in [Handlers -> Calls \cup {None}] /\ Alone(h)
  BY <1>1, <1>2, <1>3 DEF OverlayInv, OverlayTypeOK, Alone
<1> QED BY <1>3, <1>4 DEF StepOK, OverlayInv, OverlayTypeOK, NoNulls

LEMMA ReadSteps ==
  ASSUME OverlayInv, NEW h \in Handlers, Read(h)
  PROVE  StepOK(h)
<1> DEFINE k == call[h].key
           c == rows[k]
<1>1. /\ call[h] # None /\ call[h].kind = "get" /\ call[h].result = "pending"
      /\ read[h] = None /\ UNCHANGED <<rows, deployment, protection>> /\ call[h] \in Calls
  BY DEF Read, Asked, OverlayInv, OverlayTypeOK
<1>2. rows' \in Table /\ NoNulls'
  BY <1>1 DEF OverlayInv, OverlayTypeOK, NoNulls
<1>3. ASSUME NEW result \in Results, Result(h, result), UNCHANGED read
      PROVE  StepOK(h)
  <2>1. /\ call' \in [Handlers -> Calls \cup {None}]
        /\ \A g \in Handlers \ {h} : call'[g] = call[g]
    BY <1>1, <1>3, GetsResult DEF OverlayInv
  <2> QED BY <1>1, <1>2, <1>3, <2>1 DEF StepOK, Alone, OverlayInv, OverlayTypeOK
<1>4. CASE c \in Ciphertexts /\ Migrates(c) /\ read' = [read EXCEPT ![h] = c] /\ UNCHANGED call
  BY <1>1, <1>2, <1>4 DEF StepOK, Alone, Migrates, OverlayInv, OverlayTypeOK
<1>5. CASE c \in Ciphertexts /\ Result(h, c.secret) /\ UNCHANGED read
  BY <1>3, <1>5 DEF Ciphertexts, Results
<1>6. CASE (Result(h, "none") \/ Result(h, "error")) /\ UNCHANGED read
  BY <1>3, <1>6 DEF Results
<1> QED BY <1>4, <1>5, <1>6 DEF Read

LEMMA WriteBackSteps ==
  ASSUME OverlayInv, NEW h \in Handlers, WriteBack(h)
  PROVE  StepOK(h)
<1>1. /\ call[h] # None /\ call[h] \in Calls /\ read[h] # None /\ read[h] \in Ciphertexts
      /\ UNCHANGED <<deployment, protection>> /\ read' = [read EXCEPT ![h] = None]
      /\ Result(h, read[h].secret)
      /\ rows' = Stored(rows, call[h].key,
                        Encrypted(read[h].secret, call[h].key, read[h].origin))
  BY DEF WriteBack, OverlayInv, OverlayTypeOK, Migrating
<1>2. call[h].key \in Paths /\ read[h].secret \in Secrets /\ read[h].origin \in Paths
  BY <1>1 DEF Calls, Ciphertexts
<1>3. rows' \in Table /\ NoNulls'
  BY <1>1, <1>2, EncryptedTypes, StoredTypes DEF OverlayInv
<1>4. /\ call' \in [Handlers -> Calls \cup {None}]
      /\ \A g \in Handlers \ {h} : call'[g] = call[g]
  BY <1>1, <1>2, GetsResult DEF OverlayInv, Results
<1> QED BY <1>1, <1>3, <1>4 DEF StepOK, Alone, OverlayInv, OverlayTypeOK

LEMMA InsertSteps ==
  ASSUME OverlayInv, NEW h \in Handlers, NEW kind, NEW value \in Ciphertexts \cup {Empty},
         Insert(h, kind, value)
  PROVE  StepOK(h)
<1>1. /\ call[h] # None /\ call[h] \in Calls /\ read[h] = None
      /\ UNCHANGED <<deployment, protection, read>>
  BY DEF Insert, Asked, OverlayInv, OverlayTypeOK
<1>2. call[h].key \in Paths
  BY <1>1 DEF Calls
<1>3. rows' \in Table /\ NoNulls'
  <2>1. CASE rows' = Stored(rows, call[h].key, value)
    BY <1>2, <2>1, StoredTypes DEF OverlayInv
  <2>2. CASE UNCHANGED rows
    BY <2>2 DEF OverlayInv, OverlayTypeOK, NoNulls
  <2> QED BY <2>1, <2>2 DEF Insert
<1>4. /\ call' \in [Handlers -> Calls \cup {None}]
      /\ \A g \in Handlers \ {h} : call'[g] = call[g]
  <2>1. PICK result \in {"done", "exists"} : Result(h, result)
    BY DEF Insert
  <2> QED BY <1>1, <2>1, GetsResult DEF OverlayInv, Results
<1> QED BY <1>1, <1>3, <1>4 DEF StepOK, Alone, OverlayInv, OverlayTypeOK

LEMMA CutSteps ==
  ASSUME OverlayInv, NEW h \in Handlers, Cut(h)
  PROVE  StepOK(h)
<1>1. /\ call[h] # None /\ call[h] \in Calls /\ read[h] = None
      /\ UNCHANGED <<deployment, protection, read>>
      /\ rows' = Stored(rows, call[h].key, Absent)
  BY DEF Cut, CutFrom, Stored, Asked, OverlayInv, OverlayTypeOK
<1>2. call[h].key \in Paths
  BY <1>1 DEF Calls
<1>3. rows' \in Table /\ NoNulls'
  BY <1>1, <1>2, StoredTypes DEF OverlayInv
<1>4. /\ call' \in [Handlers -> Calls \cup {None}]
      /\ \A g \in Handlers \ {h} : call'[g] = call[g]
  <2>1. PICK result \in {"done", "none"} : Result(h, result)
    BY DEF Cut
  <2> QED BY <1>1, <2>1, GetsResult DEF OverlayInv, Results
<1> QED BY <1>1, <1>3, <1>4 DEF StepOK, Alone, OverlayInv, OverlayTypeOK

LEMMA EndSteps ==
  ASSUME OverlayInv, NEW h \in Handlers, Fault(h) \/ Return(h)
  PROVE  StepOK(h)
<1>1. UNCHANGED <<rows, deployment, protection>> /\ rows' \in Table /\ NoNulls'
  BY DEF Fault, Return, OverlayInv, OverlayTypeOK, NoNulls
<1>2. CASE Fault(h)
  <2>1. /\ call' \in [Handlers -> Calls \cup {None}]
        /\ \A g \in Handlers \ {h} : call'[g] = call[g]
    BY <1>2, GetsResult DEF Fault, OverlayInv, Results
  <2> QED BY <1>1, <1>2, <2>1 DEF Fault, StepOK, Alone, OverlayInv, OverlayTypeOK
<1>3. CASE Return(h)
  <2>1. read[h] = None
    BY <1>3 DEF Return, OverlayInv, Migrating
  <2> QED BY <1>1, <1>3, <2>1 DEF Return, StepOK, Alone, OverlayInv, OverlayTypeOK
<1> QED BY <1>2, <1>3

LEMMA EveryStep ==
  ASSUME OverlayInv, NEW h \in Handlers, Steps(h)
  PROVE  StepOK(h)
<1>1. CASE Set(h)
  <2>1. call[h] \in Calls
    BY <1>1 DEF Set, Insert, Asked, OverlayInv, OverlayTypeOK
  <2>2. Encrypted(call[h].secret, call[h].key, call[h].key) \in Ciphertexts
    BY <2>1, EncryptedTypes DEF Calls
  <2> QED BY <1>1, <2>2, InsertSteps DEF Set
<1>2. CASE Span(h)
  BY <1>2, InsertSteps DEF Span
<1> QED BY <1>1, <1>2, BeginSteps, ReadSteps, WriteBackSteps, CutSteps, EndSteps DEF Steps

\* A restart forgets the calls, and an exchange keeps them.
LEMMA OutsideSteps ==
  ASSUME OverlayInv, Restart \/ Exchange
  PROVE  OverlayInv'
<1>1. CASE Restart
  BY <1>1 DEF Restart, OverlayInv, OverlayTypeOK, Migrating, NoNulls
<1>2. CASE Exchange
  <2>1. PICK k \in Paths, l \in Paths : rows' = [rows EXCEPT ![k] = rows[l], ![l] = rows[k]]
    BY <1>2 DEF Exchange
  <2>2. rows' \in Table /\ NoNulls'
    BY <2>1 DEF OverlayInv, OverlayTypeOK, Table, NoNulls
  <2> QED BY <1>2, <2>2 DEF Exchange, OverlayInv, OverlayTypeOK, Migrating
<1> QED BY <1>1, <1>2

\* Type correctness, and that only a get() under 'migrate' writes back.
THEOREM OverlayTypeCorrect == Spec => []OverlayTypeOK /\ []OverlayInv
<1>1. Init => OverlayInv
  BY ValuesAssumption
  DEF Init, OverlayInv, OverlayTypeOK, Migrating, NoNulls, NoRows, Table
<1>2. ASSUME OverlayInv, [Next]_vars PROVE OverlayInv'
  <2>1. CASE UNCHANGED vars
    BY <1>2, <2>1 DEF vars, OverlayInv, OverlayTypeOK, Migrating, NoNulls
  <2>2. ASSUME NEW h \in Handlers, Steps(h) PROVE OverlayInv'
    <3>1. StepOK(h)
      BY <1>2, <2>2, EveryStep
    <3>2. OverlayTypeOK' /\ NoNulls'
      BY <1>2, <3>1 DEF StepOK, OverlayInv, OverlayTypeOK
    <3>3. Migrating'
      BY <1>2, <3>1 DEF StepOK, Alone, OverlayInv, Migrating
    <3> QED BY <3>2, <3>3 DEF OverlayInv
  <2> QED BY <1>2, <2>1, <2>2, OutsideSteps DEF Next, Steps
<1>3. OverlayInv => OverlayTypeOK
  BY DEF OverlayInv
<1> QED BY <1>1, <1>2, <1>3, PTL DEF Spec

--------------------------------------------------------------------------------
(***************************************************************************)
(* Pins.  Without exchanges every row is that of its key, and a migration  *)
(* pins it to this key; with exchanges, but no migration, a pin is the key *)
(* the secret was set for, wherever its row is now.                        *)
(***************************************************************************)

HasMigration == "migrate" \in DOMAIN deployment

RowOK(c, k, migrated) == c.pin \in {None, c.origin} /\ (migrated => c.origin = k)

PinsOK ==
  PinsAreOriginal(deployment) =>
    /\ \A k \in Paths : rows[k] \in Ciphertexts => RowOK(rows[k], k, HasMigration)
    /\ \A h \in Handlers : read[h] # None => read[h].origin = call[h].key

\* A row that was stored for its key, or removed.
LEMMA PinsStored ==
  ASSUME OverlayInv, PinsOK, NEW k \in Paths, NEW value, rows' = Stored(rows, k, value),
         value \in Ciphertexts => value.pin \in {None, k} /\ value.origin = k,
         deployment' = deployment, NEW h \in Handlers, Alone(h),
         read'[h] = None
  PROVE  PinsOK'
<1>1. SUFFICES ASSUME PinsAreOriginal(deployment)
               PROVE  /\ \A l \in Paths : rows'[l] \in Ciphertexts => RowOK(rows'[l], l, HasMigration)
                      /\ \A g \in Handlers : read'[g] # None => read'[g].origin = call'[g].key
  BY DEF PinsOK, HasMigration
<1>2. ASSUME NEW l \in Paths, rows'[l] \in Ciphertexts PROVE RowOK(rows'[l], l, HasMigration)
  <2>1. CASE l = k
    <3>1. rows'[l] = value
      BY <2>1 DEF Stored, OverlayInv, OverlayTypeOK, Table
    <3> QED BY <1>2, <2>1, <3>1 DEF RowOK
  <2>2. CASE l # k
    <3>1. rows'[l] = rows[l]
      BY <2>2 DEF Stored, OverlayInv, OverlayTypeOK, Table
    <3> QED BY <1>1, <1>2, <3>1 DEF PinsOK
  <2> QED BY <2>1, <2>2
<1>3. ASSUME NEW g \in Handlers, read'[g] # None PROVE read'[g].origin = call'[g].key
  BY <1>1, <1>3 DEF PinsOK, Alone
<1> QED BY <1>2, <1>3

\* Rows that stay, and a child that reads nothing new.
LEMMA PinsKept ==
  ASSUME PinsOK, rows' = rows, deployment' = deployment, NEW h \in Handlers, Alone(h),
         read'[h] # None => (PinsAreOriginal(deployment) => read'[h].origin = call'[h].key)
  PROVE  PinsOK'
  BY DEF PinsOK, Alone, RowOK, HasMigration

LEMMA PinsStep ==
  ASSUME OverlayInv, PinsOK, NEW h \in Handlers, Steps(h)
  PROVE  PinsOK'
<1>1. StepOK(h)
  BY EveryStep
<1>2. deployment' = deployment /\ Alone(h)
  BY <1>1 DEF StepOK
<1>3. CASE Begin(h) \/ Fault(h) \/ Return(h)
  <2>1. rows' = rows /\ read'[h] = None
    BY <1>3 DEF Begin, Fault, Return, OverlayInv, OverlayTypeOK, Migrating
  <2> QED BY <1>2, <2>1, PinsKept
<1>4. CASE Read(h)
  <2>1. rows' = rows /\ read[h] = None /\ call[h] \in Calls
    BY <1>4 DEF Read, Asked, OverlayInv, OverlayTypeOK
  <2>2. CASE UNCHANGED read
    BY <1>2, <2>1, <2>2, PinsKept
  <2>3. CASE ~UNCHANGED read
    <3>1. /\ rows[call[h].key] \in Ciphertexts /\ read'[h] = rows[call[h].key]
          /\ UNCHANGED call /\ protection = "migrate"
      BY <1>4, <2>3 DEF Read, Migrates, OverlayInv, OverlayTypeOK
    <3>2. HasMigration
      BY <3>1 DEF HasMigration, OverlayInv, OverlayTypeOK
    <3>3. PinsAreOriginal(deployment) => read'[h].origin = call'[h].key
      BY <2>1, <3>1, <3>2 DEF PinsOK, RowOK, Calls
    <3> QED BY <1>2, <2>1, <3>3, PinsKept
  <2> QED BY <2>2, <2>3
<1>5. CASE WriteBack(h)
  <2>1. /\ call[h] \in Calls /\ read[h] \in Ciphertexts /\ read'[h] = None /\ read[h] # None
        /\ rows' = Stored(rows, call[h].key,
                          Encrypted(read[h].secret, call[h].key, read[h].origin))
    BY <1>5 DEF WriteBack, OverlayInv, OverlayTypeOK, Migrating
  <2>2. call[h].key \in Paths /\ read[h].secret \in Secrets /\ read[h].origin \in Paths
    BY <2>1 DEF Calls, Ciphertexts
  <2>3. CASE PinsAreOriginal(deployment)
    <3>1. read[h].origin = call[h].key
      BY <2>1, <2>3 DEF PinsOK
    <3> QED BY <1>2, <2>1, <2>2, <3>1, EncryptedTypes, PinsStored
  <2>4. CASE ~PinsAreOriginal(deployment)
    BY <1>2, <2>4 DEF PinsOK
  <2> QED BY <2>3, <2>4
<1>6. CASE Set(h) \/ Span(h) \/ Cut(h)
  <2>1. call[h] \in Calls /\ read[h] = None /\ UNCHANGED read
    BY <1>6 DEF Set, Span, Insert, Cut, Asked, OverlayInv, OverlayTypeOK
  <2>2. call[h].key \in Paths /\ call[h].secret \in Secrets
    BY <2>1 DEF Calls
  <2>3. CASE rows' = rows
    BY <1>2, <2>1, <2>3, PinsKept
  <2>4. ASSUME NEW value \in {Empty, Absent}, rows' = Stored(rows, call[h].key, value)
        PROVE  PinsOK'
    <3>1. value \notin Ciphertexts
      BY ValuesAssumption, OverlayAssumption
    <3> QED BY <1>2, <2>1, <2>2, <2>4, <3>1, PinsStored
  <2>5. CASE rows' = Stored(rows, call[h].key,
                            Encrypted(call[h].secret, call[h].key, call[h].key))
    BY <1>2, <2>1, <2>2, <2>5, EncryptedTypes, PinsStored
  <2> QED BY <1>6, <2>3, <2>4, <2>5 DEF Set, Span, Insert, Cut, CutFrom, Stored
<1> QED BY <1>3, <1>4, <1>5, <1>6 DEF Steps

\* An exchange carries pins along, and no server of the deployment migrates.
LEMMA PinsOutside ==
  ASSUME OverlayInv, PinsOK, Restart \/ Exchange
  PROVE  PinsOK'
<1>1. CASE Restart
  BY <1>1 DEF Restart, PinsOK, RowOK, HasMigration
<1>2. CASE Exchange
  <2>1. SUFFICES ASSUME PinsAreOriginal(deployment) PROVE PinsOK'
    BY <1>2 DEF Exchange, PinsOK
  <2>2. UNCHANGED <<deployment, protection, call, read>> /\ ~HasMigration
    BY <1>2, <2>1
    DEF Exchange, Happens, PinsAreOriginal, HasMigration, OverlayInv, OverlayTypeOK
  <2>3. PICK k \in Paths, l \in Paths : rows' = [rows EXCEPT ![k] = rows[l], ![l] = rows[k]]
    BY <1>2 DEF Exchange
  <2>4. \A p \in Paths : rows'[p] \in {rows[p], rows[k], rows[l]}
    BY <2>3 DEF OverlayInv, OverlayTypeOK, Table
  <2>5. \A p \in Paths : rows'[p] \in Ciphertexts => RowOK(rows'[p], p, HasMigration)
    BY <2>1, <2>2, <2>4 DEF PinsOK, RowOK
  <2> QED BY <2>1, <2>2, <2>5 DEF PinsOK, HasMigration
<1> QED BY <1>1, <1>2

\* Only a get() is answered with a secret.
LEMMA WhoHandsOut ==
  ASSUME OverlayInv, NEW h \in Handlers, HandsOut(h), [Next]_vars
  PROVE  Read(h) \/ WriteBack(h)
<1>1. /\ call[h] # None /\ call[h].result = "pending"
      /\ call'[h] # None /\ call'[h].result \in Secrets
      /\ {"none", "done", "exists", "error", "pending"} \cap Secrets = {}
  BY OverlayAssumption DEF HandsOut
<1>2. call'[h] # call[h]
  BY <1>1
<1>3. Steps(h)
  <2>1. ~UNCHANGED vars /\ ~Exchange
    BY <1>2 DEF vars, Exchange
  <2>2. ~Restart
    BY <1>1 DEF Restart
  <2>3. PICK g \in Handlers : Steps(g)
    BY <2>1, <2>2 DEF Next, Steps
  <2>4. Alone(g)
    BY <2>3, EveryStep DEF StepOK
  <2> QED BY <1>2, <2>3, <2>4 DEF Alone
<1>4. ASSUME NEW result \in {"none", "done", "exists", "error"}, Result(h, result)
      PROVE  FALSE
  <2>1. call'[h] = [call[h] EXCEPT !.result = result] /\ call[h] \in Calls
    BY <1>1, <1>4, GetsResult DEF OverlayInv, Results
  <2>2. call'[h].result = result
    BY <2>1 DEF Calls
  <2> QED BY <1>1, <2>2
<1>5. ~Begin(h) /\ ~Return(h)
  BY <1>1 DEF Begin, Return
<1> QED BY <1>3, <1>4, <1>5 DEF Steps, Set, Span, Insert, Cut, Fault

\* Under 'pinning' get() returns a secret only for the key it was set for (the
\* checks at the end of EncryptedOverlay.get()).
THEOREM PinningDetects == Spec => PinnedAnswers
<1>1. Init => PinsOK
  <2>1. ASSUME Init, NEW k \in Paths PROVE rows[k] \notin Ciphertexts
    BY <2>1, ValuesAssumption, OverlayAssumption DEF Init, NoRows
  <2> QED BY <2>1 DEF Init, PinsOK
<1>2. ASSUME OverlayInv, PinsOK, [Next]_vars PROVE PinsOK'
  <2>1. CASE UNCHANGED vars
    BY <1>2, <2>1 DEF vars, PinsOK, RowOK, HasMigration
  <2> QED BY <1>2, <2>1, PinsStep, PinsOutside DEF Next, Steps
<1>3. ASSUME OverlayInv, PinsOK, [Next]_vars
      PROVE  [PinsAreOriginal(deployment) /\ protection = "pinning" =>
                \A h \in Handlers :
                  HandsOut(h) => rows[call[h].key].origin = call[h].key]_vars
  <2>1. SUFFICES ASSUME PinsAreOriginal(deployment), protection = "pinning",
                        NEW h \in Handlers, HandsOut(h)
                 PROVE  rows[call[h].key].origin = call[h].key
    OBVIOUS
  <2>2. Read(h)
    BY <1>3, <2>1, WhoHandsOut DEF WriteBack, OverlayInv, Migrating
  <2>3. call[h] \in Calls /\ call[h].result = "pending"
    BY <1>3, <2>2 DEF Read, Asked, OverlayInv, OverlayTypeOK
  <2>4. ASSUME NEW result \in {"none", "error"}, Result(h, result) PROVE FALSE
    <3>1. call'[h] = [call[h] EXCEPT !.result = result]
      BY <1>3, <2>1, <2>4, GetsResult DEF OverlayInv, Results, HandsOut
    <3>2. call'[h].result = result
      BY <2>3, <3>1 DEF Calls
    <3> QED BY <2>1, <3>2, OverlayAssumption DEF HandsOut
  <2>5. /\ rows[call[h].key] \in Ciphertexts
        /\ ~Refuses(rows[call[h].key], call[h].key)
    BY <2>1, <2>2, <2>4 DEF Read, Migrates
  <2>6. call[h].key \in Paths
    BY <2>3 DEF Calls
  <2>7. RowOK(rows[call[h].key], call[h].key, HasMigration)
    BY <1>3, <2>1, <2>5, <2>6 DEF PinsOK
  <2> QED BY <2>1, <2>5, <2>7 DEF Refuses, RowOK
<1> QED BY <1>1, <1>2, <1>3, OverlayTypeCorrect, PTL DEF Spec, PinnedAnswers

--------------------------------------------------------------------------------
(***************************************************************************)
(* The overlay as a plain store.  While migrations are quiet, a secret     *)
(* that is being migrated is still the one in its row when it is written   *)
(* back: others may migrate the same secret, but nobody changes it.        *)
(***************************************************************************)

SameSecret(h) ==
  /\ rows[call[h].key] \in Ciphertexts
  /\ rows[call[h].key].secret = read[h].secret

KeptOK ==
  /\ \A h \in Handlers : call[h] # None => Happens(call[h].kind)
  /\ QuietMigration(deployment) => \A h \in Handlers : read[h] # None => SameSecret(h)

LEMMA HappensKept ==
  ASSUME OverlayInv, KeptOK, NEW h \in Handlers, Steps(h)
  PROVE  \A g \in Handlers : call'[g] # None => Happens(call'[g].kind)
<1>1. StepOK(h)
  BY EveryStep
<1>3. ASSUME NEW g \in Handlers \ {h}, call'[g] # None PROVE Happens(call'[g].kind)
  BY <1>1, <1>3 DEF StepOK, Alone, KeptOK
<1>4. ASSUME call'[h] # None PROVE Happens(call'[h].kind)
  <2>1. CASE Begin(h)
    BY <2>1 DEF Begin, OverlayInv, OverlayTypeOK
  <2>2. ASSUME NEW result \in Results, call[h] # None, Result(h, result)
        PROVE  Happens(call'[h].kind)
    <3>1. call[h] \in Calls /\ call'[h] = [call[h] EXCEPT !.result = result]
      BY <2>2, GetsResult DEF OverlayInv
    <3>2. call'[h].kind = call[h].kind
      BY <3>1 DEF Calls
    <3> QED BY <2>2, <3>2 DEF KeptOK
  <2>3. CASE Read(h)
    <3>1. call[h] # None
      BY <2>3 DEF Read, Asked
    <3>2. CASE UNCHANGED call
      BY <3>1, <3>2 DEF KeptOK
    <3>3. CASE rows[call[h].key] \in Ciphertexts /\ Result(h, rows[call[h].key].secret)
      BY <2>2, <3>1, <3>3 DEF Ciphertexts, Results
    <3>4. CASE Result(h, "none") \/ Result(h, "error")
      BY <2>2, <3>1, <3>4 DEF Results
    <3> QED BY <2>3, <3>2, <3>3, <3>4 DEF Read
  <2>4. CASE WriteBack(h)
    BY <2>2, <2>4 DEF WriteBack, OverlayInv, OverlayTypeOK, Migrating, Ciphertexts, Results
  <2>5. CASE Set(h) \/ Span(h) \/ Cut(h) \/ Fault(h)
    <3>1. /\ call[h] # None
          /\ \E result \in {"done", "none", "exists", "error"} : Result(h, result)
      BY <2>5 DEF Set, Span, Insert, Cut, Asked, Fault
    <3> QED BY <2>2, <3>1 DEF Results
  <2>6. ~Return(h)
    BY <1>4 DEF Return, OverlayInv, OverlayTypeOK
  <2> QED BY <2>1, <2>3, <2>4, <2>5, <2>6 DEF Steps
<1> QED BY <1>3, <1>4

\* A row that shows a secret shows it after any step under a quiet 'migrate'.
LEMMA SecretsStay ==
  ASSUME OverlayInv, KeptOK, NEW h \in Handlers, Steps(h), QuietMigration(deployment),
         protection = "migrate", NEW k \in Paths, rows[k] \in Ciphertexts
  PROVE  rows'[k] \in Ciphertexts /\ rows'[k].secret = rows[k].secret
<1>1. ~Cut(h)
  BY DEF Cut, Asked, KeptOK, Happens, QuietMigration, OverlayInv, OverlayTypeOK
<1>2. CASE UNCHANGED rows
  BY <1>2
<1>3. CASE WriteBack(h)
  <2>1. /\ call[h] \in Calls /\ read[h] \in Ciphertexts /\ read[h] # None
        /\ rows' = Stored(rows, call[h].key,
                          Encrypted(read[h].secret, call[h].key, read[h].origin))
    BY <1>3 DEF WriteBack, OverlayInv, OverlayTypeOK, Migrating
  <2>2. call[h].key \in Paths /\ read[h].secret \in Secrets /\ read[h].origin \in Paths
    BY <2>1 DEF Calls, Ciphertexts
  <2>3. SameSecret(h)
    BY <2>1 DEF KeptOK
  <2>4. CASE call[h].key = k
    <3>1. rows'[k] = Encrypted(read[h].secret, call[h].key, read[h].origin)
      BY <2>1, <2>4 DEF Stored, OverlayInv, OverlayTypeOK, Table
    <3> QED BY <2>2, <2>3, <2>4, <3>1, EncryptedTypes DEF SameSecret
  <2>5. CASE call[h].key # k
    BY <2>1, <2>5 DEF Stored, OverlayInv, OverlayTypeOK, Table
  <2> QED BY <2>4, <2>5
<1>4. ASSUME NEW value, NEW kind, Insert(h, kind, value), ~UNCHANGED rows
      PROVE  rows'[k] = rows[k]
  <2>1. call[h].key # k
    BY <1>4, ValuesAssumption, OverlayAssumption DEF Insert, Conflicts, Present
  <2> QED BY <1>4, <2>1 DEF Insert, Stored, OverlayInv, OverlayTypeOK, Table
<1> QED BY <1>1, <1>2, <1>3, <1>4 DEF Steps, Begin, Read, Set, Span, Fault, Return

LEMMA KeptStep ==
  ASSUME OverlayInv, KeptOK, NEW h \in Handlers, Steps(h)
  PROVE  KeptOK'
<1>1. StepOK(h) /\ \A g \in Handlers : call'[g] # None => Happens(call'[g].kind)
  BY EveryStep, HappensKept
<1>2. SUFFICES ASSUME QuietMigration(deployment), NEW g \in Handlers, read'[g] # None
               PROVE  SameSecret(g)'
  BY <1>1 DEF KeptOK, StepOK, Happens
<1>3. CASE read[g] # None /\ read'[g] = read[g]
  <2>1. /\ call[g] \in Calls /\ call[g] # None /\ call[g].result = "pending"
        /\ protection = "migrate"
        /\ SameSecret(g)
    BY <1>2, <1>3 DEF KeptOK, OverlayInv, OverlayTypeOK, Migrating
  <2>2. call'[g] = call[g]
    <3>1. CASE g # h
      BY <1>1, <3>1 DEF StepOK, Alone
    <3>2. CASE g = h
      <4>1. ~Fault(h) /\ ~WriteBack(h)
        BY <1>2, <3>2 DEF Fault, WriteBack, OverlayInv, OverlayTypeOK
      <4> QED BY <1>3, <2>1, <3>2, <4>1
              DEF Steps, Begin, Read, Set, Span, Insert, Cut, Asked, Return
    <3> QED BY <3>1, <3>2
  <2>3. call[g].key \in Paths
    BY <2>1 DEF Calls
  <2> QED BY <1>2, <1>3, <2>1, <2>2, <2>3, SecretsStay DEF SameSecret
<1>4. CASE ~(read[g] # None /\ read'[g] = read[g])
  <2>1. g = h /\ read'[h] # read[h]
    BY <1>1, <1>2, <1>4 DEF StepOK, Alone
  <2>2. ~WriteBack(h) /\ ~Fault(h)
    BY <1>2, <2>1 DEF WriteBack, Fault, OverlayInv, OverlayTypeOK
  <2>3. Read(h)
    BY <2>1, <2>2 DEF Steps, Begin, Set, Span, Insert, Cut, Return
  <2> QED BY <2>1, <2>3 DEF Read, SameSecret, OverlayInv, OverlayTypeOK
<1> QED BY <1>3, <1>4

LEMMA KeptOutside ==
  ASSUME OverlayInv, KeptOK, Restart \/ Exchange
  PROVE  KeptOK'
<1>1. CASE Restart
  BY <1>1 DEF Restart, KeptOK
<1>2. CASE Exchange
  <2>1. UNCHANGED <<deployment, protection, call, read>>
    BY <1>2 DEF Exchange
  <2>2. QuietMigration(deployment) => protection # "migrate"
    BY <1>2 DEF Exchange, Happens, QuietMigration, OverlayInv, OverlayTypeOK
  <2> QED BY <2>1, <2>2 DEF KeptOK, Happens, OverlayInv, Migrating
<1> QED BY <1>1, <1>2

LEMMA Kept == Spec => []KeptOK
<1>1. Init => KeptOK
  BY DEF Init, KeptOK
<1>2. ASSUME OverlayInv, KeptOK, [Next]_vars PROVE KeptOK'
  <2>1. CASE UNCHANGED vars
    BY <1>2, <2>1 DEF vars, KeptOK, Happens, SameSecret
  <2> QED BY <1>2, <2>1, KeptStep, KeptOutside DEF Next, Steps
<1> QED BY <1>1, <1>2, OverlayTypeCorrect, PTL DEF Spec

\* What the documentation says of 'migrate' is true if migrations are quiet: what
\* get() writes back is a row that is there (EncryptedOverlay.get()).
THEOREM QuietMigrationUpdates ==
  ASSUME \A d \in Deployments : QuietMigration(d)
  PROVE  Spec => DocMigrateUpdates
<1>1. ASSUME OverlayInv, KeptOK, [Next]_vars
      PROVE  [\A h \in Handlers :
                read[h] # None /\ HandsOut(h) => Present(rows, call[h].key)]_vars
  <2>1. SUFFICES ASSUME NEW h \in Handlers, read[h] # None
                 PROVE  Present(rows, call[h].key)
    OBVIOUS
  <2>2. QuietMigration(deployment)
    BY <1>1 DEF OverlayInv, OverlayTypeOK
  <2>3. rows[call[h].key] \in Ciphertexts
    BY <1>1, <2>1, <2>2 DEF KeptOK, SameSecret
  <2> QED BY <2>3, ValuesAssumption, OverlayAssumption DEF Present
<1> QED BY <1>1, OverlayTypeCorrect, Kept, PTL DEF Spec, DocMigrateUpdates

--------------------------------------------------------------------------------
(***************************************************************************)
(* The refinement: each step of the overlay is one of KeyStore, or none.   *)
(***************************************************************************)

\* What a row is to a caller.
Shown(value) == IF value \in Ciphertexts THEN value.secret ELSE value

ShownTable == [p \in Paths |-> Shown(rows[p])]

\* A caller can tell ciphertexts, containers and missing rows from each other.
LEMMA ShownValues ==
  ASSUME OverlayInv, NEW k \in Paths
  PROVE  /\ ShownTable[k] = Shown(rows[k])
         /\ ShownTable[k] \in Secrets <=> rows[k] \in Ciphertexts
         /\ ShownTable[k] = Absent <=> ~Present(rows, k)
         /\ rows[k] \in Ciphertexts => ShownTable[k] = rows[k].secret
<1>1. rows[k] \in Ciphertexts \cup {Empty, Absent}
  BY OverlayAssumption DEF OverlayInv, OverlayTypeOK, Table, Payloads, NoNulls
<1>2. CASE rows[k] \in Ciphertexts
  <2>1. rows[k].secret \in Secrets /\ rows[k] # Absent
    BY <1>2, ValuesAssumption, OverlayAssumption DEF Ciphertexts
  <2> QED BY <1>2, <2>1, OverlayAssumption DEF ShownTable, Shown, Present
<1>3. CASE rows[k] \in {Empty, Absent}
  <2>1. rows[k] \notin Ciphertexts
    BY <1>3, ValuesAssumption, OverlayAssumption
  <2> QED BY <1>3, <2>1, OverlayAssumption DEF ShownTable, Shown, Present
<1> QED BY <1>1, <1>2, <1>3

LEMMA ShownStored ==
  ASSUME OverlayInv, NEW k \in Paths, NEW value, rows' = Stored(rows, k, value)
  PROVE  ShownTable' = [ShownTable EXCEPT ![k] = Shown(value)]
  BY DEF ShownTable, Stored, OverlayInv, OverlayTypeOK, Table

AddsPlain(h, kind, value) ==
  /\ call[h] # None /\ call[h].result = "pending" /\ call[h].kind = kind
  /\ \/ /\ ShownTable[call[h].key] = Absent
        /\ ShownTable' = [ShownTable EXCEPT ![call[h].key] = value]
        /\ Result(h, "done")
     \/ /\ ShownTable[call[h].key] # Absent
        /\ Result(h, "exists")
        /\ ShownTable' = ShownTable

\* The actions of the instance are about ShownTable.
LEMMA PlainState ==
  /\ UNCHANGED Plain!vars <=> UNCHANGED <<ShownTable, call>>
  /\ \A h \in Handlers : Plain!Begin(h) <=>
       /\ call[h] = None
       /\ \E kind \in {"get", "set", "span", "cut"}, k \in Paths, s \in Secrets :
            call' = [call EXCEPT ![h] = [kind |-> kind, key |-> k, secret |-> s,
                                         result |-> "pending"]]
       /\ ShownTable' = ShownTable
  /\ \A h \in Handlers : Plain!Get(h) <=>
       /\ call[h] # None /\ call[h].result = "pending" /\ call[h].kind = "get"
       /\ \/ ShownTable[call[h].key] \in Secrets /\ Result(h, ShownTable[call[h].key])
          \/ ShownTable[call[h].key] = Absent /\ Result(h, "none")
       /\ ShownTable' = ShownTable
  /\ \A h \in Handlers : Plain!Add(h, "set", call[h].secret) <=>
                           AddsPlain(h, "set", call[h].secret)
  /\ \A h \in Handlers : Plain!Add(h, "span", Empty) <=> AddsPlain(h, "span", Empty)
  /\ \A h \in Handlers : Plain!Cut(h) <=>
       /\ call[h] # None /\ call[h].result = "pending" /\ call[h].kind = "cut"
       /\ Result(h, IF ShownTable[call[h].key] = Absent THEN "none" ELSE "done")
       /\ ShownTable' = [ShownTable EXCEPT ![call[h].key] = Absent]
  /\ \A h \in Handlers : Plain!Fail(h) <=>
       \E kind \in {"get", "set", "span", "cut"} :
         /\ call[h] # None /\ call[h].result = "pending" /\ call[h].kind = kind
         /\ Result(h, "error") /\ ShownTable' = ShownTable
  /\ \A gone : Plain!End(gone) <=>
       /\ call' = [h \in Handlers |-> IF h \in gone THEN None ELSE call[h]]
       /\ ShownTable' = ShownTable
  /\ \A k, l : Plain!Exchange(k, l) <=>
       /\ ShownTable' = [ShownTable EXCEPT ![k] = ShownTable[l], ![l] = ShownTable[k]]
       /\ UNCHANGED call
  BY DEF Plain!vars, Plain!Begin, Plain!Kinds, Plain!Get, Plain!Pending, Plain!Result, Result,
         Plain!Add, Plain!Cut, Plain!Fail, Plain!End, Plain!Exchange, AddsPlain, ShownTable, Shown

SimulatedBy(h) ==
  \/ Plain!Begin(h) \/ Plain!Get(h) \/ Plain!Add(h, "set", call[h].secret)
  \/ Plain!Add(h, "span", Empty) \/ Plain!Cut(h) \/ Plain!Fail(h)
  \/ Plain!End({h}) \/ UNCHANGED Plain!vars

\* A call fails without effect.
LEMMA PlainFails ==
  ASSUME OverlayInv, NEW h \in Handlers, call[h] # None, call[h].result = "pending",
         Result(h, "error"), UNCHANGED rows
  PROVE  Plain!Fail(h)
<1>1. call[h].kind \in {"get", "set", "span", "cut"}
  BY DEF OverlayInv, OverlayTypeOK, Calls
<1>2. ShownTable' = ShownTable
  BY DEF ShownTable
<1> QED BY <1>1, <1>2, PlainState

LEMMA PlainReads ==
  ASSUME OverlayInv, NEW h \in Handlers, Read(h)
  PROVE  SimulatedBy(h)
<1>1. /\ call[h] # None /\ call[h] \in Calls /\ call[h].kind = "get"
      /\ call[h].result = "pending" /\ UNCHANGED rows
  BY DEF Read, Asked, OverlayInv, OverlayTypeOK
<1>2. call[h].key \in Paths /\ ShownTable' = ShownTable
  BY <1>1 DEF Calls, ShownTable
<1>3. CASE IsNone(rows, call[h].key) /\ Result(h, "none")
  <2>1. ShownTable[call[h].key] = Absent
    BY <1>2, <1>3, ShownValues DEF IsNone, Present, OverlayInv, NoNulls
  <2> QED BY <1>1, <1>2, <1>3, <2>1, PlainState DEF SimulatedBy
<1>4. CASE Result(h, "error")
  BY <1>1, <1>4, PlainFails DEF SimulatedBy
<1>5. CASE rows[call[h].key] \in Ciphertexts /\ Result(h, rows[call[h].key].secret)
  <2>1. /\ ShownTable[call[h].key] \in Secrets
        /\ ShownTable[call[h].key] = rows[call[h].key].secret
    BY <1>2, <1>5, ShownValues
  <2> QED BY <1>1, <1>2, <1>5, <2>1, PlainState DEF SimulatedBy
<1>6. CASE UNCHANGED call
  BY <1>2, <1>6, PlainState DEF SimulatedBy
<1> QED BY <1>3, <1>4, <1>5, <1>6 DEF Read

\* To write back what is still there changes nothing: get() takes effect then.
LEMMA PlainWritesBack ==
  ASSUME OverlayInv, KeptOK, QuietMigration(deployment), NEW h \in Handlers, WriteBack(h)
  PROVE  SimulatedBy(h)
<1>1. /\ call[h] # None /\ call[h] \in Calls /\ call[h].kind = "get"
      /\ call[h].result = "pending" /\ read[h] # None /\ read[h] \in Ciphertexts
      /\ Result(h, read[h].secret)
      /\ rows' = Stored(rows, call[h].key,
                        Encrypted(read[h].secret, call[h].key, read[h].origin))
  BY DEF WriteBack, OverlayInv, OverlayTypeOK, Migrating
<1>2. call[h].key \in Paths /\ read[h].secret \in Secrets /\ read[h].origin \in Paths
  BY <1>1 DEF Calls, Ciphertexts
<1>3. SameSecret(h)
  BY <1>1 DEF KeptOK
<1>4. ShownTable[call[h].key] \in Secrets /\ ShownTable[call[h].key] = read[h].secret
  BY <1>2, <1>3, ShownValues DEF SameSecret
<1>5. Shown(Encrypted(read[h].secret, call[h].key, read[h].origin)) = read[h].secret
  BY <1>2, EncryptedTypes DEF Shown
<1>6. ShownTable' = [ShownTable EXCEPT ![call[h].key] = read[h].secret]
  BY <1>1, <1>2, <1>5, ShownStored
<1>7. ShownTable' = ShownTable
  BY <1>4, <1>6 DEF ShownTable
<1> QED BY <1>1, <1>4, <1>7, PlainState DEF SimulatedBy

LEMMA PlainInserts ==
  ASSUME OverlayInv, NEW h \in Handlers, NEW kind, NEW value, Insert(h, kind, value)
  PROVE  AddsPlain(h, kind, Shown(value))
<1>1. /\ call[h] # None /\ call[h] \in Calls /\ call[h].kind = kind
      /\ call[h].result = "pending"
  BY DEF Insert, Asked, OverlayInv, OverlayTypeOK
<1>2. call[h].key \in Paths
  BY <1>1 DEF Calls
<1>3. ShownTable[call[h].key] = Absent <=> ~Present(rows, call[h].key)
  BY <1>2, ShownValues
<1>4. CASE /\ ~Conflicts(rows, call[h].key, FALSE)
           /\ rows' = Stored(rows, call[h].key, value) /\ Result(h, "done")
  <2>1. ShownTable' = [ShownTable EXCEPT ![call[h].key] = Shown(value)]
    BY <1>2, <1>4, ShownStored
  <2> QED BY <1>1, <1>3, <1>4, <2>1 DEF Conflicts, AddsPlain
<1>5. CASE Conflicts(rows, call[h].key, FALSE) /\ Result(h, "exists") /\ UNCHANGED rows
  <2>1. ShownTable' = ShownTable
    BY <1>5 DEF ShownTable
  <2> QED BY <1>1, <1>3, <1>5, <2>1 DEF Conflicts, AddsPlain
<1> QED BY <1>4, <1>5 DEF Insert

LEMMA PlainCuts ==
  ASSUME OverlayInv, NEW h \in Handlers, Cut(h)
  PROVE  Plain!Cut(h)
<1>1. /\ call[h] # None /\ call[h] \in Calls /\ call[h].kind = "cut"
      /\ call[h].result = "pending" /\ rows' = Stored(rows, call[h].key, Absent)
  BY DEF Cut, CutFrom, Stored, Asked, OverlayInv, OverlayTypeOK
<1>2. call[h].key \in Paths
  BY <1>1 DEF Calls
<1>3. ShownTable[call[h].key] = Absent <=> ~Present(rows, call[h].key)
  BY <1>2, ShownValues
<1>4. Shown(Absent) = Absent
  BY ValuesAssumption, OverlayAssumption DEF Shown
<1>5. ShownTable' = [ShownTable EXCEPT ![call[h].key] = Absent]
  BY <1>1, <1>2, <1>4, ShownStored
<1>6. Result(h, IF ShownTable[call[h].key] = Absent THEN "none" ELSE "done")
  BY <1>3 DEF Cut
<1> QED BY <1>1, <1>5, <1>6, PlainState

LEMMA PlainStep ==
  ASSUME OverlayInv, KeptOK, QuietMigration(deployment), NEW h \in Handlers, Steps(h)
  PROVE  SimulatedBy(h)
<1>1. CASE Begin(h)
  <2>1. ShownTable' = ShownTable
    BY <1>1 DEF Begin, ShownTable
  <2>2. PICK kind \in {"get", "set", "span", "cut"}, k \in Paths, s \in Secrets :
          call' = [call EXCEPT ![h] = [kind |-> kind, key |-> k, secret |-> s,
                                       result |-> "pending"]]
    BY <1>1 DEF Begin
  <2>3. call[h] = None
    BY <1>1 DEF Begin
  <2>4. Plain!Begin(h)
    BY <2>1, <2>2, <2>3, PlainState
  <2> QED BY <2>4 DEF SimulatedBy
<1>2. CASE Set(h)
  <2>1. call[h] \in Calls
    BY <1>2 DEF Set, Insert, Asked, OverlayInv, OverlayTypeOK
  <2>2. Shown(Encrypted(call[h].secret, call[h].key, call[h].key)) = call[h].secret
    BY <2>1, EncryptedTypes DEF Shown, Calls
  <2>3. AddsPlain(h, "set", Shown(Encrypted(call[h].secret, call[h].key, call[h].key)))
    BY <1>2, PlainInserts DEF Set
  <2>4. AddsPlain(h, "set", call[h].secret)
    BY <2>2, <2>3 DEF AddsPlain
  <2> QED BY <2>4, PlainState DEF SimulatedBy
<1>3. CASE Span(h)
  <2>1. Shown(Empty) = Empty
    BY ValuesAssumption, OverlayAssumption DEF Shown
  <2>2. AddsPlain(h, "span", Shown(Empty))
    BY <1>3, PlainInserts DEF Span
  <2> QED BY <2>1, <2>2, PlainState DEF SimulatedBy
<1>4. CASE Fault(h)
  BY <1>4, PlainFails DEF Fault, SimulatedBy
<1>5. CASE Return(h)
  <2>1. ShownTable' = ShownTable
    BY <1>5 DEF Return, ShownTable
  <2>2. call' = [g \in Handlers |-> IF g \in {h} THEN None ELSE call[g]]
    BY <1>5 DEF Return, OverlayInv, OverlayTypeOK
  <2> QED BY <2>1, <2>2, PlainState DEF SimulatedBy
<1> QED BY <1>1, <1>2, <1>3, <1>4, <1>5, PlainReads, PlainWritesBack, PlainCuts
        DEF Steps, SimulatedBy

\* To its callers the overlay is a plain store under every protection, if
\* migrations are quiet (EncryptedOverlay over SqliteStore).
THEOREM OverlayIsPlain ==
  ASSUME \A d \in Deployments : QuietMigration(d)
  PROVE  Spec => PlainStore
<1>1. ASSUME Init PROVE Plain!Init
  <2>1. Shown(Absent) = Absent
    BY ValuesAssumption, OverlayAssumption DEF Shown
  <2>2. ShownTable = [p \in Paths |-> Absent]
    BY <1>1, <2>1 DEF Init, NoRows, ShownTable
  <2> QED BY <1>1, <2>2 DEF Init, Plain!Init, ShownTable, Shown
<1>2. ASSUME OverlayInv, KeptOK, [Next]_vars PROVE [Plain!Next]_(Plain!vars)
  <2>1. QuietMigration(deployment)
    BY <1>2 DEF OverlayInv, OverlayTypeOK
  <2>2. CASE UNCHANGED vars
    <3>1. ShownTable' = ShownTable
      BY <2>2 DEF vars, ShownTable
    <3> QED BY <2>2, <3>1, PlainState DEF vars
  <2>3. ASSUME NEW h \in Handlers, Steps(h) PROVE [Plain!Next]_(Plain!vars)
    <3>1. SimulatedBy(h)
      BY <1>2, <2>1, <2>3, PlainStep
    <3>2. CASE Plain!End({h})
      BY <3>2 DEF Plain!Next
    <3>3. CASE \/ Plain!Begin(h) \/ Plain!Get(h) \/ Plain!Add(h, "set", call[h].secret)
               \/ Plain!Add(h, "span", Empty) \/ Plain!Cut(h) \/ Plain!Fail(h)
      BY <3>3 DEF Plain!Next, Plain!Begin, Plain!Get, Plain!Add, Plain!Cut, Plain!Fail
    <3> QED BY <3>1, <3>2, <3>3 DEF SimulatedBy
  <2>4. CASE Restart
    <3>1. ShownTable' = ShownTable
      BY <2>4 DEF Restart, ShownTable
    <3>2. call' = [h \in Handlers |-> IF h \in Handlers THEN None ELSE call[h]]
      BY <2>4 DEF Restart
    <3>3. Plain!End(Handlers)
      BY <3>1, <3>2, PlainState
    <3> QED BY <3>3 DEF Plain!Next
  <2>5. CASE Exchange
    <3>1. PICK k \in Paths, l \in Paths :
            rows' = [rows EXCEPT ![k] = rows[l], ![l] = rows[k]]
      BY <2>5 DEF Exchange
    <3>2. ShownTable' = [ShownTable EXCEPT ![k] = ShownTable[l], ![l] = ShownTable[k]]
      BY <1>2, <3>1 DEF ShownTable, OverlayInv, OverlayTypeOK, Table
    <3>3. Plain!Exchange(k, l)
      BY <2>5, <3>2, PlainState DEF Exchange
    <3> QED BY <3>3 DEF Plain!Next
  <2> QED BY <1>2, <2>2, <2>3, <2>4, <2>5 DEF Next, Steps
<1> QED BY <1>1, <1>2, OverlayTypeCorrect, Kept, PTL DEF Spec, PlainStore, Plain!Spec

=================================================================================
