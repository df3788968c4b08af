-------------------------------- MODULE Overlay --------------------------------
(***************************************************************************)
(* EncryptedOverlay (store/encgen.py) over a SqliteStore, called by the    *)
(* children of a server that may be restarted with another                 *)
(* secret_protection: the upgrade the option is there for goes from        *)
(* 'encrypt' over 'migrate' to 'pinning'.  EncryptedStore                  *)
(* (store/enclite.py) does what the overlay does under 'encrypt'.          *)
(*                                                                         *)
(* Encryption is perfect: a ciphertext is a record of what decryption      *)
(* gives back.  A server never replaces its master key (Startup).          *)
(***************************************************************************)
EXTENDS SqliteStore, FiniteSets

CONSTANTS
  Handlers,     \* the children that can be alive at the same time (a bound)
  Secrets,      \* what callers store
  None,
  Deployments   \* for each secret_protection a server is run with, what happens

Protections == {"encrypt", "pinning", "migrate"}

Happenings == {"get", "set", "span", "cut", "exchange", "fault"}

\* pin is custodia.key of the protected header.  origin is not stored: it is
\* the key the secret was set for, which the properties are about.
Ciphertexts == [secret : Secrets, pin : Paths \cup {None}, origin : Paths]

ASSUME OverlayAssumption ==
  /\ Values = Ciphertexts
  /\ None \notin Paths /\ Absent \notin Secrets /\ Empty \notin Secrets
  /\ {"none", "done", "exists", "error", "pending"} \cap Secrets = {}
  /\ \A d \in Deployments : /\ DOMAIN d \subseteq Protections
                            /\ \A m \in DOMAIN d : d[m] \subseteq Happenings

VARIABLES
  rows,         \* the table of the backing store
  deployment,
  protection,   \* secret_protection of the running server
  call,         \* what each child has been asked, and the result
  read          \* the ciphertext that get() has read and not returned

vars == <<rows, deployment, protection, call, read>>

Results == Secrets \cup {"pending", "none", "done", "exists", "error"}

Calls == [kind : {"get", "set", "span", "cut"}, key : Paths, secret : Secrets, result : Results]

ASSUME NoneAssumption == None \notin Calls \cup Ciphertexts

OverlayTypeOK ==
  /\ rows \in Table
  /\ deployment \in Deployments
  /\ protection \in DOMAIN deployment
  /\ call \in [Handlers -> Calls \cup {None}]
  /\ read \in [Handlers -> Ciphertexts \cup {None}]

Init ==
  /\ rows = NoRows
  /\ deployment \in Deployments
  /\ protection \in DOMAIN deployment
  /\ call = [h \in Handlers |-> None]
  /\ read = [h \in Handlers |-> None]

--------------------------------------------------------------------------------
Happens(what) == what \in deployment[protection]

Begin(h) ==
  /\ call[h] = None
  /\ \E kind \in {"get", "set", "span", "cut"}, k \in Paths, s \in Secrets :
       /\ Happens(kind)
       /\ call' = [call EXCEPT ![h] = [kind |-> kind, key |-> k, secret |-> s,
                                       result |-> "pending"]]
  /\ UNCHANGED <<rows, deployment, protection, read>>

Asked(h, kind) ==
  call[h] # None /\ call[h].kind = kind /\ call[h].result = "pending" /\ read[h] = None

Result(h, result) == call' = [call EXCEPT ![h].result = result]

\* The ciphertext that set() makes: every protection but 'encrypt' pins.
Encrypted(secret, key, origin) ==
  [secret |-> secret, origin |-> origin, pin |-> IF protection = "encrypt" THEN None ELSE key]

\* Broken: a missing pin is no reason to refuse.
RefusesWrongPinOnly(c, key) == protection # "encrypt" /\ c.pin \notin {None, key}

\* The Secret Pinning checks that raise.
Refuses(c, key) ==
  \/ protection = "pinning" /\ c.pin = None
  \/ protection # "encrypt" /\ c.pin \notin {None, key}

\* 'migrate' writes a secret back that has no pin yet.
Migrates(c) == protection = "migrate" /\ c.pin = None

\* get(): the row is read, decrypted and checked.  What is no ciphertext, such
\* as the value of a container, cannot be parsed.
Read(h) ==
  LET k == call[h].key
      c == rows[k]
  IN
  /\ Asked(h, "get")
  /\ \/ IsNone(rows, k) /\ Result(h, "none") /\ UNCHANGED read
     \/ c = Empty /\ Result(h, "error") /\ UNCHANGED read
     \/ /\ c \in Ciphertexts
        /\ \/ Refuses(c, k) /\ Result(h, "error") /\ UNCHANGED read
           \/ Migrates(c) /\ read' = [read EXCEPT ![h] = c] /\ UNCHANGED call
           \/ ~Refuses(c, k) /\ ~Migrates(c) /\ Result(h, c.secret) /\ UNCHANGED read
  /\ UNCHANGED <<rows, deployment, protection>>

\* Broken: the secret is written back as it was decrypted.
WriteBackPlain(h) ==
  /\ read[h] # None
  /\ rows' = Stored(rows, call[h].key, read[h].secret)
  /\ Result(h, read[h].secret)
  /\ read' = [read EXCEPT ![h] = None]
  /\ UNCHANGED <<deployment, protection>>

\* get() goes on with set(replace=True), a transaction of its own.
WriteBack(h) ==
  LET k == call[h].key IN
  /\ read[h] # None
  /\ rows' = Stored(rows, k, Encrypted(read[h].secret, k, read[h].origin))
  /\ Result(h, read[h].secret)
  /\ read' = [read EXCEPT ![h] = None]
  /\ UNCHANGED <<deployment, protection>>

Insert(h, kind, value) ==
  LET k == call[h].key IN
  /\ Asked(h, kind)
  /\ \/ /\ ~Conflicts(rows, k, FALSE)
        /\ rows' = Stored(rows, k, value)
        /\ Result(h, "done")
     \/ /\ Conflicts(rows, k, FALSE)
        /\ Result(h, "exists")
        /\ UNCHANGED rows
  /\ UNCHANGED <<deployment, protection, read>>

Set(h) == Insert(h, "set", Encrypted(call[h].secret, call[h].key, call[h].key))

Span(h) == Insert(h, "span", Empty)

Cut(h) ==
  LET k == call[h].key IN
  /\ Asked(h, "cut")
  /\ Result(h, IF Present(rows, k) THEN "done" ELSE "none")
  /\ rows' = CutFrom(rows, k)
  /\ UNCHANGED <<deployment, protection, read>>

\* The backing store raises, and with it the call; set() in get() may too.
Fault(h) ==
  /\ Happens("fault")
  /\ call[h] # None /\ call[h].result = "pending"
  /\ Result(h, "error")
  /\ read' = [read EXCEPT ![h] = None]
  /\ UNCHANGED <<rows, deployment, protection>>

Return(h) ==
  /\ call[h] # None /\ call[h].result # "pending"
  /\ call' = [call EXCEPT ![h] = None]
  /\ UNCHANGED <<rows, deployment, protection, read>>

\* The server and its children are stopped and it is started once more, with
\* any secret_protection.
Restart ==
  /\ protection' \in DOMAIN deployment
  /\ call' = [h \in Handlers |-> None]
  /\ read' = [h \in Handlers |-> None]
  /\ UNCHANGED <<rows, deployment>>

\* Two rows of the database are exchanged, which pinning is to detect.
Exchange ==
  /\ Happens("exchange")
  /\ \E k, l \in Paths : rows' = [rows EXCEPT ![k] = rows[l], ![l] = rows[k]]
  /\ UNCHANGED <<deployment, protection, call, read>>

Next ==
  \/ \E h \in Handlers :
       Begin(h) \/ Read(h) \/ WriteBack(h) \/ Set(h) \/ Span(h) \/ Cut(h)
         \/ Fault(h) \/ Return(h)
  \/ Restart \/ Exchange

Spec == Init /\ [][Next]_vars

--------------------------------------------------------------------------------
\* While secrets are migrated nothing is deleted, and no rows are exchanged.
QuietMigration(d) ==
  "migrate" \in DOMAIN d => d["migrate"] \cap {"cut", "exchange"} = {}

\* Rows are not exchanged by a deployment that also migrates: the pin that a
\* migration gives to an exchanged row confirms it.
PinsAreOriginal(d) ==
  "migrate" \in DOMAIN d => \A m \in DOMAIN d : "exchange" \notin d[m]

\* h is answered with a secret.
HandsOut(h) ==
  /\ call[h] # None /\ call[h].result = "pending"
  /\ call'[h] # None /\ call'[h].result \in Secrets

\* Under 'pinning' get() returns a secret only for the key it was set for,
\* whichever rows were exchanged in the database and whatever protection they
\* were written under (the checks at the end of EncryptedOverlay.get()).
PinnedAnswers ==
  [][PinsAreOriginal(deployment) /\ protection = "pinning" =>
       \A h \in Handlers : HandsOut(h) => rows[call[h].key].origin = call[h].key]_vars

\* To its callers the overlay is a store whose calls take effect at once: the
\* migration of a secret, between the two transactions of get() and whatever
\* other children do between them, changes nothing they can see, provided that
\* every deployment's migration is quiet (DocMigrateUpdates shows one that is not).
Plain == INSTANCE KeyStore WITH
  Clients <- Handlers, Keys <- Paths, Container <- Empty,
  table <- [p \in Paths |-> IF rows[p] \in Ciphertexts THEN rows[p].secret ELSE rows[p]]

PlainStore == Plain!Spec

\* store/encgen.py:31 says of 'migrate' that a secret without a pin is updated
\* by get(): what is written back is a row that is there.
DocMigrateUpdates ==
  [][\A h \in Handlers :
       read[h] # None /\ HandsOut(h) => Present(rows, call[h].key)]_vars
================================================================================
