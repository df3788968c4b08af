---------------------------------- MODULE Kem ----------------------------------
(***************************************************************************)
(* Calls of CustodiaKEMClient (client.py) and KEMClient (message/kem.py)   *)
(* to a server whose Secrets accepts 'kem' messages: a token that is       *)
(* signed, and for some clients encrypted too, with keys that the child    *)
(* looks up among the rows of its KEMKeysStore, and that names a time,     *)
(* which either side compares with a clock of its own.                     *)
(*                                                                         *)
(* The rows are written by an operator, who may replace a key or take it   *)
(* away at any time.  What Secrets does to its own table is one step here  *)
(* (Secrets has the detail).                                               *)
(***************************************************************************)
EXTENDS Integers, Sequences

CONSTANTS
  Clients,    \* each makes one call (a bound)
  Server,     \* the 'server_keys' option: the kid of the server's keys
  KeyTypes,   \* what each owner's sig and enc key may be
  Keys,       \* the keys that a row may hold in the course of time
  Held,       \* the one whose other half its owner has
  Rewrites,   \* which rows the operator writes, and what (a bound)
  Requests,   \* what clients ask for
  Names,      \* of secrets and containers
  Skews,      \* how far clients' clocks are ahead of the server's
  Life,       \* how long a message is valid, 5 * 60 seconds
  MaxNow,     \* when the server's clock stops (a bound)
  None

Owners == Clients \cup {Server}
Usages == {"sig", "enc"}
KeyOperations == {"get", "set", "del"}
Operations == KeyOperations \cup {"list", "create", "destroy"}   \* on containers

\* sub is the name the token is for, which is not that of the URL if the client
\* was given one with a leading '/'; listed says that the path is one of the
\* KEMKeysStore's.
ASSUME KemAssumption ==
  /\ Server \notin Clients
  /\ KeyTypes \subseteq [Owners -> [Usages -> {"RSA", "EC", "OKP"}]]
  /\ Rewrites \subseteq Owners \X Usages \X (Keys \cup {None})
  /\ Held \in Keys /\ "unread" \notin Keys \cup {None}
  /\ None \notin Keys \cup {"allowed", "denied"}
  /\ Requests \subseteq [op : Operations, name : Names, sub : STRING,
                         form : {"jwe", "jws"}, listed : BOOLEAN]
  /\ Skews \subseteq Int
  /\ Life \in Nat /\ MaxNow \in Nat

VARIABLES
  type,       \* one of KeyTypes
  now,        \* the server's clock
  skew,       \* one of Skews for each client
  registry,   \* kemkeys/<usage>/<kid>, or None
  secrets,    \* the names that are there
  call,       \* what is known of each client's call
  acted,      \* how often Secrets has acted on it
  audit       \* what the audit log says of it

vars == <<type, now, skew, registry, secrets, call, acted, audit>>

\* The rows a child may look up for a call.
Rows == {"server sig", "server enc", "client sig", "client enc"}

ChildStages == {"keys", "horizon", "expiry", "store", "seal", "reply", "audit"}

Stages == {"idle", "sent"} \cup ChildStages
            \cup {"answered", "reply horizon", "reply expiry", "ok", "failed"}

Successes == {200, 201}

\* A failure is Secrets' own: it refused the request, or has no message for an
\* answer; or its cause is the store of the key rows, when one is looked up.
Causes == {"other", "secrets", "key store"}

Codes == Successes \cup {0, 400, 403, 404, 406, 409, 500, 501}   \* 0: none

NoCall ==
  [stage |-> "idle", req |-> None, made |-> 0, exp |-> 0, todo |-> <<>>,
   keys |-> [row \in Rows |-> "unread"], code |-> 0, cause |-> "other",
   sealed |-> FALSE]

\* made is when (by the server's clock) the client read its clock for exp, the
\* time in its token; the token that a sealed answer contains has one as well.
CallType ==
  [stage : Stages, req : Requests \cup {None}, made : Nat, exp : Int,
   todo : Seq(Rows), keys : [Rows -> Keys \cup {None, "unread"}],
   code : Codes, cause : Causes, sealed : BOOLEAN]

KemTypeOK ==
  /\ type \in KeyTypes
  /\ now \in Nat /\ now <= MaxNow
  /\ skew \in [Clients -> Skews]
  /\ registry \in [Owners -> [Usages -> Keys \cup {None}]]
  /\ secrets \subseteq Names
  /\ call \in [Clients -> CallType]
  /\ acted \in [Clients -> Nat]
  /\ audit \in [Clients -> {None, "allowed", "denied"}]

Init ==
  /\ type \in KeyTypes
  /\ now = 0
  /\ skew \in [Clients -> Skews]
  /\ registry = [o \in Owners |-> [u \in Usages |-> Held]]
  /\ secrets \in SUBSET Names
  /\ call = [c \in Clients |-> NoCall]
  /\ acted = [c \in Clients |-> 0]
  /\ audit = [c \in Clients |-> None]

--------------------------------------------------------------------------------
ClientTime(c) == now + skew[c]

\* Broken: without room for a clock that is ahead.
TooFarAheadOfLife(exp, time) == exp - Life > time

\* check_kem_claims(): two comparisons, each with a reading of the clock.
TooFarAhead(exp, time) == exp - 2 * Life > time
Expired(exp, time) == exp < time

Goto(c, stage) == call' = [call EXCEPT ![c].stage = stage]

\* The consumer returns or raises; what it was called for is audited next.
Finish(c, code) == call' = [call EXCEPT ![c].stage = "audit", ![c].code = code]

\* Broken: the status of what is no valid message is one that clients do not know.
RejectUnprocessable(c) == Finish(c, 422)

\* Whatever goes wrong with the message.
Reject(c) == Finish(c, IF call[c].req.op = "set" THEN 400 ELSE 406)

Local == <<type, now, skew, registry, secrets, acted, audit>>   \* for steps on call alone

--------------------------------------------------------------------------------
Tick ==
  /\ now < MaxNow
  /\ now' = now + 1
  /\ UNCHANGED <<type, skew, registry, secrets, call, acted, audit>>

\* The operator replaces or removes a key.
Rekey ==
  /\ \E row \in Rewrites : registry' = [registry EXCEPT ![row[1]][row[2]] = row[3]]
  /\ UNCHANGED <<type, now, skew, secrets, call, acted, audit>>

\* _kem_wrap(): a client finds no algorithm for keys of other types, and then
\* raises before anything is sent.
CanWrap(c, r) ==
  /\ type[c]["sig"] # "OKP"
  /\ r.form = "jwe" => type[Server]["enc"] # "OKP"

Call(c) ==
  /\ call[c].stage = "idle"
  /\ \E r \in {x \in Requests : CanWrap(c, x)} :
       call' = [call EXCEPT ![c] =
                  [NoCall EXCEPT !.stage = "sent", !.req = r, !.made = now,
                                 !.exp = ClientTime(c) + Life]]
  /\ UNCHANGED Local

\* The child has the request and makes a KEMHandler.
Receive(c) ==
  LET r == call[c].req IN
  /\ call[c].stage = "sent"
  /\ \/ ~r.listed /\ Reject(c)
     \/ /\ r.listed
        /\ call' = [call EXCEPT
             ![c].stage = "keys",
             ![c].todo = IF r.form = "jwe"
                         THEN <<"server sig", "server enc", "client sig", "client enc">>
                         ELSE <<"client sig", "client enc">>]
  /\ UNCHANGED Local

Lookup(c, row) ==
  CASE row = "server sig" -> registry[Server]["sig"]
    [] row = "server enc" -> registry[Server]["enc"]
    [] row = "client sig" -> registry[c]["sig"]
    [] row = "client enc" -> registry[c]["enc"]

\* What is raised for a key that the child needs makes a bad request of a message
\* that is parsed; of an operation that is done it makes an internal error.
KeyNotFound(c, k) ==
  call' = [call EXCEPT ![c] =
    [k EXCEPT !.stage = "audit",
              !.code = IF k.stage = "reply" THEN 500
                       ELSE IF k.req.op = "set" THEN 400 ELSE 406]]

\* Broken: a key that is not found is waited for.
ReadKeyWaits(c) ==
  LET k == call[c]
      row == Head(k.todo)
  IN
  /\ k.stage \in {"keys", "reply"} /\ k.todo # <<>> /\ Lookup(c, row) # None
  /\ call' = [call EXCEPT ![c].todo = Tail(k.todo), ![c].keys[row] = Lookup(c, row)]
  /\ UNCHANGED Local

\* KEMKeysStore.find_key(), for the next key that is needed: get() of the store
\* returns a row or None, or raises CSStoreError.
ReadKey(c) ==
  LET k == call[c]
      row == Head(k.todo)
      key == Lookup(c, row)
      read == [k EXCEPT !.todo = Tail(k.todo), !.keys[row] = key]
  IN
  /\ k.stage \in {"keys", "reply"} /\ k.todo # <<>>
  /\ \/ /\ key # None
        /\ call' = [call EXCEPT ![c] = read]
     \/ key = None /\ KeyNotFound(c, read)
     \/ KeyNotFound(c, [k EXCEPT !.cause = "key store"])
  /\ UNCHANGED Local

\* The keys of a token are the ones its sender has the other halves of.
Opens(c, rows) == \A row \in rows : call[c].keys[row] = Held

\* decrypt() and verify()
Verify(c) ==
  /\ call[c].stage = "keys" /\ call[c].todo = <<>>
  /\ LET rows == IF call[c].req.form = "jwe" THEN {"server enc", "client sig"}
                                             ELSE {"client sig"}
     IN IF Opens(c, rows) THEN Goto(c, "horizon") ELSE Reject(c)
  /\ UNCHANGED Local

CheckHorizon(c) ==
  LET k == call[c] IN
  /\ k.stage = "horizon"
  /\ IF k.req.sub # k.req.name \/ TooFarAhead(k.exp, now)
     THEN Reject(c) ELSE Goto(c, "expiry")
  /\ UNCHANGED Local

\* Broken: the second comparison is forgotten.
CheckExpiryNever(c) ==
  /\ call[c].stage = "expiry"
  /\ Goto(c, "store")
  /\ UNCHANGED Local

CheckExpiry(c) ==
  /\ call[c].stage = "expiry"
  /\ IF Expired(call[c].exp, now) THEN Reject(c) ELSE Goto(c, "store")
  /\ UNCHANGED Local

--------------------------------------------------------------------------------
\* What a request that is carried out makes of the table.
Carried(r) ==
  CASE r.op \in {"get", "list"} -> secrets
    [] r.op \in {"del", "destroy"} -> secrets \ {r.name}
    [] OTHER -> secrets \cup {r.name}

Possible(r) == (r.name \in secrets) = (r.op \notin {"set", "create"})

\* The statuses without an operation.  A PUT or POST misses the container above, or
\* finds its row in the way, or the default namespace, which another child has just
\* created; POST is answered at once then, without a message.  A row may be empty
\* for a GET, and may hold rows that keep it from being destroyed.
Refusals(r) ==
  LET there == r.name \in secrets IN
  {403, 500, 501} \cup
    CASE r.op = "set" -> {404, 409}
      [] r.op = "create" -> {404, 200}
      [] r.op = "get" -> IF there THEN {406} ELSE {404}
      [] r.op = "destroy" -> IF there THEN {409} ELSE {404}
      [] r.op \in {"del", "list"} -> IF there THEN {} ELSE {404}

\* Secrets' store does not do what was asked, or is not asked to.
Refuse(c) ==
  \E code \in Refusals(call[c].req) :
    call' = [call EXCEPT ![c].stage = "audit", ![c].code = code, ![c].cause = "secrets"]

\* Broken: the store may raise after it has committed.
ServeCommitsFirst(c) ==
  LET r == call[c].req IN
  /\ call[c].stage = "store"
  /\ IF Possible(r)
     THEN /\ secrets' = Carried(r)
          /\ acted' = [acted EXCEPT ![c] = @ + 1]
          /\ Goto(c, "seal") \/ Finish(c, 500)
     ELSE Refuse(c) /\ UNCHANGED <<secrets, acted>>
  /\ UNCHANGED <<type, now, skew, registry, audit>>

\* Secrets acts on the request or refuses it.
Serve(c) ==
  LET r == call[c].req IN
  /\ call[c].stage = "store"
  /\ \/ /\ Possible(r)
        /\ secrets' = Carried(r)
        /\ acted' = [acted EXCEPT ![c] = @ + 1]
        /\ Goto(c, "seal")
     \/ Refuse(c) /\ UNCHANGED <<secrets, acted>>
  /\ UNCHANGED <<type, now, skew, registry, audit>>

\* Broken: the reply is made where what it raises is taken for a bad request.
SealInTry(c) ==
  LET k == call[c] IN
  /\ k.stage = "seal"
  /\ IF type[c]["enc"] # "RSA" THEN Reject(c)
     ELSE call' = [call EXCEPT
            ![c].stage = "reply",
            ![c].todo = IF k.req.form = "jwe" THEN <<>> ELSE <<"server sig", "server enc">>]
  /\ UNCHANGED Local

\* KEMHandler.reply(): the operation is done by now.  A child that did not need
\* the server's keys before looks them up here.
Seal(c) ==
  LET k == call[c] IN
  /\ k.stage = "seal"
  /\ IF type[c]["enc"] # "RSA" THEN Finish(c, 500)
     ELSE call' = [call EXCEPT
            ![c].stage = "reply",
            ![c].todo = IF k.req.form = "jwe" THEN <<>> ELSE <<"server sig", "server enc">>]
  /\ UNCHANGED Local

\* make_enc_kem() of the reply
Stamp(c) ==
  LET k == call[c] IN
  /\ k.stage = "reply" /\ k.todo = <<>>
  /\ IF type[Server]["sig"] = "OKP" THEN Finish(c, 500)
     ELSE call' = [call EXCEPT
            ![c].stage = "audit", ![c].sealed = TRUE, ![c].exp = now + Life,
            ![c].code = IF k.req.op \in {"set", "create"} THEN 201 ELSE 200]
  /\ UNCHANGED Local

\* Secrets._audit() records how an operation on a key went; those on containers
\* are not audited.
Audit(c) ==
  LET k == call[c] IN
  /\ k.stage = "audit"
  /\ audit' = IF k.req.op \notin KeyOperations THEN audit
              ELSE [audit EXCEPT ![c] = IF k.code \in Successes THEN "allowed" ELSE "denied"]
  /\ Goto(c, "answered")
  /\ UNCHANGED <<type, now, skew, registry, secrets, acted>>

\* The child dies or the connection does.
Lose(c) ==
  /\ call[c].stage \in {"sent", "answered"} \cup ChildStages
  /\ call' = [call EXCEPT ![c].stage = "failed", ![c].code = 0]
  /\ UNCHANGED Local

\* raise_for_status(), json() and _kem_unwrap()
Open(c) ==
  LET k == call[c] IN
  /\ k.stage = "answered"
  /\ IF k.code \in Successes /\ k.sealed /\ Opens(c, {"server sig", "client enc"})
     THEN Goto(c, "reply horizon") ELSE Goto(c, "failed")
  /\ UNCHANGED Local

CheckReplyHorizon(c) ==
  /\ call[c].stage = "reply horizon"
  /\ Goto(c, IF TooFarAhead(call[c].exp, ClientTime(c)) THEN "failed" ELSE "reply expiry")
  /\ UNCHANGED Local

CheckReplyExpiry(c) ==
  /\ call[c].stage = "reply expiry"
  /\ Goto(c, IF Expired(call[c].exp, ClientTime(c)) THEN "failed" ELSE "ok")
  /\ UNCHANGED Local

--------------------------------------------------------------------------------
ServerStep(c) ==
  \/ Receive(c) \/ ReadKey(c) \/ Verify(c) \/ CheckHorizon(c) \/ CheckExpiry(c)
  \/ Serve(c) \/ Seal(c) \/ Stamp(c) \/ Audit(c)

ClientStep(c) == Open(c) \/ CheckReplyHorizon(c) \/ CheckReplyExpiry(c)

Next ==
  \/ Tick \/ Rekey
  \/ \E c \in Clients : Call(c) \/ ServerStep(c) \/ ClientStep(c) \/ Lose(c)

Spec == Init /\ [][Next]_vars

\* Neither side stops in the middle of a call by itself.
FairSpec ==
  Spec /\ \A c \in Clients : WF_vars(ServerStep(c)) /\ WF_vars(ClientStep(c))

--------------------------------------------------------------------------------
Abs(n) == IF n < 0 THEN -n ELSE n

\* The call has not taken longer than a message lives, less what the clocks differ.
InTime(c) == now - call[c].made <= Life - Abs(skew[c])

\* A row that was looked up did not hold the key that its owner has.
OtherKey(c) == \E row \in Rows : call[c].keys[row] \notin {Held, "unread"}

\* ... or could not be looked up.
KeyMissed(c) == OtherKey(c) \/ call[c].cause = "key store"

\* The types of keys that a reply cannot be made with.
Unsupported(c) == type[c]["enc"] # "RSA" \/ type[Server]["sig"] = "OKP"

\* A call fails only if the connection does, if Secrets refuses it (or has no
\* message for an answer), for its name or path, for a key that was replaced, is
\* of a type that replies do not support or could not be looked up for a failure
\* of the store it is in, or if it takes too long: not for
\* the clocks of both sides alone while they differ by less than Life, however
\* the four readings of them fall.
FailuresExplained ==
  \A c \in Clients : call[c].stage = "failed" =>
    LET k == call[c] IN
    \/ k.code = 0
    \/ acted[c] = 0 /\ k.cause = "secrets"
    \/ k.cause = "key store"
    \/ acted[c] = 0 /\ (~k.req.listed \/ k.req.sub # k.req.name)
    \/ acted[c] = 1 /\ Unsupported(c)
    \/ OtherKey(c)
    \/ ~InTime(c)

\* The expiry check of the server is what keeps a client whose clock is behind
\* from finding the answer, to something that was done, too far ahead.
RepliesNotEarly ==
  \A c \in Clients :
    call[c].sealed /\ call[c].stage \in {"audit", "answered", "reply horizon"} =>
      ~TooFarAhead(call[c].exp, ClientTime(c))

\* What the log says of an operation on a key is what was done, but for one that
\* was done and could not be replied to: it is logged as denied.  That is so for
\* types of keys that replies do not support, and if the server's keys, which a
\* request that is only signed did not need before, are not found then.
AuditTruth ==
  \A c \in Clients :
    /\ audit[c] = "allowed" => acted[c] = 1
    /\ audit[c] = "denied" /\ acted[c] = 1 =>
         Unsupported(c) \/ (call[c].req.form = "jws" /\ KeyMissed(c))

\* What a client may conclude from how its call ends: RemoteCall.
StatusOf(c) ==
  LET k == call[c] IN
  CASE k.stage = "idle" -> "idle"
    [] k.stage = "ok" -> "ok"
    [] k.stage = "failed" -> IF k.code \in 400..499 THEN "refused" ELSE "error"
    [] OTHER -> "sent"

Remote == INSTANCE RemoteCall WITH Requests <- Clients,
                                   status <- [c \in Clients |-> StatusOf(c)]

\* A call that succeeded was acted on once, and one that was refused never was,
\* although the reply is made after the operation and may fail.
Promise == Remote!Spec

\* A call that is made ends.
CallsEnd ==
  \A c \in Clients : call[c].stage = "sent" ~> call[c].stage \in {"ok", "failed"}
================================================================================
