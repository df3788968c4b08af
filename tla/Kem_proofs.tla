------------------------------- MODULE Kem_proofs -------------------------------
(***************************************************************************)
(* What is proved of calls with KEM messages: for any clients, keys,       *)
(* clocks and life of a message.                                           *)
(***************************************************************************)
EXTENDS Kem, TLAPS

--------------------------------------------------------------------------------
(* What the place of a call says of it.                                    *)

Early == {"sent", "keys", "horizon", "expiry", "store"}
Acting == {"seal", "reply"}
Past == {"audit", "answered"}
Opened == {"reply horizon", "reply expiry", "ok"}

Outcome(c) ==
  LET k == call[c] IN
  \/ acted[c] = 0 /\ ~k.sealed /\ k.code # 0 /\ (k.code \in Successes => k.req.op = "create")
  \/ acted[c] = 1 /\ k.sealed /\ k.code \in Successes
  \/ /\ acted[c] = 1 /\ ~k.sealed /\ k.code = 500
     /\ Unsupported(c) \/ (k.req.form = "jws" /\ KeyMissed(c))

Place(c) ==
  LET k == call[c] IN
  /\ k.stage # "idle" => k.req \in Requests
  /\ k.stage \in Early \cup {"idle"} => acted[c] = 0 /\ k.code = 0 /\ ~k.sealed
  /\ k.stage \in Acting => acted[c] = 1 /\ k.code = 0 /\ ~k.sealed
  /\ k.stage \in Early \cup Acting \cup {"idle", "audit"} => audit[c] = None
  /\ k.stage \in Past => Outcome(c)
  /\ k.stage \in Opened => acted[c] = 1 /\ k.sealed /\ k.code \in Successes
  /\ k.stage = "failed" /\ k.code \in 400..499 => acted[c] = 0
  /\ acted[c] \in {0, 1}

Clock(c) ==
  LET k == call[c] IN
  /\ k.stage # "idle" => k.made <= now
  /\ k.stage # "idle" /\ ~k.sealed => k.exp = k.made + skew[c] + Life
  /\ k.stage \in {"store", "seal", "reply"} \/ k.sealed => -Life <= skew[c]
  /\ k.sealed => k.made + Life <= k.exp /\ k.exp <= now + Life

\* A row is read before it matters what it holds.
Asked(c, row) ==
  \/ call[c].keys[row] # "unread"
  \/ \E i \in 1..Len(call[c].todo) : call[c].todo[i] = row

ForRequest(form) ==
  IF form = "jwe" THEN {"server sig", "server enc", "client sig", "client enc"}
                  ELSE {"client sig", "client enc"}

Keyed(c) ==
  LET k == call[c] IN
  /\ k.stage \in {"keys", "horizon", "expiry", "store", "seal", "reply"} =>
       \A row \in ForRequest(k.req.form) : Asked(c, row)
  /\ k.stage \in {"horizon", "expiry", "store", "seal"} => k.todo = <<>>
  /\ k.stage = "reply" => Asked(c, "server sig") /\ Asked(c, "client enc")
  /\ k.stage = "reply" /\ k.todo # <<>> => k.req.form = "jws"
  /\ k.sealed => k.keys["server sig"] # "unread" /\ k.keys["client enc"] # "unread"

\* A reason for which a call may fail, but for a lost connection.
Reason(c) ==
  LET k == call[c] IN
  \/ acted[c] = 0 /\ k.cause = "secrets"
  \/ k.cause = "key store"
  \/ acted[c] = 0 /\ (~k.req.listed \/ k.req.sub # k.req.name)
  \/ acted[c] = 1 /\ Unsupported(c)
  \/ OtherKey(c)
  \/ ~InTime(c)

Explained(c) ==
  LET k == call[c] IN
  /\ k.stage \in Past /\ ~k.sealed => Reason(c)
  /\ k.stage = "failed" => k.code = 0 \/ Reason(c)

Logged(c) ==
  /\ audit[c] = "allowed" => acted[c] = 1
  /\ audit[c] = "denied" /\ acted[c] = 1 =>
       Unsupported(c) \/ (call[c].req.form = "jws" /\ KeyMissed(c))

CallInv(c) == Place(c) /\ Clock(c) /\ Keyed(c) /\ Explained(c) /\ Logged(c)

--------------------------------------------------------------------------------
(* Types, and what steps leave alone.                                      *)

LEMMA CallTypes ==
  ASSUME KemTypeOK, NEW c \in Clients
  PROVE  /\ call[c] \in CallType
         /\ call[c].stage \in Stages /\ call[c].req \in Requests \cup {None}
         /\ call[c].made \in Nat /\ call[c].exp \in Int /\ call[c].todo \in Seq(Rows)
         /\ call[c].keys \in [Rows -> Keys \cup {None, "unread"}]
         /\ call[c].code \in Codes /\ call[c].cause \in Causes /\ call[c].sealed \in BOOLEAN
         /\ now \in Nat /\ skew[c] \in Int /\ Life \in Nat /\ acted[c] \in Nat
<1>1. call[c] \in CallType
  BY DEF KemTypeOK
<1>2. /\ call[c].stage \in Stages /\ call[c].req \in Requests \cup {None}
      /\ call[c].made \in Nat /\ call[c].exp \in Int /\ call[c].todo \in Seq(Rows)
      /\ call[c].keys \in [Rows -> Keys \cup {None, "unread"}]
      /\ call[c].code \in Codes /\ call[c].cause \in Causes /\ call[c].sealed \in BOOLEAN
  BY <1>1 DEF CallType
<1>3. now \in Nat /\ skew[c] \in Int /\ Life \in Nat /\ acted[c] \in Nat
  BY KemAssumption DEF KemTypeOK
<1> QED BY <1>1, <1>2, <1>3

\* The call of c becomes k, and no other changes.
Becomes(c, k) ==
  /\ call' \in [Clients -> CallType]
  /\ call'[c] = k
  /\ \A d \in Clients \ {c} : call'[d] = call[d]

LEMMA Updated ==
  ASSUME KemTypeOK, NEW c \in Clients, NEW STATE k, k \in CallType,
         call' = [call EXCEPT ![c] = k]
  PROVE  Becomes(c, k)
  BY DEF KemTypeOK, Becomes

\* Of a call, the fields that Goto and Finish leave alone.
SameToken(a, b) ==
  /\ a.cause = b.cause
  /\ a.req = b.req /\ a.made = b.made /\ a.exp = b.exp /\ a.todo = b.todo
  /\ a.keys = b.keys /\ a.sealed = b.sealed

LEMMA WentTo ==
  ASSUME KemTypeOK, NEW c \in Clients, NEW stage \in Stages, Goto(c, stage)
  PROVE  /\ Becomes(c, call'[c]) /\ call'[c].stage = stage
         /\ SameToken(call'[c], call[c]) /\ call'[c].code = call[c].code
<1> DEFINE k == [call[c] EXCEPT !.stage = stage]
<1>1. /\ k \in CallType /\ k.stage = stage /\ SameToken(k, call[c]) /\ k.code = call[c].code
  BY CallTypes DEF CallType, SameToken
<1>2. call' = [call EXCEPT ![c] = k]
  BY DEF Goto
<1> HIDE DEF k
<1>3. Becomes(c, k) /\ call'[c] = k
  BY <1>1, <1>2, Updated DEF Becomes
<1> QED BY <1>1, <1>3 DEF Becomes

LEMMA Finishes ==
  ASSUME KemTypeOK, NEW c \in Clients, NEW STATE code, code \in Codes, Finish(c, code)
  PROVE  /\ Becomes(c, call'[c]) /\ call'[c].stage = "audit"
         /\ SameToken(call'[c], call[c]) /\ call'[c].code = code
<1> DEFINE k == [call[c] EXCEPT !.stage = "audit", !.code = code]
<1>1. /\ k \in CallType /\ k.stage = "audit" /\ SameToken(k, call[c]) /\ k.code = code
  BY CallTypes DEF CallType, SameToken, Stages, ChildStages
<1>2. call' = [call EXCEPT ![c] = k]
  BY DEF Finish
<1> HIDE DEF k
<1>3. Becomes(c, k) /\ call'[c] = k
  BY <1>1, <1>2, Updated DEF Becomes
<1> QED BY <1>1, <1>3 DEF Becomes

LEMMA AbsBounds ==
  ASSUME NEW n \in Int
  PROVE  Abs(n) \in Int /\ n <= Abs(n) /\ -n <= Abs(n)
  BY DEF Abs

\* A call that nobody works on: only the clock goes on.
LEMMA Stable ==
  ASSUME KemTypeOK, NEW c \in Clients, CallInv(c), call'[c] = call[c],
         acted'[c] = acted[c], audit'[c] = audit[c], UNCHANGED <<type, skew>>,
         now' \in Nat, now <= now'
  PROVE  CallInv(c)'
<1>1. Place(c)'
  <2>1. Outcome(c) => Outcome(c)'
    <3>1. KeyMissed(c) => KeyMissed(c)'
      BY DEF OtherKey, KeyMissed
    <3>2. Unsupported(c) => Unsupported(c)'
      BY DEF Unsupported
    <3> QED BY <3>1, <3>2 DEF Outcome
  <2> QED BY <2>1 DEF CallInv, Place
<1>2. Clock(c)'
  <2>1. now <= now' /\ now \in Nat /\ call[c].made \in Nat /\ call[c].exp \in Int
        /\ Life \in Nat
    BY CallTypes
  <2> QED BY <2>1 DEF CallInv, Clock
<1>3. Keyed(c)'
  <2>1. \A row : Asked(c, row)' <=> Asked(c, row)
    BY DEF Asked
  <2> QED BY <2>1 DEF CallInv, Keyed
<1>4. ~InTime(c) => ~InTime(c)'
  <2>1. now \in Nat /\ call[c].made \in Nat /\ Life \in Nat /\ Abs(skew[c]) \in Int
    BY CallTypes, AbsBounds
  <2>2. Abs(skew[c])' = Abs(skew[c])
    OBVIOUS
  <2> QED BY <2>1, <2>2 DEF InTime
<1>5. Explained(c)'
  BY <1>4 DEF CallInv, Explained, Reason, Unsupported, OtherKey, KeyMissed
<1>6. Logged(c)'
  BY DEF CallInv, Logged, Unsupported, OtherKey, KeyMissed
<1> QED BY <1>1, <1>2, <1>3, <1>5, <1>6 DEF CallInv

--------------------------------------------------------------------------------
(* Why calls fail.                                                         *)

LEMMA ExpiredTooLong ==
  ASSUME KemTypeOK, NEW c \in Clients, CallInv(c), call[c].stage \in Early,
         Expired(call[c].exp, now)
  PROVE  ~InTime(c)
<1>1. call[c].exp = call[c].made + skew[c] + Life
  BY DEF CallInv, Place, Clock, Early
<1>2. /\ call[c].made \in Nat /\ now \in Nat /\ Life \in Nat /\ skew[c] \in Int
      /\ Abs(skew[c]) \in Int /\ -skew[c] <= Abs(skew[c])
  BY CallTypes, AbsBounds
<1> QED BY <1>1, <1>2 DEF InTime, Expired

LEMMA AheadTooFar ==
  ASSUME KemTypeOK, NEW c \in Clients, CallInv(c), call[c].stage \in Early,
         TooFarAhead(call[c].exp, now)
  PROVE  ~InTime(c)
<1>1. call[c].exp = call[c].made + skew[c] + Life /\ call[c].made <= now
  BY DEF CallInv, Place, Clock, Early
<1>2. /\ call[c].made \in Nat /\ now \in Nat /\ Life \in Nat /\ skew[c] \in Int
      /\ Abs(skew[c]) \in Int /\ skew[c] <= Abs(skew[c])
  BY CallTypes, AbsBounds
<1>3. skew[c] > Life
  BY <1>1, <1>2 DEF TooFarAhead
<1> QED BY <1>1, <1>2, <1>3 DEF InTime

\* The child is done with a request that it does not answer with a message.
LEMMA Finished ==
  ASSUME KemTypeOK, NEW c \in Clients, CallInv(c), call[c].stage \in Early \cup Acting,
         UNCHANGED <<type, now, skew, acted, audit>>,
         call'[c].stage = "audit", ~call'[c].sealed,
         call'[c].req = call[c].req, call'[c].made = call[c].made,
         call'[c].exp = call[c].exp,
         Outcome(c)', Reason(c)'
  PROVE  CallInv(c)'
<1>1. Place(c)'
  BY DEF CallInv, Place, Early, Acting, Past, Opened
<1>2. Clock(c)'
  BY DEF CallInv, Place, Clock, Early, Acting
<1>3. Keyed(c)'
  BY DEF Keyed
<1>4. Explained(c)'
  BY DEF Explained, Past
<1>5. Logged(c)'
  <2>1. audit'[c] = None
    BY DEF CallInv, Place
  <2>2. audit'[c] # "allowed" /\ audit'[c] # "denied"
    BY <2>1, KemAssumption
  <2> QED BY <2>2 DEF Logged
<1> QED BY <1>1, <1>2, <1>3, <1>4, <1>5 DEF CallInv

LEMMA Rejected ==
  ASSUME KemTypeOK, NEW c \in Clients, CallInv(c), call[c].stage \in Early,
         Reject(c), UNCHANGED Local,
         \/ ~call[c].req.listed \/ call[c].req.sub # call[c].req.name
         \/ OtherKey(c) \/ ~InTime(c)
  PROVE  Becomes(c, call'[c]) /\ CallInv(c)'
<1> DEFINE code == IF call[c].req.op = "set" THEN 400 ELSE 406
<1>1. code \in Codes /\ code \in {400, 406}
  BY DEF Codes, Successes
<1>2. Finish(c, code)
  BY DEF Reject
<1> HIDE DEF code
<1>3. /\ Becomes(c, call'[c]) /\ call'[c].stage = "audit"
      /\ SameToken(call'[c], call[c]) /\ call'[c].code = code
  BY <1>1, <1>2, Finishes
<1>4. acted[c] = 0 /\ ~call[c].sealed
  BY DEF CallInv, Place, Early
<1>5. Outcome(c)'
  BY <1>1, <1>3, <1>4 DEF Outcome, SameToken, Successes, Local
<1>6. Reason(c)'
  BY <1>3, <1>4 DEF Reason, SameToken, OtherKey, InTime, Local
<1> QED BY <1>3, <1>4, <1>5, <1>6, Finished DEF SameToken, Local

--------------------------------------------------------------------------------
(* Steps of the child.                                                     *)

\* A step that neither answers nor acts.
LEMMA WentOn ==
  ASSUME KemTypeOK, NEW c \in Clients, CallInv(c), NEW stage \in Stages, Goto(c, stage),
         UNCHANGED Local,
         \/ call[c].stage = "keys" /\ call[c].todo = <<>> /\ stage = "horizon"
         \/ call[c].stage = "horizon" /\ stage = "expiry"
         \/ call[c].stage = "expiry" /\ stage = "store" /\ ~Expired(call[c].exp, now)
  PROVE  Becomes(c, call'[c]) /\ CallInv(c)'
<1>1. /\ Becomes(c, call'[c]) /\ call'[c].stage = stage
      /\ SameToken(call'[c], call[c]) /\ call'[c].code = call[c].code
  BY WentTo
<1>2. stage \in {"horizon", "expiry", "store"} /\ call[c].stage \in Early /\ stage \in Early
  BY DEF Early
<1>3. Place(c)'
  BY <1>1, <1>2 DEF CallInv, Place, SameToken, Early, Acting, Past, Opened, Local
<1>4. Clock(c)'
  <2>1. /\ call[c].exp = call[c].made + skew[c] + Life /\ call[c].made <= now
        /\ ~call[c].sealed
    BY <1>2 DEF CallInv, Place, Clock, Early
  <2>2. stage = "store" => -Life <= skew[c]
    BY <2>1, CallTypes DEF Expired
  <2> QED BY <1>1, <1>2, <2>1, <2>2 DEF Clock, SameToken, Local
<1>5. Keyed(c)'
  <2>1. \A row : Asked(c, row)' <=> Asked(c, row)
    BY <1>1 DEF Asked, SameToken
  <2>2. /\ \A row \in ForRequest(call[c].req.form) : Asked(c, row)
        /\ call[c].todo = <<>> /\ ~call[c].sealed
    BY <1>2 DEF CallInv, Place, Keyed
  <2> QED BY <1>1, <1>2, <2>1, <2>2 DEF Keyed, SameToken
<1>6. Explained(c)'
  BY <1>1, <1>2 DEF Explained, Past
<1>7. Logged(c)'
  BY <1>1 DEF CallInv, Logged, Unsupported, OtherKey, KeyMissed, SameToken, Local
<1> QED BY <1>1, <1>3, <1>4, <1>5, <1>6, <1>7 DEF CallInv

LEMMA CallStep ==
  ASSUME KemTypeOK, NEW c \in Clients, CallInv(c), Call(c)
  PROVE  Becomes(c, call'[c]) /\ CallInv(c)'
<1>1. PICK r \in Requests :
        call' = [call EXCEPT ![c] = [NoCall EXCEPT !.stage = "sent", !.req = r,
                                      !.made = now, !.exp = ClientTime(c) + Life]]
  BY DEF Call
<1> DEFINE k == [NoCall EXCEPT !.stage = "sent", !.req = r,
                               !.made = now, !.exp = ClientTime(c) + Life]
<1>2. /\ k.stage = "sent" /\ k.req = r /\ k.made = now /\ k.exp = now + skew[c] + Life
      /\ k.todo = <<>> /\ k.keys = [row \in Rows |-> "unread"] /\ k.code = 0
      /\ k.sealed = FALSE
  BY DEF NoCall, ClientTime
<1>3. k \in CallType
  <2>1. now \in Nat /\ now + skew[c] + Life \in Int
    BY CallTypes
  <2>2. <<>> \in Seq(Rows) /\ [row \in Rows |-> "unread"] \in [Rows -> Keys \cup {None, "unread"}]
    OBVIOUS
  <2>3. NoCall \in CallType
    BY <2>2 DEF NoCall, CallType, Stages, Codes, Causes
  <2> QED BY <2>1, <2>3 DEF CallType, Stages, ClientTime
<1> HIDE DEF k
<1>4. Becomes(c, k) /\ call'[c] = k
  BY <1>1, <1>3, Updated DEF k, Becomes
<1>5. acted[c] = 0 /\ audit[c] = None /\ call[c].stage = "idle" /\ UNCHANGED Local
  BY DEF Call, CallInv, Place, Early
<1>6. audit[c] # "allowed" /\ audit[c] # "denied"
  BY <1>5, KemAssumption
<1>7. Place(c)'
  BY <1>2, <1>4, <1>5 DEF Place, Early, Acting, Past, Opened, Local
<1>8. Clock(c)'
  BY <1>2, <1>4, <1>5, CallTypes DEF Clock, Local
<1>9. Keyed(c)' /\ Explained(c)' /\ Logged(c)'
  BY <1>2, <1>4, <1>5, <1>6 DEF Keyed, Explained, Logged, Past, Local
<1> QED BY <1>4, <1>7, <1>8, <1>9 DEF CallInv

JweRows == <<"server sig", "server enc", "client sig", "client enc">>
JwsRows == <<"client sig", "client enc">>

LEMMA RowsToRead ==
  /\ JweRows \in Seq(Rows) /\ JwsRows \in Seq(Rows)
  /\ \A row \in ForRequest("jwe") : \E i \in 1..Len(JweRows) : JweRows[i] = row
  /\ \A row \in ForRequest("jws") : \E i \in 1..Len(JwsRows) : JwsRows[i] = row
<1>1. /\ JweRows \in Seq(Rows) /\ Len(JweRows) = 4
      /\ JweRows[1] = "server sig" /\ JweRows[2] = "server enc"
      /\ JweRows[3] = "client sig" /\ JweRows[4] = "client enc"
  BY DEF Rows, JweRows
<1>2. /\ JwsRows \in Seq(Rows) /\ Len(JwsRows) = 2
      /\ JwsRows[1] = "client sig" /\ JwsRows[2] = "client enc"
  BY DEF Rows, JwsRows
<1>3. ForRequest("jwe") = {"server sig", "server enc", "client sig", "client enc"}
  BY DEF ForRequest
<1>4. ForRequest("jws") = {"client sig", "client enc"}
  BY DEF ForRequest
<1>5. 1 \in 1..4 /\ 2 \in 1..4 /\ 3 \in 1..4 /\ 4 \in 1..4 /\ 1 \in 1..2 /\ 2 \in 1..2
  OBVIOUS
<1>6. \A row \in ForRequest("jwe") : \E i \in 1..Len(JweRows) : JweRows[i] = row
  BY <1>1, <1>3, <1>5
<1>7. \A row \in ForRequest("jws") : \E i \in 1..Len(JwsRows) : JwsRows[i] = row
  BY <1>2, <1>4, <1>5
<1> QED BY <1>1, <1>2, <1>6, <1>7

LEMMA ReceiveStep ==
  ASSUME KemTypeOK, NEW c \in Clients, CallInv(c), Receive(c)
  PROVE  Becomes(c, call'[c]) /\ CallInv(c)'
<1>1. call[c].stage = "sent" /\ UNCHANGED Local
  BY DEF Receive
<1>2. CASE ~call[c].req.listed /\ Reject(c)
  BY <1>1, <1>2, Rejected DEF Early
<1> DEFINE todo == IF call[c].req.form = "jwe" THEN JweRows ELSE JwsRows
<1>3. CASE call' = [call EXCEPT ![c].stage = "keys", ![c].todo = todo]
  <2> DEFINE k == [call[c] EXCEPT !.stage = "keys", !.todo = todo]
  <2>1. todo \in Seq(Rows)
    BY RowsToRead
  <2>2. \A row \in ForRequest(call[c].req.form) : \E i \in 1..Len(todo) : todo[i] = row
    <3>1. ForRequest(call[c].req.form) =
            IF call[c].req.form = "jwe" THEN ForRequest("jwe") ELSE ForRequest("jws")
      BY DEF ForRequest
    <3> QED BY <3>1, RowsToRead
  <2> HIDE DEF todo
  <2>3. /\ k \in CallType /\ k.stage = "keys" /\ k.todo = todo /\ k.req = call[c].req
        /\ k.made = call[c].made /\ k.exp = call[c].exp /\ k.keys = call[c].keys
        /\ k.code = call[c].code /\ k.sealed = call[c].sealed
    BY <2>1, CallTypes DEF CallType, Stages, ChildStages
  <2>4. call' = [call EXCEPT ![c] = k]
    BY <1>3
  <2> HIDE DEF k
  <2>5. Becomes(c, k) /\ call'[c] = k
    BY <2>3, <2>4, Updated DEF Becomes
  <2>6. Place(c)' /\ Clock(c)'
    BY <1>1, <2>3, <2>5 DEF CallInv, Place, Clock, Early, Acting, Past, Opened, Local
  <2>7. ~call[c].sealed
    BY <1>1 DEF CallInv, Place, Early
  <2>8. Keyed(c)'
    BY <2>2, <2>3, <2>5, <2>7 DEF Keyed, Asked
  <2>9. Explained(c)' /\ Logged(c)'
    <3>1. audit'[c] # "allowed" /\ audit'[c] # "denied"
      BY <1>1, KemAssumption DEF CallInv, Place, Early, Local
    <3> QED BY <2>3, <2>5, <3>1 DEF Explained, Logged, Past
  <2> QED BY <2>5, <2>6, <2>8, <2>9 DEF CallInv
<1> QED BY <1>2, <1>3 DEF Receive, JweRows, JwsRows

LEMMA LookupTypes ==
  ASSUME KemTypeOK, NEW c \in Clients, NEW row \in Rows
  PROVE  Lookup(c, row) \in Keys \cup {None} /\ Lookup(c, row) # "unread"
<1>1. /\ registry[Server]["sig"] \in Keys \cup {None}
      /\ registry[Server]["enc"] \in Keys \cup {None}
      /\ registry[c]["sig"] \in Keys \cup {None}
      /\ registry[c]["enc"] \in Keys \cup {None}
  BY DEF KemTypeOK, Owners, Usages
<1>2. Lookup(c, row) \in Keys \cup {None}
  BY <1>1 DEF Lookup, Rows
<1> QED BY <1>2, KemAssumption

\* What a look-up makes of the rows that are still to be read.
LEMMA ReadOne ==
  ASSUME KemTypeOK, NEW c \in Clients, call[c].todo # <<>>,
         call'[c].todo = Tail(call[c].todo),
         call'[c].keys = [call[c].keys EXCEPT ![Head(call[c].todo)] =
                            Lookup(c, Head(call[c].todo))]
  PROVE  /\ Head(call[c].todo) \in Rows
         /\ \A row \in Rows : Asked(c, row) => Asked(c, row)'
<1> DEFINE todo == call[c].todo
<1> DEFINE first == Head(todo)
<1>1. /\ todo \in Seq(Rows) /\ Len(todo) \in Nat \ {0} /\ first \in Rows /\ first = todo[1]
      /\ Len(Tail(todo)) = Len(todo) - 1
      /\ \A i \in 1..Len(Tail(todo)) : Tail(todo)[i] = todo[i + 1]
  BY CallTypes
<1>2. Lookup(c, first) # "unread"
  BY <1>1, LookupTypes
<1>3. /\ call'[c].keys[first] = Lookup(c, first)
      /\ \A row \in Rows \ {first} : call'[c].keys[row] = call[c].keys[row]
  BY <1>1, CallTypes
<1>4. ASSUME NEW row \in Rows, Asked(c, row)
      PROVE  Asked(c, row)'
  <2>1. CASE row = first
    BY <1>2, <1>3, <2>1 DEF Asked
  <2>2. CASE row # first /\ call[c].keys[row] # "unread"
    BY <1>3, <2>2 DEF Asked
  <2>3. CASE row # first /\ \E i \in 1..Len(todo) : todo[i] = row
    <3>1. PICK i \in 1..Len(todo) : todo[i] = row
      BY <2>3
    <3>2. i - 1 \in 1..Len(Tail(todo)) /\ Tail(todo)[i - 1] = row
      BY <1>1, <2>3, <3>1
    <3>3. \E j \in 1..Len(call'[c].todo) : call'[c].todo[j] = row
      BY <3>2
    <3> QED BY <3>3 DEF Asked
  <2> QED BY <1>4, <2>1, <2>2, <2>3 DEF Asked
<1> QED BY <1>1, <1>4

\* A key that is needed is not found.
LEMMA NotFound ==
  ASSUME KemTypeOK, NEW c \in Clients, CallInv(c), UNCHANGED Local,
         call[c].stage \in {"keys", "reply"}, call[c].todo # <<>>,
         NEW STATE k, k \in CallType, k.stage = call[c].stage, k.req = call[c].req,
         k.made = call[c].made, k.exp = call[c].exp, k.sealed = call[c].sealed,
         KeyNotFound(c, k)
  PROVE  /\ Becomes(c, call'[c]) /\ SameToken(call'[c], k)
         /\ KeyMissed(c)' => CallInv(c)'
<1> DEFINE code == IF k.stage = "reply" THEN 500 ELSE IF k.req.op = "set" THEN 400 ELSE 406
<1> DEFINE ended == [k EXCEPT !.stage = "audit", !.code = code]
<1>1. /\ code \in Codes \ {0} /\ code \notin Successes
      /\ k.stage = "reply" => code = 500
  BY DEF Codes, Successes
<1> HIDE DEF code
<1>2. /\ ended \in CallType /\ ended.stage = "audit" /\ ended.code = code
      /\ SameToken(ended, k)
  BY <1>1 DEF CallType, Stages, ChildStages, SameToken
<1>3. call' = [call EXCEPT ![c] = ended]
  BY DEF KeyNotFound, code
<1> HIDE DEF ended
<1>4. Becomes(c, ended) /\ call'[c] = ended
  BY <1>2, <1>3, Updated DEF Becomes
<1>5. ASSUME KeyMissed(c)'
      PROVE  CallInv(c)'
  <2>1. /\ call[c].stage \in Early \cup Acting /\ ~call[c].sealed
        /\ acted[c] = (IF call[c].stage = "keys" THEN 0 ELSE 1)
        /\ call[c].stage = "reply" => call[c].req.form = "jws"
    BY DEF CallInv, Place, Keyed, Early, Acting
  <2>2. Outcome(c)'
    BY <1>1, <1>2, <1>4, <1>5, <2>1 DEF Outcome, SameToken, Local
  <2>3. Reason(c)'
    BY <1>5 DEF Reason, KeyMissed
  <2> QED BY <1>2, <1>4, <2>1, <2>2, <2>3, Finished DEF SameToken, Local
<1> QED BY <1>2, <1>4, <1>5

LEMMA ReadKeyStep ==
  ASSUME KemTypeOK, NEW c \in Clients, CallInv(c), ReadKey(c)
  PROVE  Becomes(c, call'[c]) /\ CallInv(c)'
<1> DEFINE row == Head(call[c].todo)
<1> DEFINE key == Lookup(c, row)
<1> DEFINE keys == [call[c].keys EXCEPT ![row] = key]
<1> DEFINE read == [call[c] EXCEPT !.todo = Tail(call[c].todo), !.keys[row] = key]
<1>1. /\ call[c].stage \in {"keys", "reply"} /\ call[c].todo # <<>> /\ UNCHANGED Local
  BY DEF ReadKey
<1>2. /\ row \in Rows /\ Tail(call[c].todo) \in Seq(Rows)
  BY <1>1, CallTypes
<1>3. keys \in [Rows -> Keys \cup {None, "unread"}] /\ keys[row] = key
  BY <1>2, CallTypes, LookupTypes
<1>4. read = [call[c] EXCEPT !.todo = Tail(call[c].todo), !.keys = keys]
  OBVIOUS
<1> HIDE DEF keys
<1>5. /\ read \in CallType /\ read.todo = Tail(call[c].todo) /\ read.keys = keys
      /\ read.stage = call[c].stage /\ read.req = call[c].req
      /\ read.made = call[c].made /\ read.exp = call[c].exp
      /\ read.code = call[c].code /\ read.sealed = call[c].sealed
      /\ read.cause = call[c].cause
  BY <1>2, <1>3, <1>4, CallTypes DEF CallType
<1>6. CASE key # None /\ call' = [call EXCEPT ![c] = read]
  <2> HIDE DEF read
  <2>1. Becomes(c, read) /\ call'[c] = read
    BY <1>5, <1>6, Updated DEF Becomes
  <2>2. \A r \in Rows : Asked(c, r) => Asked(c, r)'
    BY <1>1, <1>5, <2>1, ReadOne DEF keys
  <2>3. Place(c)' /\ Clock(c)'
    BY <1>1, <1>5, <2>1 DEF CallInv, Place, Clock, Early, Acting, Past, Opened, Local
  <2>4. ~call[c].sealed
    BY <1>1 DEF CallInv, Place, Early, Acting
  <2>5. Keyed(c)'
    <3>1. ForRequest(call[c].req.form) \subseteq Rows /\ "server sig" \in Rows
          /\ "client enc" \in Rows
      BY DEF ForRequest, Rows
    <3>2. \A r \in ForRequest(call[c].req.form) : Asked(c, r)'
      BY <1>1, <2>2, <3>1 DEF CallInv, Keyed
    <3>3. call[c].stage = "reply" => /\ Asked(c, "server sig")' /\ Asked(c, "client enc")'
                                     /\ call[c].req.form = "jws"
      BY <1>1, <2>2, <3>1 DEF CallInv, Keyed
    <3> QED BY <1>1, <1>5, <2>1, <2>4, <3>2, <3>3 DEF Keyed
  <2>6. Explained(c)'
    BY <1>1, <1>5, <2>1 DEF Explained, Past
  <2>7. Logged(c)'
    <3>1. audit[c] = None
      BY <1>1 DEF CallInv, Place, Early, Acting
    <3> QED BY <1>1, <3>1, KemAssumption DEF Logged, Local
  <2> QED BY <2>1, <2>3, <2>5, <2>6, <2>7 DEF CallInv
<1>7. CASE key = None /\ KeyNotFound(c, read)
  <2> HIDE DEF read
  <2>1. /\ Becomes(c, call'[c]) /\ SameToken(call'[c], read)
    BY <1>1, <1>5, <1>7, NotFound DEF SameToken
  <2>2. OtherKey(c)'
    <3>1. call'[c].keys[row] = None
      BY <1>3, <1>5, <1>7, <2>1 DEF SameToken
    <3>2. None \notin {Held, "unread"}
      BY KemAssumption
    <3> QED BY <1>2, <3>1, <3>2 DEF OtherKey
  <2> QED BY <1>1, <1>5, <1>7, <2>2, NotFound DEF KeyMissed
<1>8. CASE KeyNotFound(c, [call[c] EXCEPT !.cause = "key store"])
  <2> DEFINE k == [call[c] EXCEPT !.cause = "key store"]
  <2>1. /\ k \in CallType /\ k.cause = "key store"
        /\ k.stage = call[c].stage /\ k.req = call[c].req
        /\ k.made = call[c].made /\ k.exp = call[c].exp
        /\ k.sealed = call[c].sealed
    BY CallTypes DEF CallType, Causes
  <2> HIDE DEF k
  <2>2. KeyNotFound(c, k)
    BY <1>8 DEF k
  <2>3. call'[c].cause = "key store"
    BY <1>1, <2>1, <2>2, NotFound DEF SameToken
  <2> QED BY <1>1, <2>1, <2>2, <2>3, NotFound DEF KeyMissed
<1> QED BY <1>6, <1>7, <1>8 DEF ReadKey

LEMMA AllRead ==
  ASSUME NEW c \in Clients, call[c].todo = <<>>, NEW row, Asked(c, row)
  PROVE  call[c].keys[row] # "unread"
<1>1. Len(call[c].todo) = 0
  OBVIOUS
<1>2. ~ \E i \in 1..Len(call[c].todo) : call[c].todo[i] = row
  BY <1>1
<1> QED BY <1>2 DEF Asked

LEMMA VerifyStep ==
  ASSUME KemTypeOK, NEW c \in Clients, CallInv(c), Verify(c)
  PROVE  Becomes(c, call'[c]) /\ CallInv(c)'
<1> DEFINE rows == IF call[c].req.form = "jwe" THEN {"server enc", "client sig"}
                                                ELSE {"client sig"}
<1>1. /\ call[c].stage = "keys" /\ call[c].todo = <<>> /\ UNCHANGED Local
      /\ IF Opens(c, rows) THEN Goto(c, "horizon") ELSE Reject(c)
  BY DEF Verify
<1>2. CASE Opens(c, rows) /\ Goto(c, "horizon")
  BY <1>1, <1>2, WentOn DEF Stages, ChildStages
<1>3. CASE ~Opens(c, rows) /\ Reject(c)
  <2>1. PICK row \in rows : call[c].keys[row] # Held
    BY <1>3 DEF Opens
  <2>2. row \in ForRequest(call[c].req.form) /\ row \in Rows
    BY <2>1 DEF ForRequest, Rows
  <2>3. call[c].keys[row] # "unread"
    <3>1. Asked(c, row)
      BY <1>1, <2>2 DEF CallInv, Keyed
    <3> QED BY <1>1, <3>1, AllRead
  <2>4. OtherKey(c)
    BY <2>1, <2>2, <2>3 DEF OtherKey
  <2> QED BY <1>1, <1>3, <2>4, Rejected DEF Early
<1> QED BY <1>1, <1>2, <1>3

LEMMA CheckHorizonStep ==
  ASSUME KemTypeOK, NEW c \in Clients, CallInv(c), CheckHorizon(c)
  PROVE  Becomes(c, call'[c]) /\ CallInv(c)'
<1>1. /\ call[c].stage = "horizon" /\ call[c].stage \in Early /\ UNCHANGED Local
  BY DEF CheckHorizon, Early
<1>2. CASE Goto(c, "expiry")
  BY <1>1, <1>2, WentOn DEF Stages, ChildStages
<1>3. CASE call[c].req.sub # call[c].req.name /\ Reject(c)
  BY <1>1, <1>3, Rejected
<1>4. CASE TooFarAhead(call[c].exp, now) /\ Reject(c)
  BY <1>1, <1>4, AheadTooFar, Rejected
<1> QED BY <1>2, <1>3, <1>4 DEF CheckHorizon

LEMMA CheckExpiryStep ==
  ASSUME KemTypeOK, NEW c \in Clients, CallInv(c), CheckExpiry(c)
  PROVE  Becomes(c, call'[c]) /\ CallInv(c)'
<1>1. /\ call[c].stage = "expiry" /\ call[c].stage \in Early /\ UNCHANGED Local
  BY DEF CheckExpiry, Early
<1>2. CASE ~Expired(call[c].exp, now) /\ Goto(c, "store")
  BY <1>1, <1>2, WentOn DEF Stages, ChildStages
<1>3. CASE Expired(call[c].exp, now) /\ Reject(c)
  BY <1>1, <1>3, ExpiredTooLong, Rejected
<1> QED BY <1>2, <1>3 DEF CheckExpiry

\* The operation is done, and no message can be made of that.
LEMMA FinishedWith ==
  ASSUME KemTypeOK, NEW c \in Clients, CallInv(c), call[c].stage \in Early \cup Acting,
         Finish(c, 500), UNCHANGED <<type, now, skew, acted, audit>>,
         acted[c] = 1, Unsupported(c)
  PROVE  Becomes(c, call'[c]) /\ CallInv(c)'
<1>1. /\ Becomes(c, call'[c]) /\ call'[c].stage = "audit"
      /\ SameToken(call'[c], call[c]) /\ call'[c].code = 500
  BY Finishes DEF Codes
<1>2. ~call[c].sealed
  BY DEF CallInv, Place
<1>3. Unsupported(c) => Unsupported(c)'
  BY DEF Unsupported
<1>4. Outcome(c)' /\ Reason(c)'
  BY <1>1, <1>2, <1>3 DEF Outcome, Reason, SameToken
<1> QED BY <1>1, <1>2, <1>4, Finished DEF SameToken

LEMMA RefuseStep ==
  ASSUME KemTypeOK, NEW c \in Clients, CallInv(c), call[c].stage = "store", Refuse(c),
         UNCHANGED <<type, now, skew, acted, audit>>
  PROVE  Becomes(c, call'[c]) /\ CallInv(c)' /\ call'[c].stage = "audit"
<1>1. PICK code \in Refusals(call[c].req) :
        call' = [call EXCEPT ![c].stage = "audit", ![c].code = code, ![c].cause = "secrets"]
  BY DEF Refuse
<1>2. code \in Codes \ {0} /\ (code \in Successes => call[c].req.op = "create")
  <2>1. \/ code \in {403, 404, 406, 409, 500, 501}
        \/ code = 200 /\ call[c].req.op = "create"
    <3>1. call[c].req.op \in {"get", "set", "del", "list", "create", "destroy"}
      <4>1. call[c].req \in Requests
        BY DEF CallInv, Place
      <4> QED BY <4>1, KemAssumption DEF Operations, KeyOperations
    <3>2. CASE call[c].req.op = "create"
      BY <3>2 DEF Refusals
    <3>3. CASE call[c].req.op \in {"get", "set"}
      BY <3>3 DEF Refusals
    <3>4. CASE call[c].req.op \in {"del", "list", "destroy"}
      BY <3>4 DEF Refusals
    <3> QED BY <3>1, <3>2, <3>3, <3>4
  <2> QED BY <2>1 DEF Codes, Successes
<1> DEFINE k == [call[c] EXCEPT !.stage = "audit", !.code = code, !.cause = "secrets"]
<1>3. /\ k \in CallType /\ k.stage = "audit" /\ k.code = code /\ k.cause = "secrets"
      /\ k.req = call[c].req /\ k.made = call[c].made /\ k.exp = call[c].exp
      /\ k.sealed = call[c].sealed
  <2>1. call[c] \in CallType
    BY CallTypes
  <2>2. "audit" \in Stages /\ code \in Codes /\ "secrets" \in Causes
    BY <1>2 DEF Stages, ChildStages, Causes
  <2> QED BY <2>1, <2>2 DEF CallType
<1>4. call' = [call EXCEPT ![c] = k]
  BY <1>1
<1> HIDE DEF k
<1>5. Becomes(c, k) /\ call'[c] = k
  BY <1>3, <1>4, Updated DEF Becomes
<1>6. call[c].stage \in Early /\ acted[c] = 0 /\ ~call[c].sealed
  BY DEF CallInv, Place, Early
<1>7. Outcome(c)' /\ Reason(c)'
  BY <1>2, <1>3, <1>5, <1>6 DEF Outcome, Reason
<1> QED BY <1>3, <1>5, <1>6, <1>7, Finished

LEMMA ServeStep ==
  ASSUME KemTypeOK, NEW c \in Clients, CallInv(c), Serve(c)
  PROVE  /\ Becomes(c, call'[c]) /\ CallInv(c)'
         /\ \/ UNCHANGED <<secrets, acted>>
            \/ /\ Possible(call[c].req) /\ secrets' = Carried(call[c].req)
               /\ acted[c] = 0 /\ acted' = [acted EXCEPT ![c] = 1]
               /\ call'[c].stage = "seal"
<1>1. /\ call[c].stage = "store" /\ UNCHANGED <<type, now, skew, registry, audit>>
      /\ acted[c] = 0 /\ ~call[c].sealed /\ call[c].code = 0
      /\ call[c].stage \in Early
  BY DEF Serve, CallInv, Place, Early
<1>2. CASE /\ Possible(call[c].req) /\ secrets' = Carried(call[c].req)
           /\ acted' = [acted EXCEPT ![c] = @ + 1]
           /\ Goto(c, "seal")
  <2>1. /\ Becomes(c, call'[c]) /\ call'[c].stage = "seal"
        /\ SameToken(call'[c], call[c]) /\ call'[c].code = call[c].code
    BY <1>2, WentTo DEF Stages, ChildStages
  <2>2. acted' = [acted EXCEPT ![c] = 1] /\ acted'[c] = 1
    BY <1>1, <1>2 DEF KemTypeOK
  <2>3. audit[c] = None
    BY <1>1 DEF CallInv, Place, Early
  <2>4. Place(c)'
    BY <1>1, <2>1, <2>2, <2>3
    DEF CallInv, Place, SameToken, Early, Acting, Past, Opened
  <2>5. Clock(c)'
    BY <1>1, <2>1 DEF CallInv, Clock, SameToken
  <2>6. Keyed(c)'
    <3>1. \A row : Asked(c, row)' <=> Asked(c, row)
      BY <2>1 DEF Asked, SameToken
    <3> QED BY <1>1, <2>1, <3>1 DEF CallInv, Keyed, SameToken
  <2>7. Explained(c)' /\ Logged(c)'
    BY <1>1, <2>1, <2>3, KemAssumption DEF Explained, Logged, Past
  <2> QED BY <1>1, <1>2, <2>1, <2>2, <2>4, <2>5, <2>6, <2>7 DEF CallInv
<1>3. CASE Refuse(c) /\ UNCHANGED <<secrets, acted>>
  BY <1>1, <1>3, RefuseStep
<1> QED BY <1>2, <1>3 DEF Serve

\* A message with an answer begins to be made.
LEMMA SealStep ==
  ASSUME KemTypeOK, NEW c \in Clients, CallInv(c), Seal(c)
  PROVE  Becomes(c, call'[c]) /\ CallInv(c)'
<1> DEFINE todo == IF call[c].req.form = "jwe" THEN <<>> ELSE <<"server sig", "server enc">>
<1>1. /\ call[c].stage = "seal" /\ UNCHANGED Local
      /\ acted[c] = 1 /\ ~call[c].sealed /\ call[c].code = 0 /\ call[c].todo = <<>>
      /\ call[c].stage \in Acting /\ audit[c] = None
  BY DEF Seal, CallInv, Place, Keyed, Acting
<1>2. CASE type[c]["enc"] # "RSA" /\ Finish(c, 500)
  <2>1. Unsupported(c)
    BY <1>2 DEF Unsupported
  <2> QED BY <1>1, <1>2, <2>1, FinishedWith DEF Local
<1>3. CASE call' = [call EXCEPT ![c].stage = "reply", ![c].todo = todo]
  <2> DEFINE k == [call[c] EXCEPT !.stage = "reply", !.todo = todo]
  <2>1. /\ todo \in Seq(Rows)
        /\ call[c].req.form = "jwe" \/ \E i \in 1..Len(todo) : todo[i] = "server sig"
        /\ todo # <<>> => call[c].req.form # "jwe"
    <3>1. CASE call[c].req.form = "jwe"
      BY <3>1
    <3>2. CASE call[c].req.form # "jwe"
      <4>1. todo \in Seq(Rows) /\ Len(todo) = 2 /\ todo[1] = "server sig"
        BY <3>2 DEF Rows
      <4>2. 1 \in 1..2
        OBVIOUS
      <4> QED BY <3>2, <4>1, <4>2
    <3> QED BY <3>1, <3>2
  <2> HIDE DEF todo
  <2>2. /\ k \in CallType /\ k.stage = "reply" /\ k.todo = todo /\ k.req = call[c].req
        /\ k.made = call[c].made /\ k.exp = call[c].exp /\ k.keys = call[c].keys
        /\ k.code = call[c].code /\ k.sealed = call[c].sealed
    BY <2>1, CallTypes DEF CallType, Stages, ChildStages
  <2>3. call' = [call EXCEPT ![c] = k]
    BY <1>3
  <2> HIDE DEF k
  <2>4. Becomes(c, k) /\ call'[c] = k
    BY <2>2, <2>3, Updated DEF Becomes
  <2>5. Place(c)' /\ Clock(c)'
    BY <1>1, <2>2, <2>4 DEF CallInv, Place, Clock, Early, Acting, Past, Opened, Local
  <2>6. \A row \in ForRequest(call[c].req.form) : call[c].keys[row] # "unread"
    <3>1. \A row \in ForRequest(call[c].req.form) : Asked(c, row)
      BY <1>1 DEF CallInv, Keyed
    <3> QED BY <1>1, <3>1, AllRead
  <2>7. /\ "client enc" \in ForRequest(call[c].req.form)
        /\ call[c].req.form = "jwe" => "server sig" \in ForRequest(call[c].req.form)
    BY DEF ForRequest
  <2>8. /\ \A row \in ForRequest(call[c].req.form) : Asked(c, row)'
        /\ Asked(c, "client enc")' /\ Asked(c, "server sig")'
    BY <2>1, <2>2, <2>4, <2>6, <2>7 DEF Asked
  <2>9. call[c].req.form \in {"jwe", "jws"}
    BY <1>1, KemAssumption DEF CallInv, Place
  <2>10. Keyed(c)'
    BY <1>1, <2>1, <2>2, <2>4, <2>8, <2>9 DEF Keyed
  <2>11. Explained(c)' /\ Logged(c)'
    BY <1>1, <2>2, <2>4, KemAssumption DEF Explained, Logged, Past, Local
  <2> QED BY <2>4, <2>5, <2>10, <2>11 DEF CallInv
<1> QED BY <1>1, <1>2, <1>3 DEF Seal

LEMMA StampStep ==
  ASSUME KemTypeOK, NEW c \in Clients, CallInv(c), Stamp(c)
  PROVE  Becomes(c, call'[c]) /\ CallInv(c)'
<1> DEFINE code == IF call[c].req.op \in {"set", "create"} THEN 201 ELSE 200
<1>1. /\ call[c].stage = "reply" /\ call[c].todo = <<>> /\ UNCHANGED Local
      /\ acted[c] = 1 /\ ~call[c].sealed /\ call[c].stage \in Acting /\ audit[c] = None
      /\ call[c].req \in Requests
  BY DEF Stamp, CallInv, Place, Acting
<1>2. CASE type[Server]["sig"] = "OKP" /\ Finish(c, 500)
  <2>1. Unsupported(c)
    BY <1>2 DEF Unsupported
  <2> QED BY <1>1, <1>2, <2>1, FinishedWith DEF Local
<1>3. CASE call' = [call EXCEPT ![c].stage = "audit", ![c].sealed = TRUE,
                                ![c].exp = now + Life, ![c].code = code]
  <2> DEFINE k == [call[c] EXCEPT !.stage = "audit", !.sealed = TRUE,
                                  !.exp = now + Life, !.code = code]
  <2>1. code \in Codes /\ code \in Successes /\ now + Life \in Int
    BY CallTypes DEF Codes, Successes
  <2> HIDE DEF code
  <2>2. /\ k \in CallType /\ k.stage = "audit" /\ k.code = code /\ k.exp = now + Life
        /\ k.sealed /\ k.req = call[c].req /\ k.made = call[c].made
        /\ k.keys = call[c].keys /\ k.todo = call[c].todo
    BY <2>1, CallTypes DEF CallType, Stages, ChildStages
  <2>3. call' = [call EXCEPT ![c] = k]
    BY <1>3
  <2> HIDE DEF k
  <2>4. Becomes(c, k) /\ call'[c] = k
    BY <2>2, <2>3, Updated DEF Becomes
  <2>5. Place(c)'
    <3>1. Outcome(c)'
      BY <1>1, <2>1, <2>2, <2>4 DEF Outcome, Local
    <3> QED BY <1>1, <2>2, <2>4, <3>1 DEF Place, Early, Acting, Past, Opened, Local
  <2>6. Clock(c)'
    <3>1. -Life <= skew[c] /\ call[c].made <= now
      BY <1>1 DEF CallInv, Clock
    <3>2. /\ call[c].made + Life <= now + Life /\ now + Life <= now + Life
      BY <3>1, CallTypes
    <3> QED BY <1>1, <2>2, <2>4, <3>1, <3>2 DEF Clock, Local
  <2>7. Keyed(c)'
    <3>1. Asked(c, "server sig") /\ Asked(c, "client enc")
      BY <1>1 DEF CallInv, Keyed
    <3>2. call[c].keys["server sig"] # "unread" /\ call[c].keys["client enc"] # "unread"
      BY <1>1, <3>1, AllRead
    <3> QED BY <2>2, <2>4, <3>2 DEF Keyed
  <2>8. Explained(c)' /\ Logged(c)'
    BY <1>1, <2>2, <2>4, KemAssumption DEF Explained, Logged, Past, Local
  <2> QED BY <2>4, <2>5, <2>6, <2>7, <2>8 DEF CallInv
<1> QED BY <1>1, <1>2, <1>3 DEF Stamp

LEMMA AuditStep ==
  ASSUME KemTypeOK, NEW c \in Clients, CallInv(c), Audit(c)
  PROVE  /\ Becomes(c, call'[c]) /\ CallInv(c)'
         /\ \A d \in Clients \ {c} : audit'[d] = audit[d]
         /\ audit' \in [Clients -> {None, "allowed", "denied"}]
<1>1. /\ call[c].stage = "audit" /\ UNCHANGED <<type, now, skew, registry, secrets, acted>>
      /\ audit[c] = None /\ Outcome(c)
  BY DEF Audit, CallInv, Place, Past
<1>2. /\ Becomes(c, call'[c]) /\ call'[c].stage = "answered"
      /\ SameToken(call'[c], call[c]) /\ call'[c].code = call[c].code
  BY WentTo DEF Audit, Stages
<1>3. /\ \A d \in Clients \ {c} : audit'[d] = audit[d]
      /\ audit' \in [Clients -> {None, "allowed", "denied"}]
      /\ \/ audit'[c] = None
         \/ call[c].req.op \in KeyOperations /\ call[c].code \in Successes /\ audit'[c] = "allowed"
         \/ call[c].code \notin Successes /\ audit'[c] = "denied"
  BY <1>1 DEF Audit, KemTypeOK
<1>4. Outcome(c)' /\ (Reason(c) => Reason(c)')
  <2>1. OtherKey(c)' <=> OtherKey(c)
    BY <1>2 DEF OtherKey, SameToken
  <2>2. KeyMissed(c)' <=> KeyMissed(c)
    BY <1>2, <2>1 DEF KeyMissed, SameToken
  <2>3. Unsupported(c)' <=> Unsupported(c)
    BY <1>1 DEF Unsupported
  <2>4. InTime(c)' <=> InTime(c)
    BY <1>1, <1>2 DEF InTime, SameToken
  <2>5. Outcome(c)'
    BY <1>1, <1>2, <2>2, <2>3 DEF Outcome, SameToken
  <2>6. Reason(c) => Reason(c)'
    BY <1>1, <1>2, <2>1, <2>3, <2>4 DEF Reason, SameToken
  <2> QED BY <2>5, <2>6
<1>5. Place(c)'
  BY <1>1, <1>2, <1>4 DEF CallInv, Place, SameToken, Early, Acting, Past, Opened
<1>6. Clock(c)'
  BY <1>1, <1>2 DEF CallInv, Clock, SameToken
<1>7. Keyed(c)'
  BY <1>1, <1>2 DEF CallInv, Keyed, SameToken
<1>8. Explained(c)'
  BY <1>1, <1>2, <1>4 DEF CallInv, Explained, Past, SameToken
<1>9. Logged(c)'
  <2>1. audit'[c] = "allowed" => acted[c] = 1
    BY <1>1, <1>3, KemAssumption DEF Outcome, KeyOperations
  <2>2. audit'[c] = "denied" /\ acted[c] = 1 =>
          Unsupported(c) \/ (call[c].req.form = "jws" /\ KeyMissed(c))
    BY <1>1, <1>3, KemAssumption DEF Outcome
  <2> QED BY <1>1, <1>2, <2>1, <2>2 DEF Logged, Unsupported, OtherKey, KeyMissed, SameToken
<1> QED BY <1>2, <1>3, <1>5, <1>6, <1>7, <1>8, <1>9 DEF CallInv

LEMMA NoRefusal ==
  /\ \A code \in Successes \cup {0, 500} : code \notin 400..499
  /\ 0 \in Codes
  BY DEF Successes, Codes

LEMMA LoseStep ==
  ASSUME KemTypeOK, NEW c \in Clients, CallInv(c), Lose(c)
  PROVE  Becomes(c, call'[c]) /\ CallInv(c)' /\ call'[c].stage = "failed" /\ call'[c].code = 0
<1> DEFINE k == [call[c] EXCEPT !.stage = "failed", !.code = 0]
<1>1. /\ k \in CallType /\ k.stage = "failed" /\ SameToken(k, call[c]) /\ k.code = 0
  <2>1. 0 \in Codes /\ "failed" \in Stages
    BY NoRefusal DEF Stages
  <2> QED BY <2>1, CallTypes DEF CallType, SameToken
<1>2. call' = [call EXCEPT ![c] = k] /\ UNCHANGED Local
  BY DEF Lose
<1> HIDE DEF k
<1>3. Becomes(c, k) /\ call'[c] = k
  BY <1>1, <1>2, Updated DEF Becomes
<1>4. call[c].stage # "idle"
  BY DEF Lose, ChildStages
<1>5. Place(c)'
  <2>1. call'[c].code \notin 400..499 /\ call'[c].stage = "failed"
    BY <1>1, <1>3, NoRefusal
  <2>2. call'[c].req \in Requests /\ acted'[c] \in {0, 1}
    BY <1>1, <1>2, <1>3, <1>4 DEF CallInv, Place, SameToken, Local
  <2> QED BY <2>1, <2>2 DEF Place, Early, Acting, Past, Opened
<1>6. Clock(c)'
  BY <1>1, <1>2, <1>3, <1>4 DEF CallInv, Clock, SameToken, Local
<1>7. Keyed(c)'
  BY <1>1, <1>3 DEF CallInv, Keyed, SameToken
<1>8. Explained(c)'
  BY <1>1, <1>3 DEF Explained, Past
<1>9. Logged(c)'
  BY <1>1, <1>2, <1>3 DEF CallInv, Logged, Unsupported, OtherKey, KeyMissed, SameToken, Local
<1> QED BY <1>1, <1>3, <1>5, <1>6, <1>7, <1>8, <1>9 DEF CallInv

--------------------------------------------------------------------------------
(* Steps of the client that has an answer.                                 *)

LEMMA RefusedOutcome ==
  ASSUME NEW c, call[c].code \in 400..499, Outcome(c) \/ call[c].code \in Successes
  PROVE  acted[c] = 0
<1>1. call[c].code # 500 /\ call[c].code \notin Successes
  BY NoRefusal
<1> QED BY <1>1 DEF Outcome

LEMMA ReasonStays ==
  ASSUME NEW c, Reason(c), UNCHANGED <<type, now, skew, acted>>,
         call'[c].req = call[c].req, call'[c].made = call[c].made,
         call'[c].cause = call[c].cause, call'[c].keys = call[c].keys
  PROVE  Reason(c)'
<1>1. CASE (acted[c] = 0 /\ call[c].cause = "secrets") \/ call[c].cause = "key store"
  BY <1>1 DEF Reason
<1>2. CASE acted[c] = 0 /\ (~call[c].req.listed \/ call[c].req.sub # call[c].req.name)
  BY <1>2 DEF Reason
<1>3. CASE acted[c] = 1 /\ Unsupported(c)
  <2>1. Unsupported(c)'
    BY <1>3 DEF Unsupported
  <2> QED BY <1>3, <2>1 DEF Reason
<1>4. CASE OtherKey(c)
  <2>1. OtherKey(c)'
    BY <1>4 DEF OtherKey
  <2> QED BY <2>1 DEF Reason
<1>5. CASE ~InTime(c)
  <2>1. ~InTime(c)'
    BY <1>5 DEF InTime
  <2> QED BY <2>1 DEF Reason
<1> QED BY <1>1, <1>2, <1>3, <1>4, <1>5 DEF Reason

LEMMA ClientWent ==
  ASSUME KemTypeOK, NEW c \in Clients, CallInv(c), UNCHANGED Local,
         NEW stage \in Opened \cup {"failed"}, Goto(c, stage),
         call[c].stage \in {"answered", "reply horizon", "reply expiry"},
         stage \in Opened => acted[c] = 1 /\ call[c].sealed /\ call[c].code \in Successes,
         stage = "failed" => Reason(c)
  PROVE  Becomes(c, call'[c]) /\ CallInv(c)' /\ call'[c].stage = stage
<1>1. /\ Becomes(c, call'[c]) /\ call'[c].stage = stage
      /\ SameToken(call'[c], call[c]) /\ call'[c].code = call[c].code
  BY WentTo DEF Stages, Opened
<1>2. call[c].code \in 400..499 => acted[c] = 0
  <2>1. Place(c) /\ call[c].stage \in Past \cup Opened
    BY DEF CallInv, Past, Opened
  <2>2. Outcome(c) \/ call[c].code \in Successes
    BY <2>1 DEF Place
  <2> QED BY <2>2, RefusedOutcome
<1>3. Place(c)'
  <2>1. Place(c) /\ call[c].stage # "idle"
    BY DEF CallInv
  <2>2. call[c].req \in Requests /\ acted[c] \in {0, 1}
    BY <2>1 DEF Place
  <2>3. call'[c].req = call[c].req /\ call'[c].sealed = call[c].sealed /\ acted' = acted
    BY <1>1 DEF SameToken, Local
  <2>4. call'[c].stage \in Opened \cup {"failed"}
    BY <1>1
  <2>5. /\ call'[c].stage \notin Early \cup {"idle"} /\ call'[c].stage \notin Acting
        /\ call'[c].stage \notin Early \cup Acting \cup {"idle", "audit"}
        /\ call'[c].stage \notin Past
    BY <2>4 DEF Early, Acting, Past, Opened
  <2>6. call'[c].stage \in Opened => acted'[c] = 1 /\ call'[c].sealed /\ call'[c].code \in Successes
    BY <1>1, <2>3
  <2>7. call'[c].code \in 400..499 => acted'[c] = 0
    BY <1>1, <1>2, <2>3
  <2>8. call'[c].req \in Requests /\ acted'[c] \in {0, 1}
    BY <2>2, <2>3
  <2> QED BY <2>5, <2>6, <2>7, <2>8, Zenon DEF Place
<1>4. Clock(c)'
  BY <1>1 DEF CallInv, Clock, SameToken, Opened, Local
<1>5. Keyed(c)'
  BY <1>1 DEF CallInv, Keyed, SameToken, Opened
<1>6. Explained(c)'
  <2>1. stage = "failed" => Reason(c)'
    BY <1>1, ReasonStays DEF SameToken, Local
  <2> QED BY <1>1, <2>1 DEF Explained, Past, Opened
<1>7. Logged(c)'
  BY <1>1 DEF CallInv, Logged, Unsupported, OtherKey, KeyMissed, SameToken, Local
<1> QED BY <1>1, <1>3, <1>4, <1>5, <1>6, <1>7 DEF CallInv

LEMMA OpenStep ==
  ASSUME KemTypeOK, NEW c \in Clients, CallInv(c), Open(c)
  PROVE  /\ Becomes(c, call'[c]) /\ CallInv(c)'
         /\ call'[c].stage \in {"failed", "reply horizon"}
<1>1. call[c].stage = "answered" /\ UNCHANGED Local /\ Outcome(c)
  BY DEF Open, CallInv, Place, Past
<1>2. CASE /\ call[c].code \in Successes /\ call[c].sealed /\ Goto(c, "reply horizon")
  BY <1>1, <1>2, ClientWent DEF Outcome, Opened
<1>3. CASE ~call[c].sealed /\ Goto(c, "failed")
  <2>1. Reason(c)
    BY <1>1, <1>3 DEF CallInv, Explained, Past
  <2> QED BY <1>1, <1>3, <2>1, ClientWent DEF Opened
<1>4. CASE call[c].sealed /\ call[c].code \notin Successes
  BY <1>1, <1>4 DEF Outcome
<1>5. CASE call[c].sealed /\ ~Opens(c, {"server sig", "client enc"}) /\ Goto(c, "failed")
  <2>1. PICK row \in {"server sig", "client enc"} : call[c].keys[row] # Held
    BY <1>5 DEF Opens
  <2>2. call[c].keys[row] # "unread" /\ row \in Rows
    BY <1>5, <2>1 DEF CallInv, Keyed, Rows
  <2>3. OtherKey(c)
    BY <2>1, <2>2 DEF OtherKey
  <2>4. Reason(c)
    BY <2>3 DEF Reason
  <2> QED BY <1>1, <1>5, <2>4, ClientWent DEF Opened
<1> QED BY <1>2, <1>3, <1>4, <1>5 DEF Open

\* The answer is never found to be too far ahead.
LEMMA NotEarly ==
  ASSUME KemTypeOK, NEW c \in Clients, Clock(c), call[c].sealed
  PROVE  ~TooFarAhead(call[c].exp, ClientTime(c))
<1>1. -Life <= skew[c] /\ call[c].exp <= now + Life
  BY DEF Clock
<1>2. call[c].exp - 2 * Life <= now + skew[c]
  BY <1>1, CallTypes
<1> QED BY <1>2, CallTypes DEF TooFarAhead, ClientTime

LEMMA CheckReplyStep ==
  ASSUME KemTypeOK, NEW c \in Clients, CallInv(c), CheckReplyHorizon(c) \/ CheckReplyExpiry(c)
  PROVE  /\ Becomes(c, call'[c]) /\ CallInv(c)'
         /\ \/ call'[c].stage = "reply expiry"
            \/ call[c].stage = "reply expiry" /\ call'[c].stage \in {"ok", "failed"}
<1>1. /\ call[c].stage \in {"reply horizon", "reply expiry"} /\ UNCHANGED Local
      /\ acted[c] = 1 /\ call[c].sealed /\ call[c].code \in Successes
  BY DEF CheckReplyHorizon, CheckReplyExpiry, CallInv, Place, Opened
<1>2. ~TooFarAhead(call[c].exp, ClientTime(c))
  BY <1>1, NotEarly DEF CallInv
<1>3. CASE CheckReplyHorizon(c)
  <2>1. Goto(c, "reply expiry")
    BY <1>2, <1>3 DEF CheckReplyHorizon
  <2> QED BY <1>1, <2>1, ClientWent DEF Opened
<1>4. CASE CheckReplyExpiry(c) /\ ~Expired(call[c].exp, ClientTime(c))
  <2>1. Goto(c, "ok")
    BY <1>4 DEF CheckReplyExpiry
  <2> QED BY <1>1, <1>4, <2>1, ClientWent DEF Opened, CheckReplyExpiry
<1>5. CASE CheckReplyExpiry(c) /\ Expired(call[c].exp, ClientTime(c))
  <2>1. Goto(c, "failed")
    BY <1>5 DEF CheckReplyExpiry
  <2>2. ~InTime(c)
    <3>1. Clock(c)
      BY DEF CallInv
    <3>2. call[c].made + Life <= call[c].exp
      BY <1>1, <3>1 DEF Clock
    <3>3. call[c].exp < now + skew[c]
      BY <1>5 DEF Expired, ClientTime
    <3>4. Abs(skew[c]) \in Int /\ skew[c] <= Abs(skew[c])
      BY CallTypes, AbsBounds
    <3>5. /\ call[c].made \in Nat /\ call[c].exp \in Int /\ now \in Nat
          /\ skew[c] \in Int /\ Life \in Nat
      BY CallTypes
    <3> QED BY <3>2, <3>3, <3>4, <3>5 DEF InTime
  <2>3. Reason(c)
    BY <2>2 DEF Reason
  <2> QED BY <1>1, <1>5, <2>1, <2>3, ClientWent DEF Opened, CheckReplyExpiry
<1> QED BY <1>3, <1>4, <1>5

--------------------------------------------------------------------------------
(* The invariant.                                                          *)

CallsInv == KemTypeOK /\ \A c \in Clients : CallInv(c)

LEMMA CallsInvInit ==
  Init => CallsInv
<1> SUFFICES ASSUME Init
             PROVE  CallsInv
  OBVIOUS
<1>1. NoCall \in CallType
  <2>1. <<>> \in Seq(Rows) /\ [row \in Rows |-> "unread"] \in [Rows -> Keys \cup {None, "unread"}]
    OBVIOUS
  <2> QED BY <2>1, NoRefusal DEF NoCall, CallType, Stages, Causes
<1>2. [o \in Owners |-> [u \in Usages |-> Held]] \in [Owners -> [Usages -> Keys \cup {None}]]
  BY KemAssumption
<1>3. KemTypeOK
  BY <1>1, <1>2, KemAssumption DEF Init, KemTypeOK
<1>4. ASSUME NEW c \in Clients
      PROVE  CallInv(c)
  <2>1. /\ call[c].stage = "idle" /\ call[c].code = 0 /\ ~call[c].sealed
        /\ acted[c] = 0 /\ audit[c] = None
    BY DEF Init, NoCall
  <2>2. audit[c] # "allowed" /\ audit[c] # "denied"
    BY <2>1, KemAssumption
  <2>3. Place(c)
    BY <2>1 DEF Place, Early, Acting, Past, Opened
  <2>4. Clock(c) /\ Keyed(c) /\ Explained(c) /\ Logged(c)
    BY <2>1, <2>2 DEF Clock, Keyed, Explained, Logged, Past
  <2> QED BY <2>3, <2>4 DEF CallInv
<1> QED BY <1>3, <1>4 DEF CallsInv

\* What one client's call does leaves the others alone.
LEMMA OthersStable ==
  ASSUME CallsInv, NEW c \in Clients, Becomes(c, call'[c]), CallInv(c)',
         UNCHANGED <<type, now, skew>>,
         \A d \in Clients \ {c} : acted'[d] = acted[d] /\ audit'[d] = audit[d]
  PROVE  \A d \in Clients : CallInv(d)'
<1> SUFFICES ASSUME NEW d \in Clients, d # c
             PROVE  CallInv(d)'
  OBVIOUS
<1>1. KemTypeOK /\ CallInv(d) /\ now' \in Nat /\ now <= now'
  BY DEF CallsInv, KemTypeOK
<1> QED BY <1>1, Stable DEF Becomes

\* A step that is taken on call alone.
LEMMA LocalStep ==
  ASSUME CallsInv, NEW c \in Clients, Becomes(c, call'[c]), CallInv(c)', UNCHANGED Local
  PROVE  CallsInv'
<1>1. \A d \in Clients : CallInv(d)'
  BY OthersStable DEF Local
<1>2. KemTypeOK'
  BY DEF CallsInv, KemTypeOK, Becomes, Local
<1> QED BY <1>1, <1>2 DEF CallsInv

LEMMA ServeKeeps ==
  ASSUME CallsInv, NEW c \in Clients, Serve(c)
  PROVE  CallsInv'
<1>1. KemTypeOK /\ CallInv(c)
  BY DEF CallsInv
<1>2. Becomes(c, call'[c]) /\ CallInv(c)' /\ UNCHANGED <<type, now, skew, registry, audit>>
  BY <1>1, ServeStep DEF Serve
<1>3. /\ acted' \in [Clients -> Nat] /\ \A d \in Clients \ {c} : acted'[d] = acted[d]
      /\ secrets' \subseteq Names
  <2>1. call[c].req.name \in Names
    BY <1>1, KemAssumption DEF Serve, CallInv, Place
  <2>2. Carried(call[c].req) \subseteq Names
    BY <1>1, <2>1 DEF Carried, KemTypeOK
  <2>3. CASE UNCHANGED <<secrets, acted>>
    BY <1>1, <2>3 DEF KemTypeOK
  <2>4. CASE secrets' = Carried(call[c].req) /\ acted' = [acted EXCEPT ![c] = @ + 1]
    BY <1>1, <2>2, <2>4 DEF KemTypeOK
  <2> QED BY <2>3, <2>4 DEF Serve
<1>4. \A d \in Clients : CallInv(d)'
  BY <1>2, <1>3, OthersStable
<1>5. KemTypeOK'
  BY <1>1, <1>2, <1>3 DEF KemTypeOK, Becomes
<1> QED BY <1>4, <1>5 DEF CallsInv

LEMMA AuditKeeps ==
  ASSUME CallsInv, NEW c \in Clients, Audit(c)
  PROVE  CallsInv'
<1>1. KemTypeOK /\ CallInv(c)
  BY DEF CallsInv
<1>2. /\ Becomes(c, call'[c]) /\ CallInv(c)'
      /\ UNCHANGED <<type, now, skew, registry, secrets, acted>>
      /\ \A d \in Clients \ {c} : audit'[d] = audit[d]
      /\ audit' \in [Clients -> {None, "allowed", "denied"}]
  BY <1>1, AuditStep DEF Audit
<1>3. \A d \in Clients : CallInv(d)'
  BY <1>2, OthersStable
<1>4. KemTypeOK'
  BY <1>1, <1>2 DEF KemTypeOK, Becomes
<1> QED BY <1>3, <1>4 DEF CallsInv

LEMMA SurroundingsKeep ==
  ASSUME CallsInv, Tick \/ Rekey \/ UNCHANGED vars
  PROVE  CallsInv'
<1>1. KemTypeOK
  BY DEF CallsInv
<1>2. /\ now' \in Nat /\ now <= now' /\ now' <= MaxNow
      /\ UNCHANGED <<type, skew, secrets, call, acted, audit>>
  BY <1>1, KemAssumption DEF KemTypeOK, Tick, Rekey, vars
<1>3. registry' \in [Owners -> [Usages -> Keys \cup {None}]]
  <2>1. CASE Rekey
    <3>1. PICK row \in Rewrites : registry' = [registry EXCEPT ![row[1]][row[2]] = row[3]]
      BY <2>1 DEF Rekey
    <3>2. row[1] \in Owners /\ row[2] \in Usages /\ row[3] \in Keys \cup {None}
      BY KemAssumption
    <3> QED BY <1>1, <3>1, <3>2 DEF KemTypeOK
  <2>2. CASE UNCHANGED registry
    BY <1>1, <2>2 DEF KemTypeOK
  <2> QED BY <2>1, <2>2 DEF Tick, vars
<1>4. ASSUME NEW c \in Clients
      PROVE  CallInv(c)'
  BY <1>1, <1>2, Stable DEF CallsInv
<1>5. KemTypeOK'
  BY <1>1, <1>2, <1>3 DEF KemTypeOK
<1> QED BY <1>4, <1>5 DEF CallsInv

LEMMA CallsInvStep ==
  CallsInv /\ [Next]_vars => CallsInv'
<1> SUFFICES ASSUME CallsInv, [Next]_vars
             PROVE  CallsInv'
  OBVIOUS
<1>1. CASE Tick \/ Rekey \/ UNCHANGED vars
  BY <1>1, SurroundingsKeep
<1>2. ASSUME NEW c \in Clients, Call(c) \/ ServerStep(c) \/ ClientStep(c) \/ Lose(c)
      PROVE  CallsInv'
  <2>1. KemTypeOK /\ CallInv(c)
    BY DEF CallsInv
  <2>2. CASE Call(c)
    BY <2>1, <2>2, CallStep, LocalStep DEF Call
  <2>3. CASE Receive(c)
    BY <2>1, <2>3, ReceiveStep, LocalStep DEF Receive
  <2>4. CASE ReadKey(c)
    BY <2>1, <2>4, ReadKeyStep, LocalStep DEF ReadKey
  <2>5. CASE Verify(c)
    BY <2>1, <2>5, VerifyStep, LocalStep DEF Verify
  <2>6. CASE CheckHorizon(c)
    BY <2>1, <2>6, CheckHorizonStep, LocalStep DEF CheckHorizon
  <2>7. CASE CheckExpiry(c)
    BY <2>1, <2>7, CheckExpiryStep, LocalStep DEF CheckExpiry
  <2>8. CASE Seal(c)
    BY <2>1, <2>8, SealStep, LocalStep DEF Seal
  <2>9. CASE Stamp(c)
    BY <2>1, <2>9, StampStep, LocalStep DEF Stamp
  <2>10. CASE Open(c)
    BY <2>1, <2>10, OpenStep, LocalStep DEF Open
  <2>11. CASE CheckReplyHorizon(c) \/ CheckReplyExpiry(c)
    BY <2>1, <2>11, CheckReplyStep, LocalStep DEF CheckReplyHorizon, CheckReplyExpiry
  <2>12. CASE Lose(c)
    BY <2>1, <2>12, LoseStep, LocalStep DEF Lose
  <2> QED BY <1>2, <2>2, <2>3, <2>4, <2>5, <2>6, <2>7, <2>8, <2>9, <2>10, <2>11, <2>12,
             ServeKeeps, AuditKeeps DEF ServerStep, ClientStep
<1> QED BY <1>1, <1>2 DEF Next

LEMMA CallsInvHolds ==
  Spec => []CallsInv
<1> QED BY CallsInvInit, CallsInvStep, PTL DEF Spec

--------------------------------------------------------------------------------
\* In every reachable state every call is one at a stage of do_GET() and of its
\* child, with the token, the rows and the status it then has (kem.py).
THEOREM KemTypeCorrect ==
  Spec => []KemTypeOK
<1>1. CallsInv => KemTypeOK
  BY DEF CallsInv
<1> QED BY <1>1, CallsInvHolds, PTL

\* A call fails for a lost connection, for what Secrets made of it, for its own
\* name, path or keys, or because it took too long, whatever the clocks show when
\* check_kem_claims() reads them.
THEOREM FailuresHaveReasons ==
  Spec => []FailuresExplained
<1>1. CallsInv => FailuresExplained
  BY DEF CallsInv, CallInv, Explained, Reason, FailuresExplained
<1> QED BY <1>1, CallsInvHolds, PTL

\* No client finds the exp of an answer (make_enc_kem()) too far ahead of its own
\* clock: a client whose clock is that far behind had its request rejected.
THEOREM RepliesInTime ==
  Spec => []RepliesNotEarly
<1>1. CallsInv => RepliesNotEarly
  <2> SUFFICES ASSUME CallsInv, NEW c \in Clients, call[c].sealed
               PROVE  ~TooFarAhead(call[c].exp, ClientTime(c))
    BY DEF RepliesNotEarly
  <2> QED BY NotEarly DEF CallsInv, CallInv
<1> QED BY <1>1, CallsInvHolds, PTL

\* What Secrets._audit() records is what was done, but for operations whose
\* reply could not be made.
THEOREM AuditIsTrue ==
  Spec => []AuditTruth
<1>1. CallsInv => AuditTruth
  BY DEF CallsInv, CallInv, Logged, AuditTruth
<1> QED BY <1>1, CallsInvHolds, PTL

--------------------------------------------------------------------------------
(* What a client may conclude.                                             *)

statusOf == [c \in Clients |-> StatusOf(c)]

Ends == {"idle", "ok", "failed"}

LEMMA StatusWhileSent ==
  ASSUME NEW c \in Clients, call[c].stage \notin Ends
  PROVE  StatusOf(c) = "sent"
  BY DEF StatusOf, Ends

LEMMA StatusBecomes ==
  ASSUME NEW c \in Clients, Becomes(c, call'[c])
  PROVE  statusOf' = [statusOf EXCEPT ![c] = StatusOf(c)']
<1>1. \A d \in Clients \ {c} : StatusOf(d)' = StatusOf(d)
  BY DEF Becomes, StatusOf
<1> QED BY <1>1 DEF statusOf

\* While the client waits, or reads the answer, nothing is known.
LEMMA StillSent ==
  ASSUME NEW c \in Clients, Becomes(c, call'[c]),
         call[c].stage \notin Ends, call'[c].stage \notin Ends
  PROVE  statusOf' = statusOf /\ statusOf[c] = "sent"
<1>1. StatusOf(c) = "sent" /\ StatusOf(c)' = "sent"
  BY StatusWhileSent DEF StatusOf, Ends
<1>2. statusOf[c] = StatusOf(c)
  BY DEF statusOf
<1>3. statusOf' = [statusOf EXCEPT ![c] = "sent"]
  BY <1>1, StatusBecomes
<1> QED BY <1>1, <1>2, <1>3 DEF statusOf

LEMMA ServerMoves ==
  ASSUME KemTypeOK, NEW c \in Clients, ServerStep(c)
  PROVE  call[c].stage \notin Ends /\ call'[c].stage \notin Ends
<1>1. call[c] \in CallType /\ call \in [Clients -> CallType]
  BY CallTypes DEF KemTypeOK
<1>2. ASSUME NEW stage \in {"horizon", "expiry", "store", "seal", "answered"}, Goto(c, stage)
      PROVE  call'[c].stage \notin Ends
  BY <1>1, <1>2 DEF Goto, CallType, Ends
<1>3. ASSUME NEW STATE code, Finish(c, code)
      PROVE  call'[c].stage \notin Ends
  BY <1>1, <1>3 DEF Finish, CallType, Ends
<1>4. Reject(c) => call'[c].stage \notin Ends
  BY <1>3 DEF Reject
<1>5. ASSUME NEW STATE todo, NEW stage \in {"keys", "reply"},
             call' = [call EXCEPT ![c].stage = stage, ![c].todo = todo]
      PROVE  call'[c].stage \notin Ends
  <2> DEFINE k == [call[c] EXCEPT !.stage = stage, !.todo = todo]
  <2>1. k.stage \notin Ends
    BY <1>1 DEF CallType, Ends
  <2>2. call' = [call EXCEPT ![c] = k]
    BY <1>5
  <2> HIDE DEF k
  <2> QED BY <1>1, <2>1, <2>2
<1>6. CASE Receive(c)
  <2>1. call[c].stage \notin Ends
    BY <1>6 DEF Receive, Ends
  <2> QED BY <1>4, <1>6, <1>5, <2>1 DEF Receive
<1>7. CASE ReadKey(c)
  <2> DEFINE read == [call[c] EXCEPT !.todo = Tail(call[c].todo),
                                     !.keys[Head(call[c].todo)] = Lookup(c, Head(call[c].todo))]
             failed == [call[c] EXCEPT !.cause = "key store"]
  <2>1. call[c].stage \notin Ends
    BY <1>7 DEF ReadKey, Ends
  <2>2. ASSUME NEW STATE k, "stage" \in DOMAIN k, KeyNotFound(c, k)
        PROVE  call'[c].stage \notin Ends
    <3> DEFINE code == IF k.stage = "reply" THEN 500
                       ELSE IF k.req.op = "set" THEN 400 ELSE 406
               ended == [k EXCEPT !.stage = "audit", !.code = code]
    <3>1. ended.stage \notin Ends
      BY <2>2 DEF Ends
    <3>2. call' = [call EXCEPT ![c] = ended]
      BY <2>2 DEF KeyNotFound
    <3> HIDE DEF ended
    <3> QED BY <1>1, <3>1, <3>2
  <2>3. /\ "stage" \in DOMAIN read /\ read.stage = call[c].stage
        /\ "stage" \in DOMAIN failed
    BY <1>1 DEF CallType
  <2>4. call' = [call EXCEPT ![c] = read] \/ KeyNotFound(c, read) \/ KeyNotFound(c, failed)
    BY <1>7 DEF ReadKey
  <2> HIDE DEF read, failed
  <2> QED BY <1>1, <2>1, <2>2, <2>3, <2>4
<1>8. CASE Verify(c)
  BY <1>2, <1>4, <1>8 DEF Verify, Ends
<1>9. CASE CheckHorizon(c)
  BY <1>2, <1>4, <1>9 DEF CheckHorizon, Ends
<1>10. CASE CheckExpiry(c)
  BY <1>2, <1>4, <1>10 DEF CheckExpiry, Ends
<1>11. CASE Serve(c)
  <2>1. ASSUME NEW code,
               call' = [call EXCEPT ![c].stage = "audit", ![c].code = code, ![c].cause = "secrets"]
        PROVE  call'[c].stage \notin Ends
    BY <1>1, <2>1 DEF CallType, Ends
  <2>2. CASE Refuse(c)
    BY <1>11, <2>1, <2>2 DEF Refuse, Serve, Ends
  <2>3. CASE Goto(c, "seal")
    BY <1>2, <1>11, <2>3 DEF Serve, Ends
  <2> QED BY <1>11, <2>2, <2>3 DEF Serve
<1>12. CASE Seal(c)
  <2>1. call[c].stage \notin Ends
    BY <1>12 DEF Seal, Ends
  <2> QED BY <1>3, <1>12, <1>5, <2>1 DEF Seal
<1>13. CASE Stamp(c)
  BY <1>1, <1>3, <1>13 DEF Stamp, CallType, Ends
<1>14. CASE Audit(c)
  BY <1>2, <1>14 DEF Audit, Ends
<1> QED BY <1>6, <1>7, <1>8, <1>9, <1>10, <1>11, <1>12, <1>13, <1>14 DEF ServerStep

\* A call that fails does so as RemoteCall has it.
LEMMA FailureMaps ==
  ASSUME CallsInv, NEW c \in Clients, Becomes(c, call'[c]), CallInv(c)', UNCHANGED acted,
         call[c].stage \notin Ends, call'[c].stage = "failed"
  PROVE  Remote!Next
<1>1. statusOf[c] = "sent"
  BY StatusWhileSent DEF statusOf
<1>2. CASE call'[c].code \in 400..499
  <2>1. statusOf' = [statusOf EXCEPT ![c] = "refused"]
    <3>1. StatusOf(c)' = "refused"
      BY <1>2 DEF StatusOf
    <3> QED BY <3>1, StatusBecomes
  <2>2. acted[c] = 0
    BY <1>2 DEF CallInv, Place
  <2>3. Remote!Refuse(c)
    BY <1>1, <2>1, <2>2 DEF Remote!Refuse, statusOf
  <2> QED BY <2>3 DEF Remote!Next
<1>3. CASE call'[c].code \notin 400..499
  <2>1. statusOf' = [statusOf EXCEPT ![c] = "error"]
    <3>1. StatusOf(c)' = "error"
      BY <1>3 DEF StatusOf
    <3> QED BY <3>1, StatusBecomes
  <2>2. statusOf' = [d \in Clients |-> IF d \in {c} THEN "error" ELSE statusOf[d]]
    BY <2>1 DEF statusOf
  <2>3. Remote!Fail({c})
    BY <1>1, <2>2 DEF Remote!Fail, statusOf
  <2> QED BY <2>3 DEF Remote!Next
<1> QED BY <1>2, <1>3

LEMMA ServeMaps ==
  ASSUME CallsInv, NEW c \in Clients, Serve(c)
  PROVE  [Remote!Next]_(Remote!vars)
<1>1. Becomes(c, call'[c]) /\ CallInv(c) /\ KemTypeOK
  BY ServeStep DEF CallsInv
<1>2. call[c].stage \notin Ends /\ call'[c].stage \notin Ends
  BY <1>1, ServerMoves DEF ServerStep
<1>3. statusOf' = statusOf /\ statusOf[c] = "sent"
  BY <1>1, <1>2, StillSent
<1>4. CASE acted' = [acted EXCEPT ![c] = @ + 1]
  <2>1. acted[c] = 0
    BY <1>1 DEF Serve, CallInv, Place, Early
  <2>2. acted' = [acted EXCEPT ![c] = 1]
    BY <1>1, <1>4, <2>1 DEF KemTypeOK
  <2>3. Remote!Act(c)
    BY <1>3, <2>1, <2>2 DEF Remote!Act, statusOf
  <2> QED BY <2>3 DEF Remote!Next
<1>5. CASE UNCHANGED acted
  BY <1>3, <1>5 DEF Remote!vars, statusOf
<1> QED BY <1>4, <1>5 DEF Serve

LEMMA StepMaps ==
  CallsInv /\ [Next]_vars => [Remote!Next]_(Remote!vars)
<1> SUFFICES ASSUME CallsInv, [Next]_vars
             PROVE  [Remote!Next]_(Remote!vars)
  OBVIOUS
<1>1. CASE Tick \/ Rekey \/ UNCHANGED vars
  <2>1. UNCHANGED <<call, acted>>
    BY <1>1 DEF Tick, Rekey, vars
  <2>2. statusOf' = statusOf
    BY <2>1 DEF statusOf, StatusOf
  <2> QED BY <2>1, <2>2 DEF Remote!vars, statusOf
<1>2. ASSUME NEW c \in Clients, Call(c) \/ ServerStep(c) \/ ClientStep(c) \/ Lose(c)
      PROVE  [Remote!Next]_(Remote!vars)
  <2>1. KemTypeOK /\ CallInv(c)
    BY DEF CallsInv
  <2>2. CASE Call(c)
    <3>1. Becomes(c, call'[c])
      BY <2>1, <2>2, CallStep
    <3>2. call[c].stage = "idle" /\ call'[c].stage = "sent" /\ UNCHANGED acted
      BY <2>1, <2>2 DEF Call, NoCall, KemTypeOK, Local
    <3>3. StatusOf(c) = "idle" /\ StatusOf(c)' = "sent"
      BY <3>2 DEF StatusOf
    <3>4. statusOf' = [statusOf EXCEPT ![c] = "sent"] /\ statusOf[c] = "idle"
      BY <3>1, <3>3, StatusBecomes DEF statusOf
    <3>5. Remote!Ask(c)
      BY <3>2, <3>4 DEF Remote!Ask, statusOf
    <3> QED BY <3>5 DEF Remote!Next
  <2>3. CASE ServerStep(c) /\ ~Serve(c)
    <3>1. Becomes(c, call'[c]) /\ UNCHANGED acted
      BY <2>1, <2>3, ReceiveStep, ReadKeyStep, VerifyStep, CheckHorizonStep,
         CheckExpiryStep, SealStep, StampStep, AuditStep
      DEF ServerStep, Receive, ReadKey, Verify, CheckHorizon, CheckExpiry, Seal, Stamp,
          Audit, Local
    <3>2. call[c].stage \notin Ends /\ call'[c].stage \notin Ends
      BY <2>1, <2>3, ServerMoves
    <3>3. statusOf' = statusOf
      BY <3>1, <3>2, StillSent
    <3> QED BY <3>1, <3>3 DEF Remote!vars, statusOf
  <2>4. CASE Open(c)
    <3>1. /\ Becomes(c, call'[c]) /\ CallInv(c)'
          /\ call'[c].stage \in {"failed", "reply horizon"}
          /\ call[c].stage \notin Ends /\ UNCHANGED acted
      BY <2>1, <2>4, OpenStep DEF Open, Local, Ends
    <3>2. CASE call'[c].stage = "failed"
      BY <3>1, <3>2, FailureMaps
    <3>3. CASE call'[c].stage = "reply horizon"
      <4>1. statusOf' = statusOf
        BY <3>1, <3>3, StillSent DEF Ends
      <4> QED BY <3>1, <4>1 DEF Remote!vars, statusOf
    <3> QED BY <3>1, <3>2, <3>3
  <2>5. CASE CheckReplyHorizon(c) \/ CheckReplyExpiry(c)
    <3>1. call[c].stage \in {"reply horizon", "reply expiry"} /\ UNCHANGED acted
      BY <2>5 DEF CheckReplyHorizon, CheckReplyExpiry, Local
    <3>2. acted[c] = 1
      BY <2>1, <3>1 DEF CallInv, Place, Opened
    <3>3. /\ Becomes(c, call'[c]) /\ CallInv(c)' /\ acted[c] = 1
          /\ call[c].stage \notin Ends /\ UNCHANGED acted
          /\ call'[c].stage \in {"reply expiry", "ok", "failed"}
      BY <2>1, <2>5, <3>1, <3>2, CheckReplyStep DEF Ends
    <3>4. CASE call'[c].stage = "failed"
      BY <3>3, <3>4, FailureMaps
    <3>5. CASE call'[c].stage = "reply expiry"
      <4>1. statusOf' = statusOf
        BY <3>3, <3>5, StillSent DEF Ends
      <4> QED BY <3>3, <4>1 DEF Remote!vars, statusOf
    <3>6. CASE call'[c].stage = "ok"
      <4>1. StatusOf(c) = "sent" /\ StatusOf(c)' = "ok"
        BY <3>3, <3>6, StatusWhileSent DEF StatusOf
      <4>2. statusOf' = [statusOf EXCEPT ![c] = "ok"] /\ statusOf[c] = "sent"
        BY <3>3, <4>1, StatusBecomes DEF statusOf
      <4>3. Remote!Succeed(c)
        BY <3>3, <4>2 DEF Remote!Succeed, statusOf
      <4> QED BY <4>3 DEF Remote!Next
    <3> QED BY <3>3, <3>4, <3>5, <3>6
  <2>6. CASE Lose(c)
    <3>1. /\ Becomes(c, call'[c]) /\ CallInv(c)' /\ call'[c].stage = "failed"
          /\ call[c].stage \notin Ends /\ UNCHANGED acted
      BY <2>1, <2>6, LoseStep DEF Lose, ChildStages, Local, Ends
    <3> QED BY <3>1, FailureMaps
  <2> QED BY <1>2, <2>2, <2>3, <2>4, <2>5, <2>6, ServeMaps DEF ClientStep
<1> QED BY <1>1, <1>2 DEF Next

\* A client whose call succeeds was acted on once by Secrets, and one that is
\* refused with a 4xx never was (reply() is made after the operation): the calls
\* implement RemoteCall.
THEOREM KemKeepsPromise ==
  Spec => Promise
<1>1. Init => Remote!Init
  <2> SUFFICES ASSUME Init
               PROVE  Remote!Init
    OBVIOUS
  <2>1. \A c \in Clients : StatusOf(c) = "idle"
    BY DEF Init, NoCall, StatusOf
  <2> QED BY <2>1 DEF Init, Remote!Init
<1> QED BY <1>1, StepMaps, CallsInvHolds, PTL DEF Spec, Promise, Remote!Spec
================================================================================
