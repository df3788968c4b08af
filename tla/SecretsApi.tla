------------------------------ MODULE SecretsApi -------------------------------
(***************************************************************************)
(* The requests the Secrets consumer (secrets.py) is given by the pipeline *)
(* and everything it decides from the request alone: which operation the   *)
(* command and the trail select, the refusals that come before the first   *)
(* store call, the row an operation is about.                              *)
(*                                                                         *)
(* The trail is the path below the consumer's prefix, as the sequence of   *)
(* its unquoted segments.  It ends in an empty one when the URL ends in    *)
(* '/': here that is the field slash, and trail is without it.  The field  *)
(* path is the row whose key os.path.join() makes of the trail: it is the  *)
(* trail itself unless a segment was sent with a quoted '/' in it.         *)
(***************************************************************************)
EXTENDS SqliteStore

CONSTANTS
  Requests,   \* the requests that clients send
  None,       \* Python's None
  Faults,     \* the exceptions the store may raise instead of answering
  Base64,     \* the values that b64decode() accepts
  Slashed     \* the components of each unquoted segment that has a '/' in it:
              \* <<"c", "k">> for "c/k", and "" is the first one of "/x"

Commands == {"GET", "PUT", "DELETE", "POST"}

FaultKinds == {"error", "denied", "unsupported"}

Names == {p[1] : p \in Paths}

--------------------------------------------------------------------------------
\* The components of a segment.
Parts(segment) == IF segment \in DOMAIN Slashed THEN Slashed[segment] ELSE <<segment>>

\* One more argument of os.path.join(): an absolute one drops what was before.
Join(path, segment) ==
  IF Parts(segment)[1] = "" THEN Parts(segment) ELSE path \o Parts(segment)

Unslashed(trail) == \A i \in DOMAIN trail : trail[i] \notin DOMAIN Slashed

\* os.path.join('keys', *trail)
Joined(trail) ==
  LET joined[i \in 0..Len(trail)] == IF i = 0 THEN <<>> ELSE Join(joined[i - 1], trail[i])
  IN IF Unslashed(trail) THEN trail ELSE joined[Len(trail)]

\* '/'.join(trail), by which the audit log calls a key.
Spelled(trail) ==
  LET spelled[i \in 0..Len(trail)] == IF i = 0 THEN <<>> ELSE spelled[i - 1] \o Parts(trail[i])
  IN spelled[Len(trail)]

\* The container of a trail, which is joined without the last segment.
Container(r) == Joined(Parent(r.trail))

\* Segments of which sqlite.py could not store a key, those that end in '/',
\* are left out, and so are keys in which two '/' are together.
ASSUME SlashedAssumption ==
  /\ \A s \in DOMAIN Slashed :
       /\ Slashed[s] \in Seq(STRING) /\ Len(Slashed[s]) > 1
       /\ \A i \in 2..Len(Slashed[s]) : Slashed[s][i] # ""
  /\ \A p \in Paths : Unslashed(p)

ASSUME RequestsAssumption ==
  \A r \in Requests :
    /\ r.cmd \in Commands
    /\ r.trail \in Seq(STRING)
    /\ r.path = Joined(r.trail)
    /\ r.trail # <<>> => r.path \in Paths
    /\ Len(r.trail) > 1 => Container(r) \in Paths
    /\ r.slash \in BOOLEAN
    /\ r.default \in Names \cup {None}      \* request['default_namespace']
    /\ r.default # None => <<r.default>> \in Paths
    /\ r.parse \in {"ok", "invalid", "unallowed"}
    /\ r.payload \in Payloads
    /\ r.raw \in BOOLEAN                    \* Accept: application/octet-stream

ASSUME ApiAssumption ==
  /\ Faults \subseteq FaultKinds
  /\ Base64 \subseteq Values
  /\ None \notin Values /\ None \notin Requests /\ None \notin Names

--------------------------------------------------------------------------------
\* The operation a method hands the trail to; "refuse" is its HTTPError(405).
Operation(r) ==
  CASE r.cmd = "GET"    -> IF r.slash \/ r.trail = <<>> THEN "list" ELSE "get"
    [] r.cmd = "PUT"    -> IF r.slash \/ r.trail = <<>> THEN "refuse" ELSE "set"
    [] r.cmd = "DELETE" -> IF r.slash THEN "destroy"
                           ELSE IF r.trail = <<>> THEN "refuse" ELSE "del"
    [] r.cmd = "POST"   -> IF r.slash THEN "create" ELSE "refuse"

\* Operations on keys run inside _audit(), those on containers do not.
Audited(r) == Operation(r) \in {"get", "set", "del"}

\* _db_key() wants a key inside a container; _db_container_key() wants a
\* container, and knows the default one only when it lists.  Both look at how
\* many segments there are, not at what join() makes of them.
Forbidden(r) ==
  \/ Audited(r) /\ Len(r.trail) < 2
  \/ Operation(r) \in {"create", "destroy"} /\ r.trail = <<>>
  \/ Operation(r) = "list" /\ r.trail = <<>> /\ r.default = None

\* The status a request is refused with before any store call; 0: it goes on.
Refusal(r) ==
  IF Operation(r) = "refuse" THEN 405
  ELSE IF r.parse # "ok"
       THEN IF Operation(r) = "set" /\ r.parse = "invalid" THEN 400 ELSE 406
  ELSE IF Forbidden(r) THEN 403
  ELSE 0

\* The row the operation is about.
Target(r) == IF r.trail = <<>> THEN <<r.default>> ELSE r.path

\* PUT always looks for the parent container, POST only below the first level.
NeedsParent(r) ==
  \/ Operation(r) = "set"
  \/ Operation(r) = "create" /\ Len(r.trail) > 1

\* The missing parent is the caller's default namespace, which is created.
InOwnNamespace(r) ==
  /\ r.default # None
  /\ Parent(r.trail) = <<r.default>>

\* Broken: a denied store call asks for credentials.
FaultCodeUnauthorized == [error |-> 500, denied |-> 401, unsupported |-> 501]

\* The status each exception of a store is turned into.
FaultCode == [error |-> 500, denied |-> 403, unsupported |-> 501]

FaultCodes == {FaultCode[f] : f \in Faults}

Successes == {200, 201, 204}

Codes == {0, 400, 403, 404, 405, 406, 409, 500, 501} \cup Successes

NoDeletes == \A r \in Requests : r.cmd # "DELETE"

\* No segment is sent with a quoted '/' in it.
NoSlashes == \A r \in Requests : Unslashed(r.trail)

\* What the audit log calls a key is its row: no segment begins with '/'.
RowsAreSpelled == \A r \in Requests : r.trail # <<>> => r.path = Spelled(r.trail)

\* Every row is inside containers that are there: each path above it has a row.
NoOrphansIn(rows) ==
  \A p, q \in Paths : Present(rows, p) /\ Below(q, p) => Present(rows, q)
================================================================================
