------------------------------- MODULE Pipeline --------------------------------
(***************************************************************************)
(* What the plugins of the HTTP pipeline answer and where it sends a       *)
(* request: httpd/authenticators.py, httpd/authorizers.py and the last     *)
(* part of HTTPRequestHandler.pipeline() in httpd/server.py.  The plugins  *)
(* keep no state, so these are operators; Custodia asks them one by one.   *)
(*                                                                         *)
(* A URL path is the sequence of its segments, '/secrets/u/' is            *)
(* <<"", "secrets", "u", "">>.  Only its first and its last segment may be *)
(* empty.  The pipeline and the consumers look at the unquoted segments,   *)
(* the authorizers at the path as it was sent.                             *)
(***************************************************************************)
EXTENDS SecretsApi

CONSTANTS
  Configs,    \* the plugin configurations that are served
  Wires,      \* what clients send
  Segments,   \* the segments of their paths
  Unquote     \* the segment that each quoted one stands for

Methods == Commands \cup {"HEAD"}

Receptions == {"ok", "long line", "bad line", "long body"}

ASSUME WiresAssumption ==
  /\ Unquote \in [Segments -> STRING]
  /\ \A w \in Wires :
       /\ w.received \in Receptions
       /\ w.cmd \in Methods
       /\ w.path \in Seq(Segments) /\ w.path # <<>>
       /\ w.creds \in {None} \cup [uid : Nat, gid : Nat]   \* of a Unix socket
       /\ w.header \in Names \cup {None}                   \* REMOTE_USER
       /\ w.id \in Names \cup {None}                       \* CUSTODIA_AUTH_ID
       /\ w.key \in Values \cup {None}                     \* CUSTODIA_AUTH_KEY
       /\ w.cert \in Names \cup {None, "unnamed"}          \* its commonName
       /\ w.parse \in {"ok", "invalid", "unallowed"}
       /\ w.payload \in Payloads
       /\ w.raw \in BOOLEAN

\* The kinds are the plugin classes; a namespace's path option ends in '/'.
ASSUME ConfigsAssumption ==
  \A c \in Configs :
    /\ \A a \in c.authenticators : a.kind \in {"creds", "header", "keys", "cert"}
    /\ \A a \in c.authenticators : a.kind = "keys" => a.namespace \in Seq(STRING)
    /\ \A z \in c.authorizers :
         \/ z.kind = "paths"
         \/ z.kind = "namespace" /\ z.path \in Seq(STRING) /\ z.path # <<>>
    /\ DOMAIN c.consumers \subseteq Seq(STRING)
    /\ \A m \in DOMAIN c.consumers :
         c.consumers[m] \in {"root", "root with secrets", "secrets"}

Answers == {"pass", "fail", "skip"}     \* True, False, None

--------------------------------------------------------------------------------
(***************************************************************************)
(* Authenticators                                                          *)
(***************************************************************************)

\* SimpleCredsAuth: one of the two ids the socket gives has to match.  The sets
\* have one element, or none for an id that is not configured (-1).
CredsAnswer(a, w) ==
  IF w.creds # None /\ (w.creds.uid \in a.uids \/ w.creds.gid \in a.gids)
  THEN "pass" ELSE "fail"

\* SimpleHeaderAuth: any value, or one of a configured list.
HeaderAnswer(a, w) ==
  IF w.header = None THEN "skip"
  ELSE IF a.any \/ w.header \in a.accepted THEN "pass" ELSE "fail"

\* The row SimpleAuthKeys keeps the key of w's identity in.
KeyPath(a, w) == Append(a.namespace, w.id)

\* SimpleAuthKeys: the key sent is the one stored for the identity.  Whatever
\* the lookup raises is caught, and a missing header makes it raise.
KeysAnswer(a, w, rows) ==
  IF w.id = None /\ w.key = None THEN "skip"
  ELSE IF /\ w.id # None /\ w.key # None
          /\ KeyPath(a, w) \in Paths
          /\ rows[KeyPath(a, w)] = w.key
       THEN "pass" ELSE "fail"

\* Broken: the subject is not looked at.
CertAnswerUnnamed(w) == IF w.cert = None THEN "skip" ELSE "pass"

\* SimpleClientCertAuth: the certificate counts only if a header asks for it,
\* and then its subject needs a commonName.
CertAnswer(w) ==
  IF w.cert = None THEN "skip" ELSE IF w.cert = "unnamed" THEN "fail" ELSE "pass"

AuthAnswer(a, w, rows) ==
  CASE a.kind = "creds"  -> CredsAnswer(a, w)
    [] a.kind = "header" -> HeaderAnswer(a, w)
    [] a.kind = "keys"   -> KeysAnswer(a, w, rows)
    [] a.kind = "cert"   -> CertAnswer(w)

\* request['remote_user'] after a has passed w, which was user before.
Identity(a, w, user) ==
  CASE a.kind = "creds"  -> user
    [] a.kind = "header" -> w.header
    [] a.kind = "keys"   -> w.id
    [] a.kind = "cert"   -> w.cert

--------------------------------------------------------------------------------
(***************************************************************************)
(* Authorizers                                                             *)
(***************************************************************************)
IsDir(path) == path[Len(path)] = ""

\* path.startswith(dir), for a dir that ends in '/'.
StartsWith(path, dir) ==
  /\ Len(path) >= Len(dir)
  /\ SubSeq(path, 1, Len(dir) - 1) = SubSeq(dir, 1, Len(dir) - 1)

\* The paths that os.path.split() goes through from path up to '/'; none for ''.
Ancestors(path) ==
  IF path = <<"">> THEN {}
  ELSE {path, <<"", "">>} \cup {SubSeq(path, 1, i) : i \in 2..(Len(path) - 1)}

\* SimplePathAuthz: an entry stands for the path and what is below it; with a
\* final dot it stands for the path alone.
PathAnswer(z, w) ==
  IF \E entry \in z.paths : IF entry.dot THEN entry.path = w.path
                                         ELSE entry.path \in Ancestors(w.path)
  THEN "pass" ELSE "skip"

\* The directory of the user below the authorizer's path.
UserDir(z, user) == SubSeq(z.path, 1, Len(z.path) - 1) \o <<user, "">>

\* Broken: what is outside the user's directory is left to other authorizers.
NamespaceAnswerSkips(z, w, user) ==
  IF StartsWith(w.path, z.path) /\ user # None /\ StartsWith(w.path, UserDir(z, user))
  THEN "pass" ELSE "skip"

\* UserNameSpace: below its path a request needs a user and has to stay in the
\* directory of that user.
NamespaceAnswer(z, w, user) ==
  IF ~StartsWith(w.path, z.path) THEN "skip"
  ELSE IF user # None /\ StartsWith(w.path, UserDir(z, user)) THEN "pass" ELSE "fail"

AuthzAnswer(z, w, user) ==
  IF z.kind = "paths" THEN PathAnswer(z, w) ELSE NamespaceAnswer(z, w, user)

--------------------------------------------------------------------------------
(***************************************************************************)
(* Consumers                                                               *)
(***************************************************************************)
\* request['path_chain']
Chain(w) == [i \in DOMAIN w.path |-> Unquote[w.path[i]]]

\* The mount points that path is at or below.
MountsOf(consumers, chain) ==
  {m \in DOMAIN consumers : Len(m) <= Len(chain) /\ m = SubSeq(chain, 1, Len(m))}

\* The consumer nearest to the leaf is the one that handles the request.
Nearest(mounts) == CHOOSE m \in mounts : \A n \in mounts : Len(n) <= Len(m)

\* request['trail']
Trail(mount, chain) == SubSeq(chain, Len(mount) + 1, Len(chain))

\* Root passes on to the Secrets it was configured with.
SubSecrets(consumers, mount, trail) ==
  /\ consumers[mount] = "root with secrets"
  /\ trail # <<>> /\ trail[1] = "secrets"

\* What the pipeline finds for a chain: the kind of consumer and its trail.
Route(consumers, chain) ==
  LET mount == Nearest(MountsOf(consumers, chain))
      trail == Trail(mount, chain)
  IN IF SubSecrets(consumers, mount, trail)
     THEN [consumer |-> "secrets", trail |-> Tail(trail)]
     ELSE [consumer |-> consumers[mount], trail |-> trail]

\* The trail without the empty segment that a URL ends in.
Named(trail) == IF trail # <<>> /\ IsDir(trail) THEN Parent(trail) ELSE trail

\* The request that Secrets is given with a trail.
SecretsRequest(w, trail, default) ==
  [cmd |-> w.cmd, trail |-> Named(trail), path |-> Joined(Named(trail)),
   slash |-> trail # <<>> /\ IsDir(trail), default |-> default,
   parse |-> w.parse, payload |-> w.payload, raw |-> w.raw]

\* The status of a request that Secrets does not handle: Root answers a GET,
\* and has no attribute for the other methods.
OtherStatus(w) ==
  IF w.cmd \notin Commands THEN 501 ELSE IF w.cmd = "GET" THEN 200 ELSE 500

\* The status of a request that does not reach the pipeline.
ReceptionCode == [r \in Receptions \ {"ok"} |->
  CASE r = "long line" -> 414 [] r = "bad line" -> 400 [] r = "long body" -> 413]
================================================================================
