-------------------------------- MODULE Custodia -------------------------------
(***************************************************************************)
(* A Custodia server: the children that ForkingHTTPServer forks take a     *)
(* request through HTTPRequestHandler.pipeline() and, when it gets that    *)
(* far, through the Secrets consumer.  SimpleAuthKeys may read identities  *)
(* from the very table that Secrets writes (docs/source/quick): what one   *)
(* child stores decides whom another one believes.                         *)
(*                                                                         *)
(* The plugins of a stage are kept in a dictionary, so they are asked in   *)
(* any order.                                                              *)
(***************************************************************************)
EXTENDS Secrets, Pipeline

VARIABLES
  config,  \* the configuration the server was started with
  child    \* what each child knows about its request while in the pipeline

serverVars == <<vars, config, child>>

Stages == {"idle", "authn", "authz", "route", "secrets", "answer"}

ServerCodes == {0, 200, 400, 403, 404, 413, 414, 500, 501}

NoChild ==
  [stage |-> "idle", wire |-> None, todo |-> {}, passed |-> FALSE,
   user |-> None, default |-> None, status |-> 0]

Plugins == UNION {c.authenticators \cup c.authorizers : c \in Configs}

Children ==
  [stage   : Stages,
   wire    : Wires \cup {None},
   todo    : SUBSET Plugins,      \* the plugins of the stage not asked yet
   passed  : BOOLEAN,             \* one of the others has answered True
   user    : Names \cup {None},   \* request['remote_user']
   default : Names \cup {None},   \* request['default_namespace']
   status  : ServerCodes]         \* the status of a request Secrets does not see

ServerTypeOK ==
  /\ TypeOK
  /\ config \in Configs
  /\ child \in [Handlers -> Children]

ServerInit ==
  /\ Init
  /\ config \in Configs
  /\ child = [h \in Handlers |-> NoChild]

--------------------------------------------------------------------------------
Answer(h, w, status) ==
  child' = [child EXCEPT ![h] =
              [@ EXCEPT !.wire = w, !.stage = "answer", !.status = status]]

\* The plugins of the next stage are about to be asked.
Enter(h, w, stage, plugins) ==
  child' = [child EXCEPT ![h] =
              [@ EXCEPT !.wire = w, !.stage = stage, !.todo = plugins, !.passed = FALSE]]

\* A plugin that does not refuse the request leaves one fewer to ask.
Asked(h, plugin, passes, user, default) ==
  LET c == child[h] IN
  child' = [child EXCEPT ![h] =
              [c EXCEPT !.todo = c.todo \ {plugin}, !.passed = c.passed \/ passes,
                        !.user = user, !.default = default]]

\* A child is forked and reads a request; a path that is not absolute is the
\* first thing the pipeline refuses.
Accept(h) ==
  /\ child[h].stage = "idle"
  /\ \E w \in Wires :
       \/ /\ w.received # "ok"
          /\ Answer(h, w, ReceptionCode[w.received])
       \/ /\ w.received = "ok" /\ Chain(w)[1] # ""
          /\ Answer(h, w, 400)
       \/ /\ w.received = "ok" /\ Chain(w)[1] = ""
          /\ Enter(h, w, "authn", config.authenticators)
  /\ UNCHANGED <<vars, config>>

\* One more authenticator is asked: a negative answer ends the request.
Authenticate(h) ==
  LET c == child[h] IN
  /\ c.stage = "authn"
  /\ \E a \in c.todo :
       LET answer == AuthAnswer(a, c.wire, rows) IN
       \/ /\ answer = "fail"
          /\ Answer(h, c.wire, 403)
       \/ /\ answer # "fail"
          /\ Asked(h, a, answer = "pass",
                   IF answer = "pass" THEN Identity(a, c.wire, c.user) ELSE c.user,
                   c.default)
  /\ UNCHANGED <<vars, config>>

\* All authenticators have been asked and one has to have succeeded.
Authenticated(h) ==
  LET c == child[h] IN
  /\ c.stage = "authn" /\ c.todo = {}
  /\ \/ c.passed /\ Enter(h, c.wire, "authz", config.authorizers)
     \/ ~c.passed /\ Answer(h, c.wire, 403)
  /\ UNCHANGED <<vars, config>>

\* One more authorizer is asked; the loop breaks on a negative answer.
Authorize(h) ==
  LET c == child[h] IN
  /\ c.stage = "authz"
  /\ \E z \in c.todo :
       LET answer == AuthzAnswer(z, c.wire, c.user) IN
       \/ /\ answer = "fail"
          /\ Answer(h, c.wire, 403)
       \/ /\ answer # "fail"
          /\ Asked(h, z, answer = "pass", c.user,
                   IF answer = "pass" /\ z.kind = "namespace" THEN c.user ELSE c.default)
  /\ UNCHANGED <<vars, config>>

\* Broken: the first positive answer is enough.
AuthorizedAtOnce(h) ==
  LET c == child[h] IN
  /\ c.stage = "authz" /\ (c.todo = {} \/ c.passed)
  /\ \/ c.passed /\ Enter(h, c.wire, "route", {})
     \/ ~c.passed /\ Answer(h, c.wire, 403)
  /\ UNCHANGED <<vars, config>>

Authorized(h) ==
  LET c == child[h] IN
  /\ c.stage = "authz" /\ c.todo = {}
  /\ \/ c.passed /\ Enter(h, c.wire, "route", {})
     \/ ~c.passed /\ Answer(h, c.wire, 403)
  /\ UNCHANGED <<vars, config>>

\* What Secrets would be given by the child.
Handed(h) ==
  LET c == child[h]
  IN SecretsRequest(c.wire, Route(config.consumers, Chain(c.wire)).trail, c.default)

\* The consumer is selected; one that is not Secrets answers at once.
Dispatch(h) ==
  LET c == child[h]
      chain == Chain(c.wire)
  IN
  /\ c.stage = "route"
  /\ \/ /\ MountsOf(config.consumers, chain) = {}
        /\ Answer(h, c.wire, 404)
        /\ UNCHANGED vars
     \/ /\ MountsOf(config.consumers, chain) # {}
        /\ \/ c.wire.cmd \notin Commands
           \/ Route(config.consumers, chain).consumer # "secrets"
        /\ Answer(h, c.wire, OtherStatus(c.wire))
        /\ UNCHANGED vars
     \/ /\ MountsOf(config.consumers, chain) # {}
        /\ c.wire.cmd \in Commands
        /\ Route(config.consumers, chain).consumer = "secrets"
        /\ Receive(h) /\ req'[h] = Handed(h)
        /\ Enter(h, c.wire, "secrets", {})
  /\ UNCHANGED config

\* The child ends, with or without having answered.
Leave(h) == child' = [child EXCEPT ![h] = NoChild]

\* The steps of Secrets; its answer is the child's.
ServeSecrets(h) ==
  /\ child[h].stage = "secrets"
  /\ Proceed(h)
  /\ IF pc[h] = "reply" THEN Leave(h) ELSE UNCHANGED child
  /\ UNCHANGED config

\* send_error() or the output of a consumer other than Secrets is written.
Respond(h) ==
  /\ child[h].stage = "answer"
  /\ Leave(h)
  /\ UNCHANGED <<vars, config>>

\* The child is killed.
Kill(h) ==
  /\ child[h].stage # "idle" /\ Leave(h)
  /\ IF pc[h] = "idle" THEN CanCrash /\ UNCHANGED vars ELSE Crash(h)
  /\ UNCHANGED config

ServerNext ==
  \E h \in Handlers :
    \/ Accept(h) \/ Authenticate(h) \/ Authenticated(h) \/ Authorize(h)
    \/ Authorized(h) \/ Dispatch(h) \/ ServeSecrets(h) \/ Respond(h) \/ Kill(h)

ServerSpec == ServerInit /\ [][ServerNext]_serverVars

--------------------------------------------------------------------------------
\* The paths below which a configuration serves secrets.
SecretsMounts(c) ==
  {m \in DOMAIN c.consumers : c.consumers[m] = "secrets"}
    \cup {Append(m, "secrets") :
            m \in {x \in DOMAIN c.consumers : c.consumers[x] = "root with secrets"}}

\* Each of them is the path of a UserNameSpace.
Covered(c) ==
  \A m \in SecretsMounts(c) :
    \E z \in c.authorizers : z.kind = "namespace" /\ z.path = Append(m, "")

\* The names that configurations and users have are sent as they are, since
\* authorizers see them quoted and the pipeline unquoted.
NamesUnquoted ==
  \A s \in Segments :
    \/ Unquote[s] = s
    \/ /\ s \notin Names /\ Unquote[s] \notin Names \cup {"", "secrets"}
       /\ \A c \in Configs : \A m \in DOMAIN c.consumers : \A i \in DOMAIN m : m[i] # Unquote[s]

\* join() leaves the row of a request below the first segment of its trail, the
\* only one that authorizers and _db_key() look at: no segment begins with '/'.
StaysInside(r) == r.trail # <<>> => r.path[1] = r.trail[1]

\* Where every mount of Secrets has a UserNameSpace, each change of a row is the
\* effect of a request of the user whose directory the row is in, and so is
\* each value or listing handed out: whatever the other authorizers and the
\* children running beside it do, for the requests whose row is where their
\* trail begins.
OwnRowsOnly ==
  [][Covered(config) /\ NamesUnquoted =>
       /\ \A p \in Paths : rows'[p] # rows[p] =>
            \E h \in Handlers :
              /\ TakesEffect(h, p) \/ AddsNamespace(h, p)
              /\ StaysInside(req[h]) => child[h].user = p[1]
       /\ \A h \in Handlers :
            out'[h] # out[h] /\ out'[h] # None /\ StaysInside(req[h]) =>
              child[h].user = Target(req[h])[1]]_serverVars

\* The rows that identities are looked up in.
IsKeyRow(p) ==
  \E c \in Configs : \E a \in c.authenticators : a.kind = "keys" /\ Parent(p) = a.namespace

KeysAreKept == \A r \in Requests : r.cmd = "DELETE" => ~IsKeyRow(r.path)

AnsweredWith(a, h, answer) == AuthAnswer(a, child[h].wire, rows) = answer

\* While no identity is deleted, what authenticators said of a request keeps
\* being true until it ends, in whatever order they were asked and whatever
\* other children store meanwhile: none refuses it, one accepts it, and its
\* user is an identity that one of those vouches for.
Vouched ==
  KeysAreKept =>
    \A h \in Handlers : child[h].stage \in {"authz", "route", "secrets"} =>
      /\ \A a \in config.authenticators : ~AnsweredWith(a, h, "fail")
      /\ \E a \in config.authenticators : AnsweredWith(a, h, "pass")
      /\ child[h].user # None =>
           \E a \in config.authenticators :
             /\ AnsweredWith(a, h, "pass")
             /\ Identity(a, child[h].wire, None) = child[h].user

\* A consumer sees a request only if no authorizer refuses it and one accepts
\* it for the user it ended up with, and a default namespace is the user whose
\* directory the path is in (the loop over authzers does not stop at a True).
Permitted ==
  \A h \in Handlers : child[h].stage \in {"route", "secrets"} =>
    LET c == child[h] IN
    /\ \A z \in config.authorizers : AuthzAnswer(z, c.wire, c.user) # "fail"
    /\ \E z \in config.authorizers : AuthzAnswer(z, c.wire, c.user) = "pass"
    /\ c.default # None =>
         /\ c.default = c.user
         /\ \E z \in config.authorizers :
              z.kind = "namespace" /\ StartsWith(c.wire.path, UserDir(z, c.user))
================================================================================
