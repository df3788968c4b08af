---------------------------- MODULE Custodia_proofs ----------------------------
(***************************************************************************)
(* Proofs about Custodia, for any configurations, requests and number of   *)
(* children.  A server implements Secrets, so that everything proved in    *)
(* Secrets_proofs holds of a server too; what is proved here is about the  *)
(* requests that the pipeline lets through to it.                          *)
(***************************************************************************)
EXTENDS Custodia, SecretsTree_proofs, SequenceTheorems, WellFoundedInduction

--------------------------------------------------------------------------------
LEMMA ServerStep == ServerNext => [Next]_vars
<1> SUFFICES ASSUME NEW h \in Handlers,
                    \/ Accept(h) \/ Authenticate(h) \/ Authenticated(h) \/ Authorize(h)
                    \/ Authorized(h) \/ Dispatch(h) \/ ServeSecrets(h) \/ Respond(h)
                    \/ Kill(h)
             PROVE  Receive(h) \/ Proceed(h) \/ Crash(h) \/ UNCHANGED vars
  BY DEF ServerNext, Next
<1>1. CASE \/ Accept(h) \/ Authenticate(h) \/ Authenticated(h) \/ Authorize(h)
           \/ Authorized(h) \/ Respond(h)
  BY <1>1 DEF Accept, Authenticate, Authenticated, Authorize, Authorized, Respond
<1>2. CASE Dispatch(h)
  BY <1>2 DEF Dispatch
<1>3. CASE ServeSecrets(h)
  BY <1>3 DEF ServeSecrets
<1>4. CASE Kill(h)
  BY <1>4 DEF Kill
<1> QED BY <1>1, <1>2, <1>3, <1>4

\* Seen from the store, a server is Secrets with some of the requests refused
\* on the way (Dispatch and ServeSecrets are the only steps Secrets sees).
THEOREM ServerIsSecrets == ServerSpec => Spec
<1>1. ServerInit => Init
  BY DEF ServerInit
<1>2. [ServerNext]_serverVars => [Next]_vars
  BY ServerStep DEF serverVars, vars
<1> QED BY <1>1, <1>2, PTL DEF ServerSpec, Spec

--------------------------------------------------------------------------------
(***************************************************************************)
(* Types.  A child is in Secrets exactly when it is in that stage, and     *)
(* then it is about the request that the pipeline handed over.             *)
(***************************************************************************)

\* The pipeline has found a Secrets consumer for the child.
Routed(h) ==
  LET chain == Chain(child[h].wire) IN
  /\ MountsOf(config.consumers, chain) # {}
  /\ Route(config.consumers, chain).consumer = "secrets"

ChildOK(h) ==
  LET c == child[h] IN
  /\ c.stage = "idle" => c = NoChild
  /\ c.stage # "idle" => c.wire \in Wires
  /\ c.stage \in {"idle", "authn"} => c.default = None
  /\ c.stage = "authn" => c.todo \subseteq config.authenticators
  /\ c.stage = "authz" => c.todo \subseteq config.authorizers
  /\ c.stage # "secrets" => pc[h] = "idle"
  /\ c.stage = "secrets" => req[h] = Handed(h) /\ Routed(h)

ChildrenOK == \A h \in Handlers : ChildOK(h)

Kinds == {"creds", "header", "keys", "cert"}

LEMMA ConfigFacts ==
  ASSUME NEW c \in Configs
  PROVE  /\ c.authenticators \subseteq Plugins /\ c.authorizers \subseteq Plugins
         /\ \A a \in c.authenticators : a.kind \in Kinds
         /\ \A z \in c.authorizers : z.kind \in {"paths", "namespace"}
<1>1. c.authenticators \cup c.authorizers \subseteq Plugins
  BY DEF Plugins
<1>2. /\ \A a \in c.authenticators : a.kind \in Kinds
      /\ \A z \in c.authorizers : z.kind = "paths" \/ z.kind = "namespace"
  BY ConfigsAssumption DEF Kinds
<1> QED BY <1>1, <1>2

\* An authenticator that accepts a request names an identity of the right type.
LEMMA IdentityType ==
  ASSUME NEW c \in Configs, NEW a \in c.authenticators, NEW w \in Wires,
         NEW user \in Names \cup {None}, NEW t, AuthAnswer(a, w, t) = "pass"
  PROVE  Identity(a, w, user) \in Names \cup {None}
<1>1. a.kind \in Kinds
  BY ConfigFacts
<1>2. /\ w.header \in Names \cup {None} /\ w.id \in Names \cup {None}
      /\ w.cert \in Names \cup {None, "unnamed"}
  BY WiresAssumption
<1>3. CASE a.kind = "creds" \/ a.kind = "header" \/ a.kind = "keys"
  BY <1>2, <1>3 DEF Identity
<1>4. CASE a.kind = "cert"
  BY <1>2, <1>4 DEF Identity, AuthAnswer, CertAnswer
<1> QED BY <1>1, <1>3, <1>4 DEF Kinds

\* What a step of one child leaves alone.
LEMMA Others ==
  ASSUME TypeOK, Control, ServerTypeOK, NEW h \in Handlers,
         \/ Accept(h) \/ Authenticate(h) \/ Authenticated(h) \/ Authorize(h)
         \/ Authorized(h) \/ Dispatch(h) \/ ServeSecrets(h) \/ Respond(h) \/ Kill(h)
  PROVE  /\ \A g \in Handlers \ {h} : child'[g] = child[g] /\ Untouched(g)
         /\ config' = config
<1>1. CASE ServeSecrets(h)
  <2>1. Proceed(h) /\ config' = config
    BY <1>1 DEF ServeSecrets
  <2> QED BY <1>1, <2>1, OthersUntouched DEF ServeSecrets, Leave, ServerTypeOK
<1>2. CASE Kill(h)
  <2>1. UNCHANGED vars \/ Crash(h)
    BY <1>2 DEF Kill
  <2>2. \A g \in Handlers \ {h} : Untouched(g)
    BY <2>1, OthersUntouched DEF vars, Untouched
  <2> QED BY <1>2, <2>2 DEF Kill, Leave, ServerTypeOK
<1>3. CASE Dispatch(h)
  <2>1. UNCHANGED vars \/ Receive(h)
    BY <1>3 DEF Dispatch
  <2>2. \A g \in Handlers \ {h} : Untouched(g)
    BY <2>1, OthersUntouched DEF vars, Untouched
  <2> QED BY <1>3, <2>2 DEF Dispatch, Answer, Enter, ServerTypeOK
<1>4. CASE \/ Accept(h) \/ Authenticate(h) \/ Authenticated(h) \/ Authorize(h)
           \/ Authorized(h) \/ Respond(h)
  <2>1. UNCHANGED vars /\ config' = config
    BY <1>4 DEF Accept, Authenticate, Authenticated, Authorize, Authorized, Respond
  <2>2. \E new : child' = [child EXCEPT ![h] = new]
    <3>1. CASE Accept(h)
      BY <3>1 DEF Accept, Answer, Enter
    <3>2. CASE Authenticate(h)
      BY <3>2 DEF Authenticate, Answer, Asked
    <3>3. CASE Authorize(h)
      BY <3>3 DEF Authorize, Answer, Asked
    <3>4. CASE Authenticated(h) \/ Authorized(h)
      BY <3>4 DEF Authenticated, Authorized, Answer, Enter
    <3>5. CASE Respond(h)
      BY <3>5 DEF Respond, Leave
    <3> QED BY <1>4, <3>1, <3>2, <3>3, <3>4, <3>5
  <2>3. \A g \in Handlers \ {h} : child'[g] = child[g]
    BY <2>2 DEF ServerTypeOK
  <2> QED BY <2>1, <2>3 DEF vars, Untouched
<1> QED BY <1>1, <1>2, <1>3, <1>4

\* The three ways in which actions change what is known of a child.
LEMMA AnswerStep ==
  ASSUME ServerTypeOK, NEW h \in Handlers, NEW w \in Wires, NEW status \in ServerCodes,
         Answer(h, w, status)
  PROVE  /\ child' \in [Handlers -> Children]
         /\ child'[h].stage = "answer" /\ child'[h].wire = w
<1>1. child[h] \in Children
  BY DEF ServerTypeOK
<1>2. [child[h] EXCEPT !.wire = w, !.stage = "answer", !.status = status] \in Children
  BY <1>1 DEF Children, Stages
<1>3. child'[h] = [child[h] EXCEPT !.wire = w, !.stage = "answer", !.status = status]
  BY DEF Answer, ServerTypeOK
<1> QED BY <1>1, <1>2, <1>3 DEF Answer, ServerTypeOK, Children

PluginSets == SUBSET Plugins

LEMMA EnterStep ==
  ASSUME ServerTypeOK, NEW h \in Handlers, NEW w \in Wires, NEW stage \in Stages,
         NEW plugins \in PluginSets, Enter(h, w, stage, plugins)
  PROVE  /\ child' \in [Handlers -> Children]
         /\ child'[h].stage = stage /\ child'[h].wire = w /\ child'[h].todo = plugins
         /\ child'[h].passed = FALSE
         /\ child'[h].user = child[h].user /\ child'[h].default = child[h].default
<1>1. child[h] \in Children
  BY DEF ServerTypeOK
<1>2. [child[h] EXCEPT !.wire = w, !.stage = stage, !.todo = plugins, !.passed = FALSE]
        \in Children
  BY <1>1 DEF Children, PluginSets
<1>3. child'[h] = [child[h] EXCEPT !.wire = w, !.stage = stage, !.todo = plugins,
                                  !.passed = FALSE]
  BY DEF Enter, ServerTypeOK
<1> QED BY <1>1, <1>2, <1>3 DEF Enter, ServerTypeOK, Children

\* The stages that are entered with plugins to ask, and those without.
LEMMA EnterAuthn ==
  ASSUME ServerTypeOK, NEW h \in Handlers, NEW w \in Wires,
         Enter(h, w, "authn", config.authenticators)
  PROVE  /\ child' \in [Handlers -> Children]
         /\ child'[h].stage = "authn" /\ child'[h].wire = w
         /\ child'[h].todo = config.authenticators /\ child'[h].passed = FALSE
         /\ child'[h].user = child[h].user /\ child'[h].default = child[h].default
<1> DEFINE plugins == config.authenticators
<1>1. "authn" \in Stages
  BY DEF Stages
<1>2. plugins \in PluginSets
  <2>1. config \in Configs
    BY DEF ServerTypeOK
  <2> QED BY <2>1, ConfigFacts DEF PluginSets
<1>3. Enter(h, w, "authn", plugins)
  OBVIOUS
<1> HIDE DEF plugins
<1> DEFINE stage == "authn"
<1>4. stage \in Stages /\ Enter(h, w, stage, plugins)
  BY <1>1, <1>3
<1> HIDE DEF stage
<1>5. /\ child' \in [Handlers -> Children]
      /\ child'[h].stage = stage /\ child'[h].wire = w
      /\ child'[h].todo = plugins /\ child'[h].passed = FALSE
      /\ child'[h].user = child[h].user /\ child'[h].default = child[h].default
  BY <1>2, <1>4, EnterStep
<1>6. /\ child' \in [Handlers -> Children]
      /\ child'[h].stage = "authn" /\ child'[h].wire = w
      /\ child'[h].todo = plugins /\ child'[h].passed = FALSE
      /\ child'[h].user = child[h].user /\ child'[h].default = child[h].default
  BY <1>5 DEF stage
<1> QED BY <1>6 DEF plugins

LEMMA EnterAuthz ==
  ASSUME ServerTypeOK, NEW h \in Handlers, NEW w \in Wires,
         Enter(h, w, "authz", config.authorizers)
  PROVE  /\ child' \in [Handlers -> Children]
         /\ child'[h].stage = "authz" /\ child'[h].wire = w
         /\ child'[h].todo = config.authorizers /\ child'[h].passed = FALSE
         /\ child'[h].user = child[h].user /\ child'[h].default = child[h].default
<1> DEFINE plugins == config.authorizers
<1>1. "authz" \in Stages
  BY DEF Stages
<1>2. plugins \in PluginSets
  <2>1. config \in Configs
    BY DEF ServerTypeOK
  <2> QED BY <2>1, ConfigFacts DEF PluginSets
<1>3. Enter(h, w, "authz", plugins)
  OBVIOUS
<1> HIDE DEF plugins
<1> DEFINE stage == "authz"
<1>4. stage \in Stages /\ Enter(h, w, stage, plugins)
  BY <1>1, <1>3
<1> HIDE DEF stage
<1>5. /\ child' \in [Handlers -> Children]
      /\ child'[h].stage = stage /\ child'[h].wire = w
      /\ child'[h].todo = plugins /\ child'[h].passed = FALSE
      /\ child'[h].user = child[h].user /\ child'[h].default = child[h].default
  BY <1>2, <1>4, EnterStep
<1>6. /\ child' \in [Handlers -> Children]
      /\ child'[h].stage = "authz" /\ child'[h].wire = w
      /\ child'[h].todo = plugins /\ child'[h].passed = FALSE
      /\ child'[h].user = child[h].user /\ child'[h].default = child[h].default
  BY <1>5 DEF stage
<1> QED BY <1>6 DEF plugins

LEMMA EnterPlain ==
  ASSUME ServerTypeOK, NEW h \in Handlers, NEW w \in Wires,
         NEW stage \in {"route", "secrets"}, Enter(h, w, stage, {})
  PROVE  /\ child' \in [Handlers -> Children]
         /\ child'[h].stage = stage /\ child'[h].wire = w
         /\ child'[h].user = child[h].user /\ child'[h].default = child[h].default
<1> DEFINE none == {}
<1>1. stage \in Stages
  BY DEF Stages
<1>2. none \in PluginSets
  BY DEF PluginSets
<1>3. Enter(h, w, stage, none)
  OBVIOUS
<1> HIDE DEF none
<1> QED BY <1>1, <1>2, <1>3, EnterStep

LEMMA LeaveStep ==
  ASSUME ServerTypeOK, NEW h \in Handlers, Leave(h)
  PROVE  child' \in [Handlers -> Children] /\ child'[h] = NoChild
<1>1. NoChild \in Children
  BY DEF NoChild, Children, Stages, ServerCodes
<1> QED BY <1>1 DEF Leave, ServerTypeOK

\* What is known of a child after a plugin that does not refuse.
PassedOn(h, plugin, passes, user, default) ==
  /\ child'[h].stage = child[h].stage /\ child'[h].wire = child[h].wire
  /\ child'[h].todo = child[h].todo \ {plugin}
  /\ child'[h].passed = (child[h].passed \/ passes)
  /\ child'[h].user = user /\ child'[h].default = default

LEMMA AskedStep ==
  ASSUME ServerTypeOK, NEW h \in Handlers, NEW plugin, NEW passes \in BOOLEAN,
         NEW user \in Names \cup {None}, NEW default \in Names \cup {None},
         Asked(h, plugin, passes, user, default)
  PROVE  child' \in [Handlers -> Children] /\ PassedOn(h, plugin, passes, user, default)
<1> DEFINE c == child[h]
           passed == c.passed \/ passes
           new == [c EXCEPT !.todo = c.todo \ {plugin}, !.passed = passed,
                            !.user = user, !.default = default]
<1>1. c \in Children
  BY DEF ServerTypeOK
<1>2. passed \in BOOLEAN
  BY <1>1 DEF Children
<1>3. child' = [child EXCEPT ![h] = new]
  BY DEF Asked
<1>4. child'[h] = new
  BY <1>3 DEF ServerTypeOK
<1> HIDE DEF passed
<1>5. new \in Children
  BY <1>1, <1>2 DEF Children
<1>6. child' \in [Handlers -> Children]
  BY <1>3, <1>5 DEF ServerTypeOK
<1>7. /\ new.stage = c.stage /\ new.wire = c.wire /\ new.todo = c.todo \ {plugin}
      /\ new.passed = passed /\ new.user = user /\ new.default = default
  BY <1>1 DEF Children
<1>8. /\ child'[h].stage = c.stage /\ child'[h].wire = c.wire
      /\ child'[h].todo = c.todo \ {plugin}
      /\ child'[h].passed = passed /\ child'[h].user = user /\ child'[h].default = default
  BY <1>4, <1>7
<1> QED BY <1>6, <1>8 DEF PassedOn, passed

\* What Authenticate and Authorize do to a child that they ask a plugin about.
LEMMA AuthenticateStep ==
  ASSUME ServerTypeOK, ChildrenOK, NEW h \in Handlers, Authenticate(h)
  PROVE  /\ child' \in [Handlers -> Children]
         /\ \/ child'[h].stage = "answer" /\ child'[h].wire = child[h].wire
            \/ \E a \in child[h].todo :
                 LET answer == AuthAnswer(a, child[h].wire, rows) IN
                 /\ answer # "fail"
                 /\ PassedOn(h, a, answer = "pass",
                             IF answer = "pass" THEN Identity(a, child[h].wire, child[h].user)
                                                ELSE child[h].user,
                             child[h].default)
<1> DEFINE c == child[h]
           answer(a) == AuthAnswer(a, c.wire, rows)
           user(a) == IF answer(a) = "pass" THEN Identity(a, c.wire, c.user) ELSE c.user
<1>1. /\ c \in Children /\ c.stage = "authn" /\ c.wire \in Wires
      /\ config \in Configs /\ c.todo \subseteq config.authenticators
  BY DEF Authenticate, ServerTypeOK, ChildrenOK, ChildOK
<1>2. PICK a \in c.todo :
        \/ answer(a) = "fail" /\ Answer(h, c.wire, 403)
        \/ answer(a) # "fail" /\ Asked(h, a, answer(a) = "pass", user(a), c.default)
  BY DEF Authenticate
<1>3. user(a) \in Names \cup {None} /\ c.default \in Names \cup {None}
  BY <1>1, IdentityType DEF Children
<1>4. CASE Answer(h, c.wire, 403)
  BY <1>1, <1>4, AnswerStep DEF ServerCodes
<1> HIDE DEF answer, user
<1>5. CASE answer(a) # "fail" /\ Asked(h, a, answer(a) = "pass", user(a), c.default)
  <2>1. /\ child' \in [Handlers -> Children]
        /\ PassedOn(h, a, answer(a) = "pass", user(a), c.default)
    BY <1>3, <1>5, AskedStep
  <2> QED BY <1>5, <2>1 DEF answer, user
<1> QED BY <1>2, <1>4, <1>5

LEMMA AuthorizeStep ==
  ASSUME ServerTypeOK, ChildrenOK, NEW h \in Handlers, Authorize(h)
  PROVE  /\ child' \in [Handlers -> Children]
         /\ \/ child'[h].stage = "answer" /\ child'[h].wire = child[h].wire
            \/ \E z \in child[h].todo :
                 LET answer == AuthzAnswer(z, child[h].wire, child[h].user) IN
                 /\ answer # "fail"
                 /\ PassedOn(h, z, answer = "pass", child[h].user,
                             IF answer = "pass" /\ z.kind = "namespace"
                             THEN child[h].user ELSE child[h].default)
<1> DEFINE c == child[h]
           answer(z) == AuthzAnswer(z, c.wire, c.user)
           default(z) == IF answer(z) = "pass" /\ z.kind = "namespace"
                         THEN c.user ELSE c.default
<1>1. c \in Children /\ c.stage = "authz" /\ c.wire \in Wires
  BY DEF Authorize, ServerTypeOK, ChildrenOK, ChildOK
<1>2. PICK z \in c.todo :
        \/ answer(z) = "fail" /\ Answer(h, c.wire, 403)
        \/ answer(z) # "fail" /\ Asked(h, z, answer(z) = "pass", c.user, default(z))
  BY DEF Authorize
<1>3. default(z) \in Names \cup {None} /\ c.user \in Names \cup {None}
  BY <1>1 DEF Children
<1>4. CASE Answer(h, c.wire, 403)
  BY <1>1, <1>4, AnswerStep DEF ServerCodes
<1> HIDE DEF answer, default
<1>5. CASE answer(z) # "fail" /\ Asked(h, z, answer(z) = "pass", c.user, default(z))
  <2>1. /\ child' \in [Handlers -> Children]
        /\ PassedOn(h, z, answer(z) = "pass", c.user, default(z))
    BY <1>3, <1>5, AskedStep
  <2> QED BY <1>5, <2>1 DEF answer, default
<1> QED BY <1>2, <1>4, <1>5

\* While Secrets has the request it is the same one, and it answers once.
LEMMA ServeStep ==
  ASSUME TypeOK, NEW h \in Handlers, Proceed(h) \/ Crash(h)
  PROVE  /\ Crash(h) \/ pc[h] = "reply" => pc'[h] = "idle"
         /\ Proceed(h) /\ pc[h] # "reply" => req' = req
<1>1. Exit(h) => pc'[h] = "idle"
  BY DEF TypeOK, Exit
<1>2. pc[h] = "reply" => Exit(h)
  BY DEF Proceed, Crash, Reply, ListParent, SpanNamespace, Insert, GetKey,
         ListContainer, ListVictim, Cut, StoreFault, Audit
<1>3. Proceed(h) /\ pc[h] # "reply" => req' = req
  BY DEF Proceed, Reply, ListParent, SpanNamespace, Insert, GetKey,
         ListContainer, ListVictim, Cut, StoreFault, Audit
<1> QED BY <1>1, <1>2, <1>3 DEF Crash

LEMMA ReceiveMoves ==
  ASSUME TypeOK, NEW h \in Handlers, Receive(h)
  PROVE  pc[h] = "idle"
  BY DEF Receive

\* ChildOK of a child depends on nothing else.
LEMMA SameChild ==
  ASSUME NEW g \in Handlers, ChildOK(g), child'[g] = child[g], config' = config,
         pc'[g] = pc[g], req'[g] = req[g]
  PROVE  ChildOK(g)'
  BY DEF ChildOK, Handed, Routed

LEMMA ReceptionType == \A r \in Receptions \ {"ok"} : ReceptionCode[r] \in ServerCodes
<1>1. SUFFICES ASSUME NEW r \in Receptions \ {"ok"} PROVE ReceptionCode[r] \in ServerCodes
  OBVIOUS
<1>2. CASE r = "long line"
  <2>1. ReceptionCode[r] = 414
    BY <1>2 DEF Receptions, ReceptionCode
  <2> QED BY <2>1 DEF ServerCodes
<1>3. CASE r = "bad line"
  <2>1. ReceptionCode[r] = 400
    BY <1>3 DEF Receptions, ReceptionCode
  <2> QED BY <2>1 DEF ServerCodes
<1>4. CASE r = "long body"
  <2>1. ReceptionCode[r] = 413
    BY <1>4 DEF Receptions, ReceptionCode
  <2> QED BY <2>1 DEF ServerCodes
<1> QED BY <1>2, <1>3, <1>4 DEF Receptions

\* What a child that reads a request does with it.
LEMMA AcceptCases ==
  ASSUME NEW h \in Handlers, Accept(h)
  PROVE  \E w \in Wires :
           \/ w.received # "ok" /\ Answer(h, w, ReceptionCode[w.received])
           \/ Answer(h, w, 400)
           \/ Enter(h, w, "authn", config.authenticators)
<1>1. PICK w \in Wires :
        \/ w.received # "ok" /\ Answer(h, w, ReceptionCode[w.received])
        \/ w.received = "ok" /\ Chain(w)[1] # "" /\ Answer(h, w, 400)
        \/ w.received = "ok" /\ Chain(w)[1] = "" /\ Enter(h, w, "authn", config.authenticators)
  BY DEF Accept
<1> QED BY <1>1

\* A child that ends is as before it was forked.
LEMMA IdleOK ==
  ASSUME ServerTypeOK, NEW h \in Handlers, Leave(h), pc'[h] = "idle"
  PROVE  child' \in [Handlers -> Children] /\ ChildOK(h)'
<1>1. child' \in [Handlers -> Children] /\ child'[h] = NoChild
  BY LeaveStep
<1>2. child'[h].stage = "idle" /\ child'[h].default = None
  BY <1>1 DEF NoChild
<1> QED BY <1>1, <1>2 DEF ChildOK

LEMMA ChildStep ==
  ASSUME TypeOK, Control, ServerTypeOK, ChildrenOK, NEW h \in Handlers,
         \/ Accept(h) \/ Authenticate(h) \/ Authenticated(h) \/ Authorize(h)
         \/ Authorized(h) \/ Dispatch(h) \/ ServeSecrets(h) \/ Respond(h) \/ Kill(h)
  PROVE  child' \in [Handlers -> Children] /\ ChildOK(h)'
<1> DEFINE c == child[h]
<1>0. /\ c \in Children /\ config \in Configs /\ config' = config
      /\ c.stage # "idle" => c.wire \in Wires
      /\ c.stage = "idle" => c = NoChild
      /\ c.stage # "secrets" => pc[h] = "idle"
      /\ c.stage = "secrets" => req[h] = Handed(h) /\ Routed(h)
  BY Others DEF ServerTypeOK, ChildrenOK, ChildOK
\* The steps that only move the child within the pipeline.
<1>2. ASSUME UNCHANGED vars, c.stage # "secrets",
             NEW w \in Wires, NEW status \in ServerCodes, Answer(h, w, status)
      PROVE  child' \in [Handlers -> Children] /\ ChildOK(h)'
  <2>1. pc'[h] = "idle"
    BY <1>0, <1>2 DEF vars
  <2> QED BY <1>2, <2>1, AnswerStep DEF ChildOK
<1>3. ASSUME UNCHANGED vars, Leave(h), pc'[h] = "idle"
      PROVE  child' \in [Handlers -> Children] /\ ChildOK(h)'
  BY <1>3, IdleOK
<1>4. CASE Accept(h)
  <2>0. UNCHANGED vars /\ c = NoChild
    BY <1>0, <1>4 DEF Accept
  <2>1. PICK w \in Wires :
          \/ w.received # "ok" /\ Answer(h, w, ReceptionCode[w.received])
          \/ Answer(h, w, 400)
          \/ Enter(h, w, "authn", config.authenticators)
    BY <1>4, AcceptCases
  <2>2. w.received # "ok" => ReceptionCode[w.received] \in ServerCodes
    <3>1. w.received \in Receptions
      BY WiresAssumption
    <3> QED BY <3>1, ReceptionType
  <2>3. CASE \/ w.received # "ok" /\ Answer(h, w, ReceptionCode[w.received])
             \/ Answer(h, w, 400)
    BY <1>2, <2>0, <2>2, <2>3 DEF ServerCodes, NoChild
  <2>4. CASE Enter(h, w, "authn", config.authenticators)
    <3>1. /\ child' \in [Handlers -> Children] /\ child'[h].stage = "authn"
          /\ child'[h].wire = w /\ child'[h].todo = config.authenticators
          /\ child'[h].default = None
      <4>1. /\ child' \in [Handlers -> Children] /\ child'[h].stage = "authn"
            /\ child'[h].wire = w /\ child'[h].todo = config.authenticators
            /\ child'[h].default = c.default
        BY <2>4, EnterAuthn
      <4> QED BY <2>0, <4>1 DEF NoChild
    <3>2. pc'[h] = "idle"
      BY <1>0, <2>0 DEF vars, NoChild
    <3> QED BY <1>0, <3>1, <3>2 DEF ChildOK
  <2> QED BY <2>1, <2>3, <2>4
<1>5. CASE Authenticate(h)
  <2>1. c.stage = "authn" /\ UNCHANGED vars
    BY <1>5 DEF Authenticate
  <2>2. /\ pc'[h] = "idle" /\ c.default = None /\ c.todo \subseteq config.authenticators
        /\ c.wire \in Wires
    BY <1>0, <2>1 DEF vars, ChildrenOK, ChildOK
  <2>3. /\ child' \in [Handlers -> Children]
        /\ \/ child'[h].stage = "answer" /\ child'[h].wire = c.wire
           \/ /\ child'[h].stage = "authn" /\ child'[h].wire = c.wire
              /\ child'[h].default = None /\ child'[h].todo \subseteq c.todo
    BY <1>5, <2>1, <2>2, AuthenticateStep DEF PassedOn
  <2> QED BY <1>0, <2>2, <2>3 DEF ChildOK
<1>6. CASE Authenticated(h)
  <2>1. c.stage = "authn" /\ UNCHANGED vars /\ c.default = None /\ c.wire \in Wires
    BY <1>0, <1>6 DEF Authenticated, ChildrenOK, ChildOK
  <2>2. CASE Answer(h, c.wire, 403)
    BY <1>2, <2>1, <2>2 DEF ServerCodes
  <2>3. CASE Enter(h, c.wire, "authz", config.authorizers)
    <3>1. /\ child' \in [Handlers -> Children] /\ child'[h].stage = "authz"
          /\ child'[h].wire = c.wire /\ child'[h].todo = config.authorizers
      BY <2>1, <2>3, EnterAuthz
    <3>2. pc'[h] = "idle"
      BY <1>0, <2>1 DEF vars
    <3> QED BY <1>0, <2>1, <3>1, <3>2 DEF ChildOK
  <2> QED BY <1>6, <2>2, <2>3 DEF Authenticated
<1>7. CASE Authorize(h)
  <2>1. c.stage = "authz" /\ UNCHANGED vars
    BY <1>7 DEF Authorize
  <2>2. pc'[h] = "idle" /\ c.todo \subseteq config.authorizers /\ c.wire \in Wires
    BY <1>0, <2>1 DEF vars, ChildrenOK, ChildOK
  <2>3. /\ child' \in [Handlers -> Children] /\ child'[h].wire = c.wire
        /\ \/ child'[h].stage = "answer"
           \/ child'[h].stage = "authz" /\ child'[h].todo \subseteq c.todo
    BY <1>7, <2>1, AuthorizeStep DEF PassedOn
  <2> QED BY <1>0, <2>2, <2>3 DEF ChildOK
<1>8. CASE Authorized(h)
  <2>1. c.stage = "authz" /\ UNCHANGED vars /\ c.wire \in Wires
    BY <1>0, <1>8 DEF Authorized
  <2>2. CASE Answer(h, c.wire, 403)
    BY <1>2, <2>1, <2>2 DEF ServerCodes
  <2>3. CASE Enter(h, c.wire, "route", {})
    <3>1. /\ child' \in [Handlers -> Children] /\ child'[h].stage = "route"
          /\ child'[h].wire = c.wire
      BY <2>1, <2>3, EnterPlain
    <3>2. pc'[h] = "idle"
      BY <1>0, <2>1 DEF vars
    <3> QED BY <2>1, <3>1, <3>2 DEF ChildOK
  <2> QED BY <1>8, <2>2, <2>3 DEF Authorized
<1>9. CASE Dispatch(h)
  <2>1. c.stage = "route" /\ c.wire \in Wires
    BY <1>0, <1>9 DEF Dispatch
  <2>2. OtherStatus(c.wire) \in ServerCodes
    BY DEF OtherStatus, ServerCodes
  <2>3. CASE UNCHANGED vars /\ \E status \in ServerCodes : Answer(h, c.wire, status)
    BY <1>2, <2>1, <2>3
  <2>4. CASE /\ Receive(h) /\ req'[h] = Handed(h) /\ Enter(h, c.wire, "secrets", {})
             /\ Routed(h)
    <3>1. /\ child' \in [Handlers -> Children] /\ child'[h].stage = "secrets"
          /\ child'[h].wire = c.wire /\ child'[h].default = c.default
      BY <2>1, <2>4, EnterPlain
    <3>2. Handed(h)' = Handed(h) /\ Routed(h)'
      BY <1>0, <2>4, <3>1 DEF Handed, Routed
    <3> QED BY <2>1, <2>4, <3>1, <3>2 DEF ChildOK
  <2> QED BY <1>9, <2>2, <2>3, <2>4 DEF Dispatch, ServerCodes, Routed
<1>10. CASE ServeSecrets(h)
  <2>1. c.stage = "secrets" /\ Proceed(h)
    BY <1>10 DEF ServeSecrets
  <2>2. CASE pc[h] = "reply"
    <3>1. Leave(h) /\ pc'[h] = "idle"
      BY <1>10, <2>1, <2>2, ServeStep DEF ServeSecrets
    <3> QED BY <3>1, IdleOK
  <2>3. CASE pc[h] # "reply"
    <3>1. child' = child /\ req' = req
      BY <1>10, <2>1, <2>3, ServeStep DEF ServeSecrets
    <3>2. Handed(h)' = Handed(h) /\ Routed(h)'
      BY <1>0, <2>1, <3>1 DEF Handed, Routed
    <3> QED BY <1>0, <2>1, <3>1, <3>2 DEF ServerTypeOK, ChildOK
  <2> QED BY <2>2, <2>3
<1>11. CASE Respond(h)
  <2>1. Leave(h) /\ pc'[h] = "idle"
    BY <1>0, <1>11 DEF Respond, vars
  <2> QED BY <2>1, IdleOK
<1>12. CASE Kill(h)
  <2>1. Leave(h) /\ pc'[h] = "idle"
    BY <1>12, ServeStep DEF Kill, vars
  <2> QED BY <2>1, IdleOK
<1> QED BY <1>4, <1>5, <1>6, <1>7, <1>8, <1>9, <1>10, <1>11, <1>12

\* ServerTypeOK of Custodia: whatever the plugins answer, what they leave with
\* a request is what the later stages expect to find.
THEOREM ServerTypeCorrect == ServerSpec => []ServerTypeOK /\ []ChildrenOK
<1>1. ServerInit => ServerTypeOK /\ ChildrenOK
  <2> SUFFICES ASSUME ServerInit PROVE ServerTypeOK /\ ChildrenOK
    OBVIOUS
  <2>1. TypeOK
    BY DEF ServerInit, Init, TypeOK, Table, NoRows, Steps, Codes
  <2>2. NoChild \in Children
    BY DEF NoChild, Children, Stages, ServerCodes
  <2> QED BY <2>1, <2>2 DEF ServerInit, Init, ServerTypeOK, ChildrenOK, ChildOK, NoChild
<1>2. ASSUME TypeOK, TypeOK', Control, ServerTypeOK, ChildrenOK, [ServerNext]_serverVars
      PROVE  ServerTypeOK' /\ ChildrenOK'
  <2>1. CASE UNCHANGED serverVars
    BY <1>2, <2>1 DEF serverVars, vars, ServerTypeOK, ChildrenOK, ChildOK, Handed, Routed
  <2>2. CASE ServerNext
    <3>1. PICK h \in Handlers :
            \/ Accept(h) \/ Authenticate(h) \/ Authenticated(h) \/ Authorize(h)
            \/ Authorized(h) \/ Dispatch(h) \/ ServeSecrets(h) \/ Respond(h) \/ Kill(h)
      BY <2>2 DEF ServerNext
    <3>2. child' \in [Handlers -> Children] /\ ChildOK(h)'
      BY <1>2, <3>1, ChildStep
    <3>3. /\ \A g \in Handlers \ {h} : child'[g] = child[g] /\ Untouched(g)
          /\ config' = config
      BY <1>2, <3>1, Others
    <3>4. \A g \in Handlers \ {h} : ChildOK(g)'
      BY <1>2, <3>3, SameChild DEF Untouched, ChildrenOK
    <3> QED BY <1>2, <3>2, <3>3, <3>4 DEF ServerTypeOK, ChildrenOK
  <2> QED BY <1>2, <2>1, <2>2
<1>3. ServerSpec => []TypeOK /\ []Control
  BY ServerIsSecrets, TypeCorrect, PTL
<1> QED BY <1>1, <1>2, <1>3, PTL DEF ServerSpec

--------------------------------------------------------------------------------
(***************************************************************************)
(* Permitted.  The loop over the authorizers keeps a summary of those that *)
(* it has asked: authz_ok and the default namespace.  The invariant says   *)
(* that this summary is true of them, for the user the authenticators left *)
(* with the request, so that at the end of the loop it is true of all.     *)
(***************************************************************************)

AnswerOf(h, z) == AuthzAnswer(z, child[h].wire, child[h].user)

\* What is known of the authorizers in zs.
Summary(h, zs, passed) ==
  LET c == child[h] IN
  /\ \A z \in zs : AnswerOf(h, z) # "fail"
  /\ passed => \E z \in zs : AnswerOf(h, z) = "pass"
  /\ c.default # None =>
       c.default = c.user /\ \E z \in zs : z.kind = "namespace" /\ AnswerOf(h, z) = "pass"

GrantOK(h) ==
  /\ child[h].stage = "authz" =>
       Summary(h, config.authorizers \ child[h].todo, child[h].passed)
  /\ child[h].stage \in {"route", "secrets"} => Summary(h, config.authorizers, TRUE)

GrantsOK == \A h \in Handlers : GrantOK(h)

LEMMA GrantsArePermitted == ServerTypeOK /\ ChildrenOK /\ GrantsOK => Permitted
<1> SUFFICES ASSUME ServerTypeOK, ChildrenOK, GrantsOK, NEW h \in Handlers,
                    child[h].stage \in {"route", "secrets"}
             PROVE  LET c == child[h] IN
                    /\ \A z \in config.authorizers : AuthzAnswer(z, c.wire, c.user) # "fail"
                    /\ \E z \in config.authorizers : AuthzAnswer(z, c.wire, c.user) = "pass"
                    /\ c.default # None =>
                         /\ c.default = c.user
                         /\ \E z \in config.authorizers :
                              z.kind = "namespace" /\ StartsWith(c.wire.path, UserDir(z, c.user))
  BY DEF Permitted
<1>1. Summary(h, config.authorizers, TRUE)
  BY DEF GrantsOK, GrantOK
<1>2. ASSUME NEW z \in config.authorizers, z.kind = "namespace", AnswerOf(h, z) = "pass"
      PROVE  StartsWith(child[h].wire.path, UserDir(z, child[h].user))
  BY <1>2 DEF AnswerOf, AuthzAnswer, NamespaceAnswer
<1> QED BY <1>1, <1>2 DEF Summary, AnswerOf

\* One more authorizer that does not refuse.
LEMMA SummaryStep ==
  ASSUME ServerTypeOK, NEW h \in Handlers, child[h].stage = "authz", GrantOK(h),
         NEW z \in child[h].todo, child[h].todo \subseteq config.authorizers,
         config' = config, AnswerOf(h, z) # "fail",
         PassedOn(h, z, AnswerOf(h, z) = "pass", child[h].user,
                  IF AnswerOf(h, z) = "pass" /\ z.kind = "namespace"
                  THEN child[h].user ELSE child[h].default)
  PROVE  GrantOK(h)'
<1> DEFINE c == child[h]
           asked == config.authorizers \ c.todo
<1>1. Summary(h, asked, c.passed)
  BY DEF GrantOK
<1>2. /\ child'[h].stage = "authz" /\ child'[h].wire = c.wire /\ child'[h].user = c.user
      /\ (config.authorizers \ child[h].todo)' = asked \cup {z}
      /\ child'[h].passed = (c.passed \/ AnswerOf(h, z) = "pass")
      /\ child'[h].default = IF AnswerOf(h, z) = "pass" /\ z.kind = "namespace"
                             THEN c.user ELSE c.default
  BY DEF PassedOn
<1>3. \A y : AnswerOf(h, y)' = AnswerOf(h, y)
  BY <1>2 DEF AnswerOf
<1>4. \A y \in asked \cup {z} : AnswerOf(h, y)' # "fail"
  BY <1>1, <1>3 DEF Summary
<1>5. child'[h].passed => \E y \in asked \cup {z} : AnswerOf(h, y)' = "pass"
  <2>1. child'[h].passed => c.passed \/ AnswerOf(h, z) = "pass"
    BY <1>2, Zenon
  <2>2. c.passed => \E y \in asked : AnswerOf(h, y) = "pass"
    BY <1>1 DEF Summary
  <2> QED BY <1>3, <2>1, <2>2
<1>6. child'[h].default # None =>
        /\ child'[h].default = child'[h].user
        /\ \E y \in asked \cup {z} : y.kind = "namespace" /\ AnswerOf(h, y)' = "pass"
  BY <1>1, <1>2, <1>3 DEF Summary
<1> HIDE DEF asked
<1> QED BY <1>2, <1>4, <1>5, <1>6 DEF GrantOK, Summary

LEMMA GrantStep ==
  ASSUME TypeOK, Control, ServerTypeOK, ChildrenOK, GrantsOK, NEW h \in Handlers,
         \/ Accept(h) \/ Authenticate(h) \/ Authenticated(h) \/ Authorize(h)
         \/ Authorized(h) \/ Dispatch(h) \/ ServeSecrets(h) \/ Respond(h) \/ Kill(h)
  PROVE  GrantOK(h)'
<1> DEFINE c == child[h]
<1>0. /\ c \in Children /\ config \in Configs /\ config' = config
      /\ c.stage # "idle" => c.wire \in Wires
      /\ GrantOK(h)
  BY Others DEF ServerTypeOK, ChildrenOK, ChildOK, GrantsOK
<1>2. child'[h].stage \notin {"authz", "route", "secrets"} => GrantOK(h)'
  BY DEF GrantOK
<1>3. ASSUME NEW w \in Wires, NEW status \in ServerCodes, Answer(h, w, status)
      PROVE  GrantOK(h)'
  BY <1>2, <1>3, AnswerStep
<1>4. Leave(h) => GrantOK(h)'
  BY <1>2, LeaveStep DEF NoChild
<1>5. ASSUME NEW stage \in {"route", "secrets"}, NEW w \in Wires, w = c.wire,
             Enter(h, w, stage, {}), Summary(h, config.authorizers, TRUE)
      PROVE  GrantOK(h)'
  <2>1. /\ child'[h].stage = stage /\ child'[h].wire = c.wire
        /\ child'[h].user = c.user /\ child'[h].default = c.default
    BY <1>5, EnterPlain
  <2>2. Summary(h, config.authorizers, TRUE)'
    BY <1>0, <1>5, <2>1 DEF Summary, AnswerOf
  <2> QED BY <1>5, <2>1, <2>2 DEF GrantOK
<1>6. CASE Accept(h)
  <2>1. PICK w \in Wires :
          \/ w.received # "ok" /\ Answer(h, w, ReceptionCode[w.received])
          \/ Answer(h, w, 400)
          \/ Enter(h, w, "authn", config.authenticators)
    BY <1>6, AcceptCases
  <2>2. w.received # "ok" => ReceptionCode[w.received] \in ServerCodes
    BY WiresAssumption, ReceptionType
  <2>3. CASE Enter(h, w, "authn", config.authenticators)
    <3>1. child'[h].stage = "authn"
      BY <2>3, EnterAuthn
    <3> QED BY <1>2, <3>1
  <2> QED BY <1>3, <2>1, <2>2, <2>3 DEF ServerCodes
<1>7. CASE Authenticate(h)
  <2>1. c.stage = "authn"
    BY <1>7 DEF Authenticate
  <2>2. child'[h].stage \in {"answer", "authn"}
    BY <1>7, <2>1, AuthenticateStep DEF PassedOn
  <2> QED BY <1>2, <2>2
<1>8. CASE Authenticated(h)
  <2>1. c.stage = "authn" /\ c.default = None /\ c.wire \in Wires
    BY <1>0, <1>8 DEF Authenticated, ChildrenOK, ChildOK
  <2>2. CASE Answer(h, c.wire, 403)
    BY <1>3, <2>1, <2>2 DEF ServerCodes
  <2>3. CASE Enter(h, c.wire, "authz", config.authorizers)
    <3>1. /\ child'[h].stage = "authz" /\ child'[h].todo = config.authorizers
          /\ child'[h].passed = FALSE /\ child'[h].default = c.default
      BY <2>1, <2>3, EnterAuthz
    <3> QED BY <1>0, <2>1, <3>1 DEF GrantOK, Summary
  <2> QED BY <1>8, <2>2, <2>3 DEF Authenticated
<1>9. CASE Authorize(h)
  <2>1. c.stage = "authz" /\ c.todo \subseteq config.authorizers
    BY <1>9 DEF Authorize, ChildrenOK, ChildOK
  <2>2. CASE child'[h].stage = "answer"
    BY <1>2, <2>2
  <2>3. CASE \E z \in c.todo :
               /\ AnswerOf(h, z) # "fail"
               /\ PassedOn(h, z, AnswerOf(h, z) = "pass", c.user,
                           IF AnswerOf(h, z) = "pass" /\ z.kind = "namespace"
                           THEN c.user ELSE c.default)
    BY <1>0, <2>1, <2>3, SummaryStep
  <2> QED BY <1>9, <2>2, <2>3, AuthorizeStep DEF AnswerOf
<1>10. CASE Authorized(h)
  <2>1. c.stage = "authz" /\ c.todo = {} /\ c.wire \in Wires
    BY <1>0, <1>10 DEF Authorized
  <2>2. CASE Answer(h, c.wire, 403)
    BY <1>3, <2>1, <2>2 DEF ServerCodes
  <2>3. CASE c.passed /\ Enter(h, c.wire, "route", {})
    <3>1. Summary(h, config.authorizers, TRUE)
      BY <1>0, <2>1, <2>3 DEF GrantOK, Summary
    <3> QED BY <1>5, <2>1, <2>3, <3>1
  <2> QED BY <1>10, <2>2, <2>3 DEF Authorized
<1>11. CASE Dispatch(h)
  <2>1. c.stage = "route" /\ c.wire \in Wires /\ Summary(h, config.authorizers, TRUE)
    BY <1>0, <1>11 DEF Dispatch, GrantOK
  <2>2. OtherStatus(c.wire) \in ServerCodes /\ 404 \in ServerCodes
    BY DEF OtherStatus, ServerCodes
  <2>3. \/ \E status \in ServerCodes : Answer(h, c.wire, status)
        \/ Enter(h, c.wire, "secrets", {})
    BY <1>11, <2>2 DEF Dispatch
  <2> QED BY <1>3, <1>5, <2>1, <2>3
<1>12. CASE ServeSecrets(h)
  <2>1. Leave(h) \/ child' = child
    BY <1>12 DEF ServeSecrets
  <2> QED BY <1>0, <1>4, <2>1 DEF GrantOK, Summary, AnswerOf
<1>13. CASE Respond(h) \/ Kill(h)
  BY <1>4, <1>13 DEF Respond, Kill
<1> QED BY <1>6, <1>7, <1>8, <1>9, <1>10, <1>11, <1>12, <1>13

\* What is known of a child's authorizers is true whenever it is known.
LEMMA GrantsCorrect == ServerSpec => []GrantsOK
<1>1. ServerInit => GrantsOK
  <2> SUFFICES ASSUME ServerInit, NEW h \in Handlers PROVE GrantOK(h)
    BY DEF GrantsOK
  <2>1. child[h].stage = "idle"
    BY DEF ServerInit, NoChild
  <2> QED BY <2>1 DEF GrantOK
<1>2. ASSUME TypeOK, Control, ServerTypeOK, ChildrenOK, GrantsOK, [ServerNext]_serverVars
      PROVE  GrantsOK'
  <2>1. CASE UNCHANGED serverVars
    BY <1>2, <2>1 DEF serverVars, GrantsOK, GrantOK, Summary, AnswerOf
  <2>2. CASE ServerNext
    <3>1. PICK h \in Handlers :
            \/ Accept(h) \/ Authenticate(h) \/ Authenticated(h) \/ Authorize(h)
            \/ Authorized(h) \/ Dispatch(h) \/ ServeSecrets(h) \/ Respond(h) \/ Kill(h)
      BY <2>2 DEF ServerNext
    <3>2. GrantOK(h)'
      BY <1>2, <3>1, GrantStep
    <3>3. /\ \A g \in Handlers \ {h} : child'[g] = child[g]
          /\ config' = config
      BY <1>2, <3>1, Others
    <3>4. \A g \in Handlers \ {h} : GrantOK(g)'
      BY <1>2, <3>3 DEF GrantsOK, GrantOK, Summary, AnswerOf
    <3> QED BY <3>2, <3>4 DEF GrantsOK
  <2> QED BY <1>2, <2>1, <2>2
<1>3. ServerSpec => []TypeOK /\ []Control
  BY ServerIsSecrets, TypeCorrect, PTL
<1> QED BY <1>1, <1>2, <1>3, ServerTypeCorrect, PTL DEF ServerSpec

\* Permitted of Custodia: a consumer sees a request only when every authorizer
\* was asked about the user it ended up with, none refused and one accepted.
THEOREM PermittedCorrect == ServerSpec => []Permitted
  BY GrantsCorrect, ServerTypeCorrect, GrantsArePermitted, PTL

--------------------------------------------------------------------------------
(***************************************************************************)
(* Vouched.  What an authenticator said may depend on a row, so this is an *)
(* invariant of the table too: an answer that is not a refusal stays the   *)
(* same, because the only row it can depend on is there and holds the key, *)
(* rows that are there are not overwritten, and this one is not removed.   *)
(***************************************************************************)

\* The row of an identity is in the namespace the configuration names.
LEMMA KeyRow ==
  ASSUME NEW c \in Configs, NEW a \in c.authenticators, a.kind = "keys",
         NEW w \in Wires, KeyPath(a, w) \in Paths
  PROVE  IsKeyRow(KeyPath(a, w))
<1>1. a.namespace \in Seq(STRING)
  BY ConfigsAssumption
<1>2. KeyPath(a, w) \in Seq(STRING)
  BY PathsAssumption
<1>3. KeyPath(a, w) = Append(a.namespace, w.id)
  BY DEF KeyPath
<1>4. Parent(KeyPath(a, w)) = a.namespace
  <2> DEFINE ns == a.namespace
             id == w.id
             p == Append(ns, id)
  <2>1. /\ ns \in Seq(STRING) /\ p \in Seq(STRING) /\ Len(p) = Len(ns) + 1
        /\ p[Len(p)] = id
    BY <1>1, <1>2, <1>3
  <2>2. id \in STRING
    BY <2>1
  <2> HIDE DEF id
  <2>3. SubSeq(p, 1, Len(p) - 1) = ns
    BY <2>1, <2>2
  <2> QED BY <1>3, <2>3 DEF Parent, id
<1> QED BY <1>4 DEF IsKeyRow

\* A row of an identity that holds a key goes on holding it.
LEMMA KeyRowStays ==
  ASSUME KeysAreKept, TypeOK, Control, [Next]_vars, NEW p \in Paths,
         IsKeyRow(p), rows[p] # Absent
  PROVE  rows'[p] = rows[p]
<1>1. CASE UNCHANGED vars
  BY <1>1 DEF vars
<1>2. CASE Next
  <2>1. PICK h \in Handlers : Receive(h) \/ Proceed(h) \/ Crash(h)
    BY <1>2 DEF Next
  <2>2. \/ LeavesRows(h)
        \/ req[h] \in Requests /\ (AddsRow(h) \/ InsertsRow(h) \/ RemovesRow(h))
    BY <2>1, RowsStep
  <2>3. CASE LeavesRows(h)
    BY <2>3 DEF LeavesRows
  <2>4. CASE AddsRow(h) \/ InsertsRow(h)
    BY <2>4 DEF AddsRow, InsertsRow, Present, TypeOK, Table
  <2>5. CASE req[h] \in Requests /\ RemovesRow(h)
    <3>1. Operation(req[h]) \in {"del", "destroy"}
      BY <2>5 DEF RemovesRow
    <3>2. req[h].cmd = "DELETE"
      BY <2>5, <3>1, RequestsAssumption DEF Operation, Commands
    <3>3. req[h].path # p
      BY <2>5, <3>2 DEF KeysAreKept
    <3> QED BY <2>5, <3>3 DEF RemovesRow, TypeOK, Table
  <2> QED BY <2>2, <2>3, <2>4, <2>5
<1> QED BY <1>1, <1>2

\* Only a key authenticator looks at the table, and only at one row of it.
LEMMA AnswerStays ==
  ASSUME KeysAreKept, TypeOK, Control, [Next]_vars,
         NEW c \in Configs, NEW a \in c.authenticators, NEW w \in Wires,
         AuthAnswer(a, w, rows) # "fail"
  PROVE  AuthAnswer(a, w, rows') = AuthAnswer(a, w, rows)
<1>1. a.kind \in Kinds
  BY ConfigFacts
<1>2. CASE a.kind # "keys"
  <2>1. CASE a.kind = "creds"
    BY <2>1 DEF AuthAnswer
  <2>2. CASE a.kind = "header"
    BY <2>2 DEF AuthAnswer
  <2>3. CASE a.kind = "cert"
    BY <2>3 DEF AuthAnswer
  <2> QED BY <1>1, <1>2, <2>1, <2>2, <2>3 DEF Kinds
<1>3. CASE a.kind = "keys"
  <2>1. \A t : AuthAnswer(a, w, t) = KeysAnswer(a, w, t)
    BY <1>3 DEF AuthAnswer
  <2>2. CASE w.id = None /\ w.key = None
    BY <2>1, <2>2 DEF KeysAnswer
  <2>3. CASE ~(w.id = None /\ w.key = None)
    <3>1. /\ w.id # None /\ w.key # None /\ KeyPath(a, w) \in Paths
          /\ rows[KeyPath(a, w)] = w.key
      BY <2>1, <2>3 DEF KeysAnswer
    <3>2. w.key \in Values
      BY <3>1, WiresAssumption
    <3>3. rows[KeyPath(a, w)] # Absent
      BY <3>1, <3>2, ValuesAssumption
    <3>4. rows'[KeyPath(a, w)] = rows[KeyPath(a, w)]
      BY <1>3, <3>1, <3>3, KeyRow, KeyRowStays
    <3> QED BY <2>1, <3>1, <3>4 DEF KeysAnswer
  <2> QED BY <2>2, <2>3
<1> QED BY <1>2, <1>3

\* What is known of the authenticators in as.
Belief(h, as, passed) ==
  /\ \A a \in as : ~AnsweredWith(a, h, "fail")
  /\ passed => \E a \in as : AnsweredWith(a, h, "pass")
  /\ child[h].user # None =>
       \E a \in as : /\ AnsweredWith(a, h, "pass")
                     /\ Identity(a, child[h].wire, None) = child[h].user

Consulted(h) == config.authenticators \ child[h].todo

BeliefOK(h) ==
  /\ child[h].stage = "authn" => Belief(h, Consulted(h), child[h].passed)
  /\ child[h].stage \in {"authz", "route", "secrets"} =>
       Belief(h, config.authenticators, TRUE)

BeliefsOK == KeysAreKept => \A h \in Handlers : BeliefOK(h)

\* A child that goes on with its request for the same user.
LEMMA BeliefStays ==
  ASSUME KeysAreKept, TypeOK, Control, ServerTypeOK, [Next]_vars, NEW h \in Handlers,
         NEW as, as \subseteq config.authenticators, NEW passed, Belief(h, as, passed),
         child[h].wire \in Wires, child'[h].wire = child[h].wire,
         child'[h].user = child[h].user
  PROVE  Belief(h, as, passed)'
<1>1. config \in Configs
  BY DEF ServerTypeOK
<1>2. \A a \in as : AuthAnswer(a, child[h].wire, rows') = AuthAnswer(a, child[h].wire, rows)
  BY <1>1, AnswerStays DEF Belief, AnsweredWith
<1>3. \A a \in as : \A answer : AnsweredWith(a, h, answer)' <=> AnsweredWith(a, h, answer)
  BY <1>2 DEF AnsweredWith
<1>4. \A a \in as : ~AnsweredWith(a, h, "fail")'
  BY <1>3 DEF Belief
<1>5. passed => \E a \in as : AnsweredWith(a, h, "pass")'
  BY <1>3 DEF Belief
<1>6. child'[h].user # None =>
        \E a \in as : /\ AnsweredWith(a, h, "pass")'
                      /\ Identity(a, child'[h].wire, None) = child'[h].user
  BY <1>3 DEF Belief
<1> QED BY <1>4, <1>5, <1>6 DEF Belief

\* One more authenticator that does not refuse.
LEMMA BeliefAsked ==
  ASSUME ServerTypeOK, ChildrenOK, NEW h \in Handlers, child[h].stage = "authn",
         BeliefOK(h), UNCHANGED rows, config' = config, NEW a \in child[h].todo,
         AuthAnswer(a, child[h].wire, rows) # "fail",
         PassedOn(h, a, AuthAnswer(a, child[h].wire, rows) = "pass",
                  IF AuthAnswer(a, child[h].wire, rows) = "pass"
                  THEN Identity(a, child[h].wire, child[h].user) ELSE child[h].user,
                  child[h].default)
  PROVE  BeliefOK(h)'
<1> DEFINE c == child[h]
           answer == AuthAnswer(a, c.wire, rows)
           as == Consulted(h)
<1>1. Belief(h, as, c.passed) /\ a \in config.authenticators /\ config \in Configs
  BY DEF BeliefOK, ServerTypeOK, ChildrenOK, ChildOK
<1>2. /\ child'[h].stage = "authn" /\ child'[h].wire = c.wire
      /\ child'[h].todo = c.todo \ {a}
      /\ child'[h].passed = (c.passed \/ answer = "pass")
      /\ child'[h].user = IF answer = "pass" THEN Identity(a, c.wire, c.user) ELSE c.user
  BY DEF PassedOn
<1>3. Consulted(h)' = as \cup {a}
  BY <1>1, <1>2 DEF Consulted
<1>4. \A b, x : AnsweredWith(b, h, x)' <=> AnsweredWith(b, h, x)
  BY <1>2 DEF AnsweredWith
<1>5. answer = "pass" <=> AnsweredWith(a, h, "pass")
  BY DEF AnsweredWith
<1>6. \A b \in as \cup {a} : ~AnsweredWith(b, h, "fail")'
  BY <1>1, <1>4 DEF Belief, AnsweredWith
<1>7. child'[h].passed => \E b \in as \cup {a} : AnsweredWith(b, h, "pass")'
  <2>1. child'[h].passed => c.passed \/ answer = "pass"
    BY <1>2, Zenon
  <2>2. c.passed => \E b \in as : AnsweredWith(b, h, "pass")
    BY <1>1 DEF Belief
  <2> HIDE DEF as, answer
  <2> QED BY <1>4, <1>5, <2>1, <2>2
<1>8. ASSUME child'[h].user # None
      PROVE  \E b \in as \cup {a} : /\ AnsweredWith(b, h, "pass")'
                                    /\ Identity(b, child'[h].wire, None) = child'[h].user
  <2>1. CASE child'[h].user = c.user
    <3>1. \E b \in as : AnsweredWith(b, h, "pass") /\ Identity(b, c.wire, None) = c.user
      BY <1>1, <1>8, <2>1 DEF Belief
    <3> QED BY <1>2, <1>4, <2>1, <3>1
  <2>2. CASE child'[h].user # c.user
    <3>1. answer = "pass" /\ child'[h].user = Identity(a, c.wire, c.user)
      BY <1>2, <2>2
    <3>2. a.kind \in Kinds
      BY <1>1, ConfigFacts
    <3>3. a.kind # "creds"
      BY <2>2, <3>1 DEF Identity
    <3>4. Identity(a, c.wire, None) = Identity(a, c.wire, c.user)
      BY <3>2, <3>3 DEF Identity, Kinds
    <3> QED BY <1>2, <1>4, <1>5, <3>1, <3>4
  <2> QED BY <2>1, <2>2
<1> HIDE DEF as, answer
<1>9. Belief(h, Consulted(h), child[h].passed)'
  BY <1>3, <1>6, <1>7, <1>8 DEF Belief
<1> QED BY <1>2, <1>9 DEF BeliefOK

LEMMA BeliefStep ==
  ASSUME KeysAreKept, TypeOK, Control, ServerTypeOK, ChildrenOK, [Next]_vars,
         NEW h \in Handlers, BeliefOK(h),
         \/ Accept(h) \/ Authenticate(h) \/ Authenticated(h) \/ Authorize(h)
         \/ Authorized(h) \/ Dispatch(h) \/ ServeSecrets(h) \/ Respond(h) \/ Kill(h)
  PROVE  BeliefOK(h)'
<1> DEFINE c == child[h]
<1>0. /\ config' = config /\ c \in Children
      /\ c.stage # "idle" => c.wire \in Wires
      /\ c.stage = "idle" => c = NoChild
  BY Others DEF ServerTypeOK, ChildrenOK, ChildOK
<1>1. child'[h].stage \in {"idle", "answer"} => BeliefOK(h)'
  BY DEF BeliefOK
<1>2. ASSUME NEW w \in Wires, NEW status \in ServerCodes, Answer(h, w, status)
      PROVE  BeliefOK(h)'
  BY <1>1, <1>2, AnswerStep
<1>3. Leave(h) => BeliefOK(h)'
  BY <1>1, LeaveStep DEF NoChild
<1>4. ASSUME child'[h].stage \in {"authz", "route", "secrets"}, c.stage # "idle",
             child'[h].wire = c.wire, child'[h].user = c.user,
             Belief(h, config.authenticators, TRUE)
      PROVE  BeliefOK(h)'
  <2>1. Belief(h, config.authenticators, TRUE)'
    <3> DEFINE as == config.authenticators
    <3>1. Belief(h, as, TRUE)
      BY <1>4
    <3>2. as' = as
      BY <1>0
    <3> HIDE DEF as
    <3> QED BY <1>0, <1>4, <3>1, <3>2, BeliefStays DEF as
  <2> QED BY <1>4, <2>1 DEF BeliefOK
<1>5. CASE Accept(h)
  <2>0. c = NoChild
    BY <1>0, <1>5 DEF Accept
  <2>1. PICK w \in Wires :
          \/ w.received # "ok" /\ Answer(h, w, ReceptionCode[w.received])
          \/ Answer(h, w, 400)
          \/ Enter(h, w, "authn", config.authenticators)
    BY <1>5, AcceptCases
  <2>2. w.received # "ok" => ReceptionCode[w.received] \in ServerCodes
    BY WiresAssumption, ReceptionType
  <2>3. CASE Enter(h, w, "authn", config.authenticators)
    <3>1. /\ child'[h].stage = "authn" /\ child'[h].todo = config.authenticators
          /\ child'[h].passed = FALSE /\ child'[h].user = c.user
      BY <2>3, EnterAuthn
    <3>2. child'[h].user = None
      BY <2>0, <3>1 DEF NoChild
    <3>3. Consulted(h)' = {}
      BY <1>0, <3>1 DEF Consulted
    <3> QED BY <3>1, <3>2, <3>3 DEF BeliefOK, Belief
  <2> QED BY <1>2, <2>1, <2>2, <2>3 DEF ServerCodes
<1>6. CASE Authenticate(h)
  <2>1. c.stage = "authn" /\ UNCHANGED rows
    BY <1>6 DEF Authenticate, vars
  <2>2. CASE child'[h].stage = "answer"
    BY <1>1, <2>2
  <2>3. CASE child'[h].stage # "answer"
    <3>1. PICK a \in c.todo :
            /\ AuthAnswer(a, c.wire, rows) # "fail"
            /\ PassedOn(h, a, AuthAnswer(a, c.wire, rows) = "pass",
                        IF AuthAnswer(a, c.wire, rows) = "pass"
                        THEN Identity(a, c.wire, c.user) ELSE c.user, c.default)
      BY <1>6, <2>3, AuthenticateStep
    <3> QED BY <1>0, <2>1, <3>1, BeliefAsked
  <2> QED BY <2>2, <2>3
<1>7. CASE Authenticated(h)
  <2>1. c.stage = "authn" /\ c.todo = {} /\ c.wire \in Wires
    BY <1>0, <1>7 DEF Authenticated
  <2>2. CASE Answer(h, c.wire, 403)
    BY <1>2, <2>1, <2>2 DEF ServerCodes
  <2>3. CASE c.passed /\ Enter(h, c.wire, "authz", config.authorizers)
    <3>1. Consulted(h) = config.authenticators
      BY <2>1 DEF Consulted
    <3>2. Belief(h, config.authenticators, TRUE)
      BY <2>1, <2>3, <3>1 DEF BeliefOK, Belief
    <3>3. /\ child'[h].stage = "authz" /\ child'[h].wire = c.wire
          /\ child'[h].user = c.user
      BY <2>1, <2>3, EnterAuthz
    <3> QED BY <1>4, <2>1, <3>2, <3>3
  <2> QED BY <1>7, <2>2, <2>3 DEF Authenticated
<1>8. CASE Authorize(h)
  <2>1. c.stage = "authz" /\ Belief(h, config.authenticators, TRUE)
    BY <1>8 DEF Authorize, BeliefOK
  <2>2. CASE child'[h].stage = "answer"
    BY <1>1, <2>2
  <2>3. CASE child'[h].stage # "answer"
    <3>1. /\ child'[h].stage = "authz" /\ child'[h].wire = c.wire
          /\ child'[h].user = c.user
      BY <1>8, <2>1, <2>3, AuthorizeStep DEF PassedOn
    <3> QED BY <1>4, <2>1, <3>1
  <2> QED BY <2>2, <2>3
<1>9. CASE Authorized(h)
  <2>1. c.stage = "authz" /\ c.wire \in Wires /\ Belief(h, config.authenticators, TRUE)
    BY <1>0, <1>9 DEF Authorized, BeliefOK
  <2>2. CASE Answer(h, c.wire, 403)
    BY <1>2, <2>1, <2>2 DEF ServerCodes
  <2>3. CASE Enter(h, c.wire, "route", {})
    <3>1. /\ child'[h].stage = "route" /\ child'[h].wire = c.wire
          /\ child'[h].user = c.user
      BY <2>1, <2>3, EnterPlain
    <3> QED BY <1>4, <2>1, <3>1
  <2> QED BY <1>9, <2>2, <2>3 DEF Authorized
<1>10. CASE Dispatch(h)
  <2>1. c.stage = "route" /\ c.wire \in Wires /\ Belief(h, config.authenticators, TRUE)
    BY <1>0, <1>10 DEF Dispatch, BeliefOK
  <2>2. OtherStatus(c.wire) \in ServerCodes /\ 404 \in ServerCodes
    BY DEF OtherStatus, ServerCodes
  <2>3. \/ \E status \in ServerCodes : Answer(h, c.wire, status)
        \/ Enter(h, c.wire, "secrets", {})
    BY <1>10, <2>2 DEF Dispatch
  <2>4. CASE Enter(h, c.wire, "secrets", {})
    <3>1. /\ child'[h].stage = "secrets" /\ child'[h].wire = c.wire
          /\ child'[h].user = c.user
      BY <2>1, <2>4, EnterPlain
    <3> QED BY <1>4, <2>1, <3>1
  <2> QED BY <1>2, <2>1, <2>3, <2>4
<1>11. CASE ServeSecrets(h)
  <2>1. /\ c.stage = "secrets" /\ Belief(h, config.authenticators, TRUE)
        /\ Leave(h) \/ child' = child
    BY <1>11 DEF ServeSecrets, BeliefOK
  <2>2. CASE child' = child
    BY <1>4, <2>1, <2>2
  <2> QED BY <1>3, <2>1, <2>2
<1>12. CASE Respond(h) \/ Kill(h)
  BY <1>3, <1>12 DEF Respond, Kill
<1> QED BY <1>5, <1>6, <1>7, <1>8, <1>9, <1>10, <1>11, <1>12

\* A child that the step is not about keeps its beliefs, whatever is stored.
LEMMA OthersBelieve ==
  ASSUME KeysAreKept, TypeOK, Control, ServerTypeOK, ChildrenOK, [Next]_vars,
         NEW g \in Handlers, BeliefOK(g), child'[g] = child[g], config' = config
  PROVE  BeliefOK(g)'
<1> DEFINE c == child[g]
           all == config.authenticators
           asked == Consulted(g)
<1>1. /\ c.stage # "idle" => c.wire \in Wires
      /\ asked \subseteq all /\ asked' = asked /\ all' = all
      /\ child'[g].wire = c.wire /\ child'[g].user = c.user
      /\ child'[g].passed = c.passed /\ child'[g].stage = c.stage
  BY DEF ChildrenOK, ChildOK, Consulted
<1> HIDE DEF all, asked
<1>2. CASE c.stage = "authn"
  <2>1. Belief(g, asked, c.passed)
    BY <1>2 DEF BeliefOK, asked
  <2>2. asked \subseteq config.authenticators
    BY <1>1 DEF all
  <2>3. Belief(g, asked, c.passed)'
    BY <1>1, <1>2, <2>1, <2>2, BeliefStays
  <2> QED BY <1>1, <1>2, <2>3 DEF BeliefOK, asked
<1>3. CASE c.stage \in {"authz", "route", "secrets"}
  <2>1. Belief(g, all, TRUE) /\ all \subseteq config.authenticators
    BY <1>3 DEF BeliefOK, all
  <2>2. Belief(g, all, TRUE)'
    BY <1>1, <1>3, <2>1, BeliefStays
  <2> QED BY <1>1, <1>3, <2>2 DEF BeliefOK, all
<1> QED BY <1>1, <1>2, <1>3 DEF BeliefOK

\* Vouched of Custodia: what the loop over the authenticators concluded from
\* answers given at different moments is true of all of them at once, now and
\* until the request ends, whatever other children store meanwhile.
THEOREM VouchedCorrect == ServerSpec => []Vouched
<1>1. ServerInit => BeliefsOK
  <2> SUFFICES ASSUME ServerInit, NEW h \in Handlers PROVE BeliefOK(h)
    BY DEF BeliefsOK
  <2>1. child[h].stage = "idle"
    BY DEF ServerInit, NoChild
  <2> QED BY <2>1 DEF BeliefOK
<1>2. ASSUME TypeOK, Control, ServerTypeOK, ChildrenOK, BeliefsOK,
             [ServerNext]_serverVars
      PROVE  BeliefsOK'
  <2> SUFFICES ASSUME KeysAreKept PROVE \A h \in Handlers : BeliefOK(h)'
    BY DEF BeliefsOK
  <2>0. [Next]_vars /\ \A h \in Handlers : BeliefOK(h)
    BY <1>2, ServerStep DEF serverVars, vars, BeliefsOK
  <2>1. CASE UNCHANGED serverVars
    <3>1. child' = child /\ config' = config
      BY <2>1 DEF serverVars
    <3> QED BY <1>2, <2>0, <3>1, OthersBelieve
  <2>2. CASE ServerNext
    <3>1. PICK h \in Handlers :
            \/ Accept(h) \/ Authenticate(h) \/ Authenticated(h) \/ Authorize(h)
            \/ Authorized(h) \/ Dispatch(h) \/ ServeSecrets(h) \/ Respond(h) \/ Kill(h)
      BY <2>2 DEF ServerNext
    <3>2. BeliefOK(h)'
      BY <1>2, <2>0, <3>1, BeliefStep
    <3>3. /\ \A g \in Handlers \ {h} : child'[g] = child[g]
          /\ config' = config
      BY <1>2, <3>1, Others
    <3>4. \A g \in Handlers \ {h} : BeliefOK(g)'
      BY <1>2, <2>0, <3>3, OthersBelieve
    <3> QED BY <3>2, <3>4
  <2> QED BY <1>2, <2>1, <2>2
<1>3. BeliefsOK => Vouched
  BY DEF BeliefsOK, BeliefOK, Belief, Vouched
<1>4. ServerSpec => []TypeOK /\ []Control
  BY ServerIsSecrets, TypeCorrect, PTL
<1> QED BY <1>1, <1>2, <1>3, <1>4, ServerTypeCorrect, PTL DEF ServerSpec

--------------------------------------------------------------------------------
(***************************************************************************)
(* OwnRowsOnly.  The path that an authorizer looked at and the trail that  *)
(* Secrets is given are related by the mount point that was found: the     *)
(* segment after it is the user's directory for the one and the first of   *)
(* the row for the other.  The mount point found exists because the        *)
(* lengths of those that match are bounded, whatever their number.         *)
(***************************************************************************)

LEMMA LeastNatural ==
  ASSUME NEW S \in SUBSET Nat, S # {}
  PROVE  \E n \in S : \A k \in S : n <= k
<1> DEFINE R == OpToRel(<, Nat)
<1>1. IsWellFoundedOn(R, Nat)
  BY NatLessThanWellFounded
<1>2. \A i, j \in Nat : i < j => <<i, j>> \in R
  BY DEF OpToRel
<1> HIDE DEF R
<1>3. PICK n \in S : \A k \in S : ~(<<k, n>> \in R)
  BY <1>1, WFMin
<1>4. \A k \in S : ~(k < n)
  BY <1>2, <1>3, Zenon
<1> QED BY <1>4

LEMMA MountType ==
  ASSUME NEW c \in Configs, NEW m \in DOMAIN c.consumers
  PROVE  m \in Seq(STRING)
<1>1. DOMAIN c.consumers \subseteq Seq(STRING)
  BY ConfigsAssumption
<1> QED BY <1>1

\* The mount point that Nearest chooses is one of those that match.
LEMMA NearestMatches ==
  ASSUME NEW c \in Configs, NEW chain \in Seq(STRING),
         MountsOf(c.consumers, chain) # {}
  PROVE  Nearest(MountsOf(c.consumers, chain)) \in MountsOf(c.consumers, chain)
<1> DEFINE mounts == MountsOf(c.consumers, chain)
           rest == {Len(chain) - Len(m) : m \in mounts}
<1>1. \A m \in mounts : m \in Seq(STRING) /\ Len(m) \in Nat /\ Len(m) <= Len(chain)
  BY MountType DEF MountsOf
<1> HIDE DEF mounts
<1>2. rest \in SUBSET Nat /\ rest # {}
  BY <1>1 DEF mounts
<1>3. PICK n \in rest : \A k \in rest : n <= k
  BY <1>2, LeastNatural
<1>4. PICK m \in mounts : n = Len(chain) - Len(m)
  OBVIOUS
<1>5. ASSUME NEW k \in mounts PROVE Len(k) <= Len(m)
  <2>1. n <= Len(chain) - Len(k)
    BY <1>3
  <2> QED BY <1>1, <1>4, <2>1
<1>6. Nearest(mounts) \in mounts
  BY <1>5 DEF Nearest
<1> QED BY <1>6 DEF mounts

LEMMA ChainType == \A w \in Wires : Chain(w) \in Seq(STRING) /\ Len(Chain(w)) = Len(w.path)
<1> SUFFICES ASSUME NEW w \in Wires
             PROVE  Chain(w) \in Seq(STRING) /\ Len(Chain(w)) = Len(w.path)
  OBVIOUS
<1>1. w.path \in Seq(Segments) /\ Unquote \in [Segments -> STRING]
  BY WiresAssumption
<1>2. \A i \in DOMAIN w.path : Unquote[w.path[i]] \in STRING
  BY <1>1
<1> QED BY <1>1, <1>2 DEF Chain

\* Segments of mount points are the same quoted and unquoted.
Reserved(m) ==
  \A i \in DOMAIN m :
    \/ m[i] = "secrets"
    \/ \E c \in Configs : \E n \in DOMAIN c.consumers : \E j \in DOMAIN n : n[j] = m[i]

Leads(m, chain) ==
  Len(m) <= Len(chain) /\ \A i \in 1..Len(m) : m[i] = chain[i]

\* What comes after the first k segments.
Rest(chain, k) == SubSeq(chain, k + 1, Len(chain))

LEMMA RestFacts ==
  ASSUME NEW chain \in Seq(STRING), NEW k \in Nat, k <= Len(chain)
  PROVE  /\ Rest(chain, k) \in Seq(STRING) /\ Len(Rest(chain, k)) = Len(chain) - k
         /\ \A i \in 1..(Len(chain) - k) : Rest(chain, k)[i] = chain[k + i]
<1>1. Len(chain) \in Nat /\ \A i \in (k + 1)..Len(chain) : chain[i] \in STRING
  BY LenProperties
<1> DEFINE rest == SubSeq(chain, k + 1, Len(chain))
<1>2. /\ rest \in Seq(STRING)
      /\ Len(rest) = IF k + 1 <= Len(chain) THEN Len(chain) - (k + 1) + 1 ELSE 0
      /\ \A i \in 1..(Len(chain) - (k + 1) + 1) : rest[i] = chain[(k + 1) + i - 1]
  BY <1>1, SubSeqProperties
<1> HIDE DEF rest
<1>3. Len(rest) = Len(chain) - k
  BY <1>1, <1>2
<1>4. \A i \in 1..(Len(chain) - k) : rest[i] = chain[k + i]
  <2> SUFFICES ASSUME NEW i \in 1..(Len(chain) - k) PROVE rest[i] = chain[k + i]
    OBVIOUS
  <2>1. (k + 1) + i - 1 = k + i /\ i \in 1..(Len(chain) - (k + 1) + 1)
    BY <1>1
  <2> QED BY <1>2, <2>1
<1> QED BY <1>2, <1>3, <1>4 DEF Rest, rest

LEMMA RestTail ==
  ASSUME NEW chain \in Seq(STRING), NEW k \in Nat, k < Len(chain)
  PROVE  Tail(Rest(chain, k)) = Rest(chain, k + 1)
<1> DEFINE s == Tail(Rest(chain, k))
           t == Rest(chain, k + 1)
<1>1. Len(chain) \in Nat /\ k + 1 \in Nat /\ k + 1 <= Len(chain) /\ k <= Len(chain)
  BY LenProperties
<1>2. /\ Rest(chain, k) \in Seq(STRING) /\ Len(Rest(chain, k)) = Len(chain) - k
      /\ \A i \in 1..(Len(chain) - k) : Rest(chain, k)[i] = chain[k + i]
  BY <1>1, RestFacts
<1>3. Rest(chain, k) # <<>>
  BY <1>1, <1>2, EmptySeq
<1>4. /\ s \in Seq(STRING) /\ Len(s) = Len(chain) - k - 1
      /\ \A i \in 1..Len(s) : s[i] = Rest(chain, k)[i + 1]
  BY <1>2, <1>3, HeadTailProperties
<1>5. /\ t \in Seq(STRING) /\ Len(t) = Len(chain) - (k + 1)
      /\ \A i \in 1..(Len(chain) - (k + 1)) : t[i] = chain[(k + 1) + i]
  BY <1>1, RestFacts
<1> HIDE DEF s, t
<1>6. ASSUME NEW i \in 1..Len(s) PROVE s[i] = t[i]
  <2>1. /\ i \in 1..(Len(chain) - (k + 1)) /\ i + 1 \in 1..(Len(chain) - k)
        /\ k + (i + 1) = (k + 1) + i
    BY <1>1, <1>4
  <2>2. s[i] = chain[k + (i + 1)] /\ t[i] = chain[(k + 1) + i]
    BY <1>2, <1>4, <1>5, <2>1
  <2> QED BY <2>1, <2>2
<1>7. Len(s) = Len(t)
  BY <1>1, <1>4, <1>5
<1>8. s = t
  BY <1>4, <1>5, <1>6, <1>7, SeqEqual
<1> QED BY <1>8 DEF s, t

LEMMA LongerPrefix ==
  ASSUME NEW S, NEW chain \in Seq(S), NEW n \in Seq(S), NEW e \in S,
         Leads(n, chain), Len(n) < Len(chain), chain[Len(n) + 1] = e
  PROVE  /\ Append(n, e) \in Seq(S) /\ Len(Append(n, e)) = Len(n) + 1
         /\ Leads(Append(n, e), chain)
         /\ \A i \in DOMAIN Append(n, e) :
              Append(n, e)[i] = e \/ (i \in DOMAIN n /\ Append(n, e)[i] = n[i])
<1> DEFINE m == Append(n, e)
<1>1. /\ m \in Seq(S) /\ m # <<>> /\ Len(m) = Len(n) + 1
      /\ \A i \in 1..Len(n) : m[i] = n[i]
      /\ m[Len(n) + 1] = e
  BY AppendProperties
<1> HIDE DEF m
<1>2. /\ Len(n) \in Nat /\ Len(chain) \in Nat /\ DOMAIN n = 1..Len(n)
      /\ DOMAIN m = 1..Len(m)
  BY <1>1, LenProperties
<1>3. \A i \in 1..Len(m) : i = Len(n) + 1 \/ i \in 1..Len(n)
  BY <1>1, <1>2
<1>4. \A i \in 1..Len(m) : m[i] = chain[i]
  BY <1>1, <1>3 DEF Leads
<1>5. Leads(m, chain)
  BY <1>1, <1>2, <1>4 DEF Leads
<1>6. \A i \in DOMAIN m : m[i] = e \/ (i \in DOMAIN n /\ m[i] = n[i])
  BY <1>1, <1>2, <1>3
<1> QED BY <1>1, <1>5, <1>6 DEF m

\* A path that Secrets is found for is below one of its mounts.
LEMMA RouteMount ==
  ASSUME NEW c \in Configs, NEW chain \in Seq(STRING),
         MountsOf(c.consumers, chain) # {}, Route(c.consumers, chain).consumer = "secrets"
  PROVE  \E m \in SecretsMounts(c) :
           /\ m \in Seq(STRING) /\ Reserved(m) /\ Leads(m, chain)
           /\ Route(c.consumers, chain).trail = Rest(chain, Len(m))
<1> DEFINE n == Nearest(MountsOf(c.consumers, chain))
           trail == Trail(n, chain)
<1>1. n \in DOMAIN c.consumers /\ n \in Seq(STRING) /\ Leads(n, chain)
  <2>1. n \in MountsOf(c.consumers, chain)
    BY NearestMatches
  <2> HIDE DEF n
  <2>2. n \in DOMAIN c.consumers /\ Len(n) <= Len(chain) /\ n = SubSeq(chain, 1, Len(n))
    BY <2>1 DEF MountsOf
  <2>3. n \in Seq(STRING)
    BY <2>2, MountType
  <2>4. \A i \in 1..Len(n) : SubSeq(chain, 1, Len(n))[i] = chain[i]
    <3> DEFINE k == Len(n)
    <3>1. k \in Nat /\ k <= Len(chain)
      BY <2>2, <2>3
    <3> HIDE DEF k
    <3>2. \A i \in 1..k : SubSeq(chain, 1, k)[i] = chain[i]
      BY <3>1
    <3> QED BY <3>2 DEF k
  <2>5. Leads(n, chain)
    BY <2>2, <2>4 DEF Leads
  <2> QED BY <2>2, <2>3, <2>5
<1>2. trail = Rest(chain, Len(n))
  BY DEF Trail, Rest
<1>3. Reserved(n)
  BY <1>1 DEF Reserved
<1> HIDE DEF n, trail
<1>4. Route(c.consumers, chain) =
        IF SubSecrets(c.consumers, n, trail)
        THEN [consumer |-> "secrets", trail |-> Tail(trail)]
        ELSE [consumer |-> c.consumers[n], trail |-> trail]
  BY DEF Route, n, trail
<1>5. CASE ~SubSecrets(c.consumers, n, trail)
  <2>1. Route(c.consumers, chain) = [consumer |-> c.consumers[n], trail |-> trail]
    BY <1>4, <1>5
  <2>2. c.consumers[n] = "secrets" /\ Route(c.consumers, chain).trail = trail
    BY <2>1
  <2>3. n \in SecretsMounts(c)
    BY <1>1, <2>2 DEF SecretsMounts
  <2> QED BY <1>1, <1>2, <1>3, <2>2, <2>3
<1>6. CASE SubSecrets(c.consumers, n, trail)
  <2> DEFINE m == Append(n, "secrets")
  <2>1. c.consumers[n] = "root with secrets" /\ trail # <<>> /\ trail[1] = "secrets"
    BY <1>6 DEF SubSecrets
  <2>2. Route(c.consumers, chain) = [consumer |-> "secrets", trail |-> Tail(trail)]
    BY <1>4, <1>6
  <2>3. Route(c.consumers, chain).trail = Tail(trail)
    BY <2>2
  <2>4. m \in SecretsMounts(c)
    BY <1>1, <2>1 DEF SecretsMounts
  <2>5. Len(n) \in Nat /\ Len(n) <= Len(chain)
    BY <1>1 DEF Leads
  <2>6. Len(n) < Len(chain) /\ chain[Len(n) + 1] = "secrets"
    <3>1. trail \in Seq(STRING) /\ Len(trail) = Len(chain) - Len(n)
      BY <1>2, <2>5, RestFacts
    <3>2. Len(trail) # 0 /\ Len(chain) \in Nat
      BY <2>1, <3>1, EmptySeq, LenProperties
    <3>3. Len(n) < Len(chain) /\ 1 \in 1..(Len(chain) - Len(n))
      BY <2>5, <3>1, <3>2
    <3>4. trail[1] = chain[Len(n) + 1]
      BY <1>2, <2>5, <3>3, RestFacts
    <3> QED BY <2>1, <3>3, <3>4
  <2>7. /\ m \in Seq(STRING) /\ Len(m) = Len(n) + 1 /\ Leads(m, chain)
        /\ \A i \in DOMAIN m : m[i] = "secrets" \/ (i \in DOMAIN n /\ m[i] = n[i])
    BY <1>1, <2>6, LongerPrefix
  <2> HIDE DEF m
  <2>8. Reserved(m)
    BY <1>3, <2>7 DEF Reserved
  <2>9. Tail(trail) = Rest(chain, Len(m))
    BY <1>2, <2>5, <2>6, <2>7, RestTail
  <2> QED BY <2>3, <2>4, <2>7, <2>8, <2>9
<1> QED BY <1>5, <1>6

\* What is sent unquoted like a name or like a segment of a mount is just that.
LEMMA SameUnquoted ==
  ASSUME NamesUnquoted, NEW s \in Segments,
         \/ s \in Names
         \/ Unquote[s] = "secrets"
         \/ \E c \in Configs : \E n \in DOMAIN c.consumers : \E j \in DOMAIN n : n[j] = Unquote[s]
  PROVE  Unquote[s] = s
  BY DEF NamesUnquoted

LEMMA PrefixFacts ==
  ASSUME NEW S, NEW s \in Seq(S), NEW k \in 0..Len(s)
  PROVE  /\ SubSeq(s, 1, k) \in Seq(S) /\ Len(SubSeq(s, 1, k)) = k
         /\ \A i \in 1..k : SubSeq(s, 1, k)[i] = s[i]
<1> DEFINE t == SubSeq(s, 1, k)
<1>1. k \in Int /\ k \in Nat /\ 1 \in Int /\ \A i \in 1..k : s[i] \in S
  BY LenProperties
<1>2. /\ t \in Seq(S) /\ Len(t) = (IF 1 <= k THEN k - 1 + 1 ELSE 0)
      /\ \A i \in 1..(k - 1 + 1) : t[i] = s[1 + i - 1]
  BY <1>1, SubSeqProperties
<1> HIDE DEF t
<1>3. Len(t) = k
  BY <1>1, <1>2
<1>4. ASSUME NEW i \in 1..k PROVE t[i] = s[i]
  <2>1. i \in 1..(k - 1 + 1) /\ 1 + i - 1 = i
    BY <1>1
  <2> QED BY <1>2, <2>1
<1> QED BY <1>2, <1>3, <1>4 DEF t

LEMMA AppendFacts ==
  ASSUME NEW T, NEW m \in Seq(T), NEW e
  PROVE  Len(Append(m, e)) = Len(m) + 1 /\ SubSeq(Append(m, e), 1, Len(m)) = m
<1> DEFINE S == T \cup {e}
           s == Append(m, e)
           k == Len(m)
           t == SubSeq(s, 1, k)
<1>1. T \subseteq S /\ e \in S
  OBVIOUS
<1> HIDE DEF S
<1>2. m \in Seq(S)
  BY <1>1, SeqMonotonic
<1>3. /\ s \in Seq(S) /\ s # <<>> /\ Len(s) = Len(m) + 1
      /\ \A i \in 1..Len(m) : s[i] = m[i]
      /\ s[Len(m) + 1] = e
  BY <1>1, <1>2, AppendProperties
<1>4. k \in Nat
  BY LenProperties
<1> HIDE DEF s
<1>5. k \in 0..Len(s)
  BY <1>3, <1>4
<1>6. t \in Seq(S) /\ Len(t) = k /\ \A i \in 1..k : t[i] = s[i]
  <2> HIDE DEF k
  <2> QED BY <1>3, <1>5, PrefixFacts
<1> HIDE DEF t
<1>7. Len(t) = Len(m) /\ \A i \in 1..Len(t) : t[i] = m[i]
  BY <1>3, <1>6
<1>8. t = m
  BY <1>2, <1>6, <1>7, SeqEqual
<1> QED BY <1>3, <1>8 DEF s, t

LEMMA WirePath ==
  ASSUME NEW w \in Wires
  PROVE  /\ w.path \in Seq(Segments) /\ Len(w.path) \in Nat
         /\ DOMAIN w.path = 1..Len(w.path)
<1>1. w.path \in Seq(Segments)
  BY WiresAssumption
<1> QED BY <1>1, LenProperties

\* The last segment of the path of a directory.
Slash == ""

Directory(z, user, e) == SubSeq(z.path, 1, Len(z.path) - 1) \o <<user, e>>

LEMMA UserDirIs == \A z, user : UserDir(z, user) = Directory(z, user, Slash)
  BY Zenon DEF UserDir, Directory, Slash

\* The directory of a user below m.
LEMMA DirectoryFacts ==
  ASSUME NEW T, NEW m \in Seq(T), NEW z, NEW e, z.path = Append(m, e), NEW user
  PROVE  LET dir == Directory(z, user, e) IN
         /\ dir \in Seq(T \cup {user, e}) /\ Len(dir) = Len(m) + 2
         /\ dir[Len(m) + 1] = user
<1> DEFINE S == T \cup {user, e}
           k == Len(m)
           d == <<user, e>>
           dir == m \o d
<1>1. k \in Nat
  BY LenProperties
<1>2. T \subseteq S /\ d \in Seq(S) /\ Len(d) = 2 /\ d[1] = user
  OBVIOUS
<1>3. Len(z.path) = k + 1 /\ SubSeq(z.path, 1, k) = m
  BY AppendFacts
<1>4. Len(z.path) - 1 = k
  BY <1>1, <1>3
<1>5. Directory(z, user, e) = dir
  BY <1>3, <1>4 DEF Directory
<1> HIDE DEF S, d
<1>6. m \in Seq(S)
  BY <1>2, SeqMonotonic
<1>7. /\ dir \in Seq(S) /\ Len(dir) = Len(m) + Len(d)
      /\ \A i \in 1..(Len(m) + Len(d)) : dir[i] = IF i <= Len(m) THEN m[i] ELSE d[i - Len(m)]
  BY <1>2, <1>6, ConcatProperties
<1> HIDE DEF dir
<1>8. Len(dir) = k + 2 /\ k + 1 \in 1..(k + 2) /\ ~(k + 1 <= k) /\ k + 1 - k = 1
  BY <1>1, <1>2, <1>7
<1>9. dir[k + 1] = d[1]
  BY <1>2, <1>7, <1>8
<1> QED BY <1>2, <1>5, <1>7, <1>8, <1>9 DEF S

\* A UserNameSpace whose path is m accepts w only in the user's directory, which
\* is the segment after m.
LEMMA UserSegment ==
  ASSUME NEW w \in Wires, NEW m \in Seq(STRING), NEW z, NEW e, z.path = Append(m, e),
         NEW user, StartsWith(w.path, Directory(z, user, e))
  PROVE  w.path[Len(m) + 1] = user /\ Len(m) + 1 <= Len(w.path)
<1> DEFINE k == Len(m)
           dir == Directory(z, user, e)
           S == STRING \cup {user, e}
           path == w.path
<1>1. k \in Nat /\ path \in Seq(Segments) /\ Len(path) \in Nat
  BY WirePath, LenProperties
<1>2. dir \in Seq(S) /\ Len(dir) = k + 2 /\ dir[k + 1] = user
  BY DirectoryFacts
<1>3. Len(path) >= Len(dir) /\ SubSeq(path, 1, Len(dir) - 1) = SubSeq(dir, 1, Len(dir) - 1)
  BY DEF StartsWith
<1> HIDE DEF dir, k, path, S
<1>4. /\ Len(dir) - 1 = k + 1 /\ k + 1 \in 0..Len(dir) /\ k + 1 \in 0..Len(path)
      /\ k + 1 \in 1..(k + 1)
  BY <1>1, <1>2, <1>3
<1>5. SubSeq(path, 1, k + 1)[k + 1] = path[k + 1]
  BY <1>1, <1>4, PrefixFacts
<1>6. SubSeq(dir, 1, k + 1)[k + 1] = dir[k + 1]
  BY <1>2, <1>4, PrefixFacts
<1>7. path[k + 1] = user /\ k + 1 <= Len(path)
  BY <1>1, <1>2, <1>3, <1>4, <1>5, <1>6
<1> QED BY <1>7 DEF k, path

\* A path that leads below m is one that a UserNameSpace on m judges.
LEMMA BelowMount ==
  ASSUME NamesUnquoted, NEW w \in Wires, NEW m \in Seq(STRING), Reserved(m),
         Leads(m, Chain(w)), Len(m) < Len(Chain(w)),
         NEW z, NEW e, z.path = Append(m, e)
  PROVE  StartsWith(w.path, z.path)
<1> DEFINE k == Len(m)
           path == w.path
           dir == z.path
<1>1. /\ k \in Nat /\ path \in Seq(Segments) /\ Len(path) \in Nat
      /\ DOMAIN path = 1..Len(path) /\ k < Len(path) /\ DOMAIN m = 1..k
  BY WirePath, LenProperties, ChainType
<1>2. ASSUME NEW i \in 1..k PROVE path[i] = m[i]
  <2>1. i \in DOMAIN path /\ path[i] \in Segments
    BY <1>1, ElementOfSeq
  <2>2. Unquote[path[i]] = m[i]
    BY <2>1 DEF Leads, Chain
  <2>3. i \in DOMAIN m
    BY <1>1
  <2>4. Unquote[path[i]] = path[i]
    BY <2>1, <2>2, <2>3, SameUnquoted DEF Reserved
  <2> QED BY <2>2, <2>4
<1>4. Len(dir) = k + 1 /\ SubSeq(dir, 1, k) = m
  BY AppendFacts
<1> HIDE DEF path, dir
<1>5. SubSeq(path, 1, k) = m
  <2>1. k \in 0..Len(path)
    BY <1>1
  <2> DEFINE t == SubSeq(path, 1, k)
  <2>2. t \in Seq(Segments) /\ Len(t) = k /\ \A i \in 1..k : t[i] = path[i]
    <3> HIDE DEF k
    <3> QED BY <1>1, <2>1, PrefixFacts
  <2> HIDE DEF t
  <2>3. \A i \in 1..k : t[i] = m[i]
    BY <1>2, <2>2
  <2>4. t = [i \in 1..k |-> m[i]] /\ m = [i \in 1..k |-> m[i]]
    BY <1>1, <2>2, <2>3, LenProperties
  <2> QED BY <2>4 DEF t
<1>6. Len(dir) - 1 = k /\ Len(path) >= Len(dir)
  BY <1>1, <1>4
<1>7. StartsWith(path, dir)
  BY <1>4, <1>5, <1>6 DEF StartsWith
<1> QED BY <1>7 DEF path, dir

LEMMA CoveredBy ==
  ASSUME NEW c, Covered(c), NEW m \in SecretsMounts(c)
  PROVE  \E z \in c.authorizers : z.kind = "namespace" /\ z.path = Append(m, Slash)
  BY Zenon DEF Covered, Slash

\* What a UserNameSpace that does not refuse w says of its user.
LEMMA NotRefused ==
  ASSUME NEW z, NEW w, NEW user, z.kind = "namespace", StartsWith(w.path, z.path),
         AuthzAnswer(z, w, user) # "fail"
  PROVE  user # None /\ StartsWith(w.path, Directory(z, user, Slash))
<1>1. NamespaceAnswer(z, w, user) # "fail"
  BY DEF AuthzAnswer
<1>2. user # None /\ StartsWith(w.path, UserDir(z, user))
  BY <1>1, Zenon DEF NamespaceAnswer
<1> QED BY <1>2, UserDirIs

\* The user of a request that got through is the segment after the mount.
LEMMA RoutedUser ==
  ASSUME NamesUnquoted, NEW c \in Configs, Covered(c), NEW w \in Wires,
         NEW user \in Names \cup {None},
         \A z \in c.authorizers : AuthzAnswer(z, w, user) # "fail",
         MountsOf(c.consumers, Chain(w)) # {},
         Route(c.consumers, Chain(w)).consumer = "secrets",
         Route(c.consumers, Chain(w)).trail # <<>>
  PROVE  user = Route(c.consumers, Chain(w)).trail[1]
<1> DEFINE chain == Chain(w)
           trail == Route(c.consumers, chain).trail
<1>1. chain \in Seq(STRING) /\ Len(chain) = Len(w.path) /\ Len(chain) \in Nat
  BY ChainType, LenProperties
<1>2. PICK m \in SecretsMounts(c) :
        m \in Seq(STRING) /\ Reserved(m) /\ Leads(m, chain) /\ trail = Rest(chain, Len(m))
  BY <1>1, RouteMount
<1>3. PICK z \in c.authorizers : z.kind = "namespace" /\ z.path = Append(m, Slash)
  BY CoveredBy
<1>4. Len(m) \in Nat /\ Len(m) <= Len(chain)
  BY <1>2, LenProperties DEF Leads
<1> HIDE DEF trail
<1>5. Len(m) < Len(chain) /\ trail[1] = chain[Len(m) + 1]
  <2>1. trail \in Seq(STRING) /\ Len(trail) = Len(chain) - Len(m)
    BY <1>1, <1>2, <1>4, RestFacts
  <2>2. Len(trail) # 0
    BY <2>1, EmptySeq DEF trail
  <2>3. Len(m) < Len(chain) /\ 1 \in 1..(Len(chain) - Len(m))
    BY <1>1, <1>4, <2>1, <2>2
  <2> QED BY <1>1, <1>2, <1>4, <2>3, RestFacts
<1>6. StartsWith(w.path, z.path)
  BY <1>2, <1>3, <1>5, BelowMount
<1>7. user # None /\ StartsWith(w.path, Directory(z, user, Slash))
  BY <1>3, <1>6, NotRefused
<1>8. w.path[Len(m) + 1] = user
  BY <1>2, <1>3, <1>7, UserSegment
<1>9. Len(m) + 1 \in DOMAIN w.path /\ w.path[Len(m) + 1] \in Segments
  <2>1. Len(m) + 1 \in 1..Len(w.path)
    BY <1>1, <1>4, <1>5
  <2> QED BY <2>1, WirePath, ElementOfSeq
<1>10. Unquote[user] = user
  BY <1>7, <1>8, <1>9, SameUnquoted
<1>11. chain[Len(m) + 1] = Unquote[w.path[Len(m) + 1]]
  BY <1>9 DEF Chain
<1> QED BY <1>5, <1>8, <1>10, <1>11 DEF trail

LEMMA HandedTrail ==
  ASSUME NEW w, NEW trail \in Seq(STRING), NEW default,
         SecretsRequest(w, trail, default).trail # <<>>
  PROVE  trail # <<>> /\ SecretsRequest(w, trail, default).trail[1] = trail[1]
<1> DEFINE slash == trail # <<>> /\ IsDir(trail)
           named == Named(trail)
<1>1. SecretsRequest(w, trail, default).trail = named
  BY DEF SecretsRequest
<1>2. named # <<>> /\ named = IF slash THEN Parent(trail) ELSE trail
  BY <1>1 DEF Named
<1> HIDE DEF named
<1>3. CASE ~slash
  BY <1>1, <1>2, <1>3
<1>4. CASE slash
  <2>1. trail # <<>> /\ named = SubSeq(trail, 1, Len(trail) - 1)
    BY <1>2, <1>4 DEF Parent
  <2>2. Len(trail) \in Nat /\ Len(trail) # 0
    BY <2>1, EmptySeq, LenProperties
  <2> DEFINE k == Len(trail) - 1
  <2>3. k \in 0..Len(trail)
    BY <2>2
  <2> HIDE DEF k
  <2>4. /\ SubSeq(trail, 1, k) \in Seq(STRING) /\ Len(SubSeq(trail, 1, k)) = k
        /\ \A i \in 1..k : SubSeq(trail, 1, k)[i] = trail[i]
    BY <2>3, PrefixFacts
  <2>5. k # 0
    BY <1>2, <2>1, <2>4, EmptySeq DEF k
  <2>6. 1 \in 1..k
    BY <2>3, <2>5
  <2>7. SubSeq(trail, 1, k)[1] = trail[1]
    BY <2>4, <2>6
  <2> QED BY <1>1, <2>1, <2>7 DEF k
<1> QED BY <1>3, <1>4

\* Whatever a request in Secrets is about, its trail begins with its user.
LEMMA Owned ==
  ASSUME ServerTypeOK, ChildrenOK, GrantsOK, Covered(config), NamesUnquoted,
         NEW h \in Handlers, child[h].stage = "secrets"
  PROVE  /\ req[h].trail # <<>> => child[h].user = req[h].trail[1]
         /\ req[h].default # None => child[h].user = req[h].default
<1> DEFINE c == child[h]
           trail == Route(config.consumers, Chain(c.wire)).trail
<1>1. /\ c \in Children /\ config \in Configs /\ c.wire \in Wires
      /\ req[h] = Handed(h) /\ Routed(h) /\ Summary(h, config.authorizers, TRUE)
  BY DEF ServerTypeOK, ChildrenOK, ChildOK, GrantsOK, GrantOK
<1>2. req[h] = SecretsRequest(c.wire, trail, c.default)
  BY <1>1 DEF Handed
<1>3. req[h].default = c.default
  BY <1>2 DEF SecretsRequest
<1>4. req[h].default # None => c.user = req[h].default
  BY <1>1, <1>3 DEF Summary
<1>5. ASSUME req[h].trail # <<>> PROVE c.user = req[h].trail[1]
  <2>1. trail \in Seq(STRING)
    <3>1. Chain(c.wire) \in Seq(STRING)
      BY <1>1, ChainType
    <3>2. PICK m \in SecretsMounts(config) :
            m \in Seq(STRING) /\ Leads(m, Chain(c.wire)) /\ trail = Rest(Chain(c.wire), Len(m))
      BY <1>1, <3>1, RouteMount DEF Routed
    <3>3. Len(m) \in Nat /\ Len(m) <= Len(Chain(c.wire))
      BY <3>2, LenProperties DEF Leads
    <3> QED BY <3>1, <3>2, <3>3, RestFacts
  <2>2. trail # <<>> /\ req[h].trail[1] = trail[1]
    <3> HIDE DEF trail
    <3> QED BY <1>2, <1>5, <2>1, HandedTrail
  <2>3. c.user \in Names \cup {None}
    BY <1>1 DEF Children
  <2>4. \A z \in config.authorizers : AuthzAnswer(z, c.wire, c.user) # "fail"
    BY <1>1 DEF Summary, AnswerOf
  <2>5. c.user = trail[1]
    BY <1>1, <2>2, <2>3, <2>4, RoutedUser DEF Routed
  <2> QED BY <2>2, <2>5
<1> QED BY <1>4, <1>5

\* The row that a request is about is in the directory of its user.
LEMMA TargetOwned ==
  ASSUME ServerTypeOK, ChildrenOK, GrantsOK, Covered(config), NamesUnquoted,
         NEW h \in Handlers, child[h].stage = "secrets", Target(req[h]) \in Paths,
         StaysInside(req[h])
  PROVE  child[h].user = Target(req[h])[1]
<1>1. CASE req[h].trail # <<>>
  BY <1>1, Owned DEF Target, StaysInside
<1>2. CASE req[h].trail = <<>>
  <2>1. Target(req[h]) = <<req[h].default>>
    BY <1>2 DEF Target
  <2>2. Target(req[h])[1] = req[h].default /\ Target(req[h])[1] \in Names
    BY <2>1 DEF Names
  <2>3. req[h].default # None
    BY <2>2, ApiAssumption
  <2> QED BY <2>2, <2>3, Owned
<1> QED BY <1>1, <1>2

\* Only the two operations that read put something out.
LEMMA OutStep ==
  ASSUME TypeOK, Control, NEW h \in Handlers, Receive(h) \/ Proceed(h) \/ Crash(h),
         out'[h] # out[h], out'[h] # None
  PROVE  pc[h] = "store" /\ Target(req[h]) \in Paths
<1>1. CASE GetKey(h) \/ ListContainer(h)
  <2>1. pc[h] = "store"
    BY <1>1 DEF GetKey, ListContainer
  <2> QED BY <2>1, AtStore
<1>2. CASE Reply(h) \/ Crash(h)
  BY <1>2 DEF Reply, Crash, Exit, TypeOK
<1>3. CASE ~(GetKey(h) \/ ListContainer(h) \/ Reply(h) \/ Crash(h))
  <2>1. \/ Receive(h) \/ ListParent(h) \/ SpanNamespace(h) \/ Insert(h)
        \/ ListVictim(h) \/ Cut(h) \/ StoreFault(h) \/ Audit(h)
    BY <1>3 DEF Proceed
  <2>2. out' = out
    BY <2>1 DEF Receive, ListParent, SpanNamespace, Insert, ListVictim, Cut,
                StoreFault, Audit
  <2> QED BY <2>2
<1> QED BY <1>1, <1>2, <1>3

\* The root is the row of no request.
LEMMA EmptyTrail ==
  ASSUME NEW r \in Requests, r.trail = <<>>
  PROVE  r.path = <<>>
<1>1. Unslashed(r.trail)
  BY DEF Unslashed
<1> QED BY <1>1, UnslashedRow

\* A step that changes a row is an effect of its handler, which is in Secrets,
\* and the row is the one its request is about or the default namespace.
LEMMA ChangedRow ==
  ASSUME TypeOK, Control, NEW h \in Handlers, Receive(h) \/ Proceed(h) \/ Crash(h),
         NEW p \in Paths, rows'[p] # rows[p]
  PROVE  /\ pc[h] # "idle" /\ (TakesEffect(h, p) \/ AddsNamespace(h, p))
         /\ \/ req[h].trail # <<>> /\ p = req[h].path
            \/ req[h].default # None /\ p[1] = req[h].default
<1>1. /\ req[h] \in Requests /\ (AddsRow(h) \/ InsertsRow(h) \/ RemovesRow(h))
      /\ req[h] # None /\ pc[h] # "idle"
  BY RowsStep, ApiAssumption DEF LeavesRows, Control, ControlOf
<1>2. CASE AddsRow(h)
  <2>1. p = <<req[h].default>>
    BY <1>2 DEF AddsRow, TypeOK, Table
  <2>2. NeedsParent(req[h]) /\ req[h].default # None
    BY <1>2, AtStore DEF AddsRow, InOwnNamespace
  <2>3. req[h].cmd \in {"PUT", "POST"}
    BY <1>1, <2>2, OperationCommand DEF NeedsParent
  <2>4. AddsNamespace(h, p)
    BY <1>1, <1>2, <2>1, <2>3 DEF AddsRow, AddsNamespace, TypeOK, Table
  <2> QED BY <1>1, <2>1, <2>2, <2>4
<1>3. CASE InsertsRow(h) \/ RemovesRow(h)
  <2>1. p = req[h].path
    BY <1>3 DEF InsertsRow, RemovesRow, TypeOK, Table
  <2>2. req[h].trail # <<>>
    <3>1. p # <<>>
      BY PathsAssumption
    <3> QED BY <1>1, <2>1, <3>1, EmptyTrail
  <2>3. TakesEffect(h, p)
    <3>1. CASE InsertsRow(h)
      <4>1. /\ Operation(req[h]) = "set" => req[h].cmd = "PUT"
            /\ Operation(req[h]) = "create" => req[h].cmd = "POST"
        BY <1>1, OperationCommand
      <4> QED BY <1>1, <2>1, <3>1, <4>1 DEF InsertsRow, TakesEffect, TypeOK, Table
    <3>2. CASE RemovesRow(h)
      <4>1. req[h].cmd = "DELETE"
        BY <1>1, <3>2, OperationCommand DEF RemovesRow
      <4> QED BY <1>1, <2>1, <3>2, <4>1 DEF RemovesRow, TakesEffect, TypeOK, Table
    <3> QED BY <1>3, <3>1, <3>2
  <2> QED BY <1>1, <2>1, <2>2, <2>3
<1> QED BY <1>1, <1>2, <1>3

\* OwnRowsOnly of Custodia: with a UserNameSpace on each mount of Secrets, what
\* a request changes or is handed is in its user's directory, however the mounts
\* are nested and whatever the other authorizers accept, if os.path.join() has
\* not left that directory (_db_key() of secrets.py).
THEOREM RowsAreOwn == ServerSpec => OwnRowsOnly
<1> DEFINE Changes ==
      \A p \in Paths : rows'[p] # rows[p] =>
        \E h \in Handlers :
          /\ TakesEffect(h, p) \/ AddsNamespace(h, p)
          /\ StaysInside(req[h]) => child[h].user = p[1]
    Hands ==
      \A h \in Handlers :
        out'[h] # out[h] /\ out'[h] # None /\ StaysInside(req[h]) =>
          child[h].user = Target(req[h])[1]
    Owns == Covered(config) /\ NamesUnquoted => Changes /\ Hands
<1>1. ASSUME TypeOK, Control, ServerTypeOK, ChildrenOK, GrantsOK, [ServerNext]_serverVars
      PROVE  [Owns]_serverVars
  <2> SUFFICES ASSUME ServerNext, Covered(config), NamesUnquoted
               PROVE  Changes /\ Hands
    BY <1>1
  <2>1. CASE UNCHANGED vars
    BY <2>1 DEF vars
  <2>2. CASE Next
    <3>1. PICK h \in Handlers : Receive(h) \/ Proceed(h) \/ Crash(h)
      BY <2>2 DEF Next
    <3>2. pc[h] # "idle" => child[h].stage = "secrets"
      BY <1>1 DEF ChildrenOK, ChildOK
    <3>3. ASSUME NEW p \in Paths, rows'[p] # rows[p]
          PROVE  /\ TakesEffect(h, p) \/ AddsNamespace(h, p)
                 /\ StaysInside(req[h]) => child[h].user = p[1]
      <4>1. /\ child[h].stage = "secrets"
            /\ TakesEffect(h, p) \/ AddsNamespace(h, p)
            /\ \/ req[h].trail # <<>> /\ p = req[h].path
               \/ req[h].default # None /\ p[1] = req[h].default
        BY <1>1, <3>1, <3>2, <3>3, ChangedRow
      <4> QED BY <1>1, <4>1, Owned DEF StaysInside
    <3>4. ASSUME NEW g \in Handlers, out'[g] # out[g], out'[g] # None, StaysInside(req[g])
          PROVE  child[g].user = Target(req[g])[1]
      <4>1. g = h
        BY <1>1, <3>1, <3>4, OthersUntouched DEF Untouched
      <4>2. child[h].stage = "secrets" /\ Target(req[h]) \in Paths
        BY <1>1, <3>1, <3>2, <3>4, <4>1, OutStep
      <4> QED BY <1>1, <3>4, <4>1, <4>2, TargetOwned
    <3> QED BY <3>3, <3>4
  <2> QED BY <2>1, <2>2, ServerStep
<1>2. ServerSpec => []TypeOK /\ []Control
  BY ServerIsSecrets, TypeCorrect, PTL
<1> QED BY <1>1, <1>2, ServerTypeCorrect, GrantsCorrect, PTL DEF ServerSpec, OwnRowsOnly

--------------------------------------------------------------------------------
(***************************************************************************)
(* The promises of the secrets API are those of a server.                  *)
(***************************************************************************)

\* Behind whatever pipeline, with children that are killed at any of its stages:
\* what clients of a server are answered, and what becomes of the rows, is as if
\* each call that gets past the authorizers took effect at once on one tree, but
\* for the age of what its listing saw; stored values are not overwritten, and
\* rows change only by acknowledged calls.
THEOREM ServerKeepsPromises ==
  ServerSpec => AtomicAfterCheck /\ WriteOnce /\ EffectsAreAnswered
  BY ServerIsSecrets, SecretsAreShared, WrittenOnce, EffectsAnswered, PTL

\* While nobody deletes, and no segment has a '/' in it, the listing cannot grow old either.
THEOREM ServerIsAtomic == ASSUME NoDeletes, NoSlashes PROVE ServerSpec => AtomicTree
  BY ServerIsSecrets, SecretsAreAtomic, PTL
================================================================================
