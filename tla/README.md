# A verification development of Custodia

Custodia serves secrets over HTTP: a parent process accepts connections and
forks one child per request; the child authenticates and authorizes it, routes
it to a *consumer*, and the consumer works on a *store*. These TLA+ modules
model that path from the request line to the SQLite table, the IPA stores that
can take the table's place, servers that forward requests to each other, clients
that talk to a server in signed messages, and the start of a server; TLC
checks them on small instances and TLAPS proves the main safety properties for
instances of any size. Source paths below are relative to `src/src/custodia/`.

Contents: [1. The system](#1-the-system) ·
[2. Modules](#2-modules) · [3. Runs](#3-runs) · [4. Bounds](#4-bounds) ·
[5. Fairness](#5-fairness) · [6. Proofs](#6-proofs) ·
[7. Disagreements](#7-where-the-code-and-its-documentation-disagree) ·
[8. Abstractions](#8-abstractions-and-what-is-not-modelled) · [9. Plan](#9-plan)

## 1. The system

| component | state | operations | talks to | hard behaviour | what makes it correct |
|---|---|---|---|---|---|
| SQLite store `store/sqlite.py` | one table, key → value | `get`, `set`, `span`, `list`, `cut`, each one transaction | the database file, shared by all children | a secret with a falsy value cannot be told from a container | a row is inserted once, a listing shows what is there |
| Secrets consumer `secrets.py` | none of its own between store calls; the audit log | GET, PUT, POST, DELETE on keys and containers | a store, the audit log | two to four transactions per request, children interleave between any two; a child dies between them; the exception for one insertion is caught as if it were about another | the calls look atomic; each effect is acknowledged and each acknowledgement has its effect; every secret is inside containers; the audit log knows every secret |
| HTTP pipeline `httpd/server.py` | per child: the request, `remote_user`, `default_namespace`, what was asked so far | reception, authentication, authorization, selection of the consumer, response | plugins, a consumer | plugins are asked in dictionary order; children run concurrently; reads of the store become stale | no consumer sees a request that an authorizer refuses or nobody vouches for |
| Authenticators `httpd/authenticators.py` | none; `SimpleAuthKeys` reads the store | `handle(request)` → True, False, None | the pipeline; the store that `Secrets` writes | identities are stored while they are used | the identity acted for is one that was vouched for |
| Authorizers `httpd/authorizers.py` | none | `handle(request)` → True, False, None; sets `default_namespace` | the pipeline | see the quoted path, the pipeline the unquoted one | a user stays in the user's own directory |
| Root `root.py` | the store of its `Secrets` | GET, or pass to the sub-consumer | `Secrets` | – | routing |
| Encrypted stores `store/encgen.py`, `store/enclite.py` | the master key, `secret_protection` | as the store; `get` may write | the backing store | under `migrate` a read is a read and a write in two transactions; a restart changes the protection | callers see a plain store; a pinned secret is never handed out for another key |
| Plugin framework `plugin.py`, `store/interface.py` | each plugin's `store`, `ipa` and key | `_find_handler`, `_attach_store`, `finalize_init` | all plugins | plugins refer to each other, in circles too, and are initialised when a reference or their own section is reached first | every plugin of a server that serves is initialised |
| Forwarder `forwarder.py` with `client.py` | its uuid | forwards each method | another Custodia server | loops, timeouts that race a late answer, servers out of children | a request passes each forwarder at most once; what its client is told agrees with what was done |
| IPA certificate requests `ipa/certrequest.py` | none of its own; certificates with their keys in another store | GET requests one on a miss, DELETE revokes all and removes it | IPA, the vault | a miss and a revocation race; certificates are revoked one by one | what a successful DELETE had found is revoked; misses do not go on requesting |
| IPA vault and interface `ipa/vault.py`, `ipa/interface.py` | vaults in IPA, shared by all children | `get`, `set`, `list`, `cut`, each one or two remote calls | IPA | a vault is added and filled by two calls; different keys can have the same vault; a call may raise after it took effect | a stored secret is not overwritten; a vault without data is about to be filled |
| KEM messages `message/kem.py`, with `CustodiaKEMClient` of `client.py` | rows with the keys of clients and of the server | `parse`, `reply`; the client's call and its checks | a `KEMKeysStore`, `Secrets` | four readings of two clocks; keys replaced between lookups; a reply that cannot be made after the operation | a call fails for a reason its caller can do something about; a failure that looks like a refusal is one |
| Message formats `message/common.py`, `message/formats.py`, `message/simple.py` | none | `validate`, `parse`, `reply` | `Secrets` | – | – |
| Start-up `server/` | the process; on disk the master keys, the directories, the socket's name | parses the configuration, creates and initialises plugins, binds | all plugins, IPA | killed at any point and started again | a restart finds what it needs to read the old rows, or says why it stops |
| Logging `log.py` | the audit log | `svc_access`, `key_access` | – | records are written after their effect | – |
| Command line `cli/` | none | one HTTP call | the server | – | – |

`PROJECT.json` lists every component with its status, and under `hazards` the
places where something can go wrong that a test would hardly reach.

## 2. Modules

```
SqliteStore ──── SecretsApi ──┬── Secrets ──┬── SecretsDoc ── MCSecrets
    │                         │     ┊       │
    │                         │  SecretTree └── Custodia ──── MCCustodia
    │                         │  SharedTree        │
    │                         └── Pipeline ────────┘
    └── Overlay ── MCOverlay              IpaStores ── MCIpaStores
           ┊                              Startup ──── MCStartup
        KeyStore
                                Forwarder ── MCForwarder      Kem ── MCKem
                                    ┊                          ┊
                                    └┄┄┄┄┄┄┄┄ RemoteCall ┄┄┄┄┄┄┘

   ── EXTENDS     ┊ implements (INSTANCE … WITH)
```

* **SqliteStore** – the table as a function from paths to values, and one
  operator for each thing a method of the class does with it (`Conflicts`,
  `Stored`, `Spanned`, `CutFrom`, `Entries`, `Exists`). A method is one
  transaction, hence one atomic step of the modules that use it. `span()`
  stores `''` and `list()` shows every row with a falsy value as a container;
  a payload of `null` becomes an SQL NULL, which `get()` cannot tell from no
  row. All three are in the model.
* **SecretsApi** – what `secrets.py` decides from a request alone: the
  operation, the refusals before the first store call, the exceptions of a
  store as statuses, and the row. A request has its `trail`, the unquoted
  segments that access control looks at, and its `path`, what `os.path.join()`
  makes of them (`Joined`): a segment that was sent with a quoted `/` has more
  than one component (`Slashed`), and one that begins with `/` drops what was
  before it.
* **Secrets** – the consumer, run by `Handlers` (children) that interleave
  between store calls. `pc[h]` is the store call a handler is about to make:

  | action | code |
  |---|---|
  | `Receive` | dispatch, `_parse_*`, `_db_key`: all local to the child |
  | `ListParent`, `SpanNamespace` | the two store calls of `_parent_exists()` |
  | `Insert` | `set()` of `_int_set_key()`, `span()` of `_create()` |
  | `GetKey`, `ListContainer` | `_int_get_key()`, `_list()` and `_format_reply()` |
  | `ListVictim`, `Cut` | `list()` and `cut()` of `_destroy()`, `cut()` of `_int_del_key()` |
  | `StoreFault` | any of these calls raises instead |
  | `Audit` | the `finally` of `_audit()` |
  | `Reply`, `Crash` | the child ends, with or without an answer |

* **SecretTree** – the abstract specification of the API: one tree on which
  each call takes effect, and is answered, in one step. Its one concession is
  the default namespace, which a call may create on the way.
* **SharedTree** – what is left of that promise while containers are deleted: a
  call still takes effect and is answered in one step, but a container that it
  works in, or that it removes as empty, need only have been there, or empty, at
  some moment of that call (`noticed`). It extends `SecretTree`; the calls that
  rely on no listing are those of `SecretTree` unchanged.
* **SecretsDoc** – statements of `API.md` that the code does not keep.
* **Pipeline** – what each authenticator and authorizer answers, the search for
  the consumer and the trail; operators, since plugins keep no state.
* **Custodia** – the whole server: each child asks its authenticators and
  authorizers one by one, in any order, each in a step of its own (one of them
  reads the table), and then runs the steps of `Secrets`. `child[h]` is what
  the child has put into `request`: `user` is `remote_user`, `default` is
  `default_namespace`, `passed` is `valid_once` or `authz_ok`, and `todo` are
  the plugins the loop has not come to.
* **Overlay** – `EncryptedOverlay` over `SqliteStore`, called by children of a
  server that restarts with another `secret_protection`, on a database whose
  rows may be exchanged by its operator. `Read` and `WriteBack` are the two
  transactions of `get()` under `migrate`.
* **KeyStore** – the abstract store that consumers believe they call.
* **IpaStores** – `IPACertRequest` over `IPAVault`, as `README.md` of the
  repository configures them, over what they use of FreeIPA (external: vaults
  with or without data, certificates that are issued and revoked). A call of a
  child is a sequence of remote calls and `call[h].at` is the next one; each
  succeeds, or raises before or after it took effect (`Raises`). A key that is
  a host is a certificate request, stored under the prefix `cert/`, where no
  secret's key leads. `VaultOf` is
  `_mangle_key()`: `a_/b` and `a/_b` are both `a___b`.
* **Forwarder** – several servers, some of whose consumers forward. A request of
  a client is a *chain* of hops; a hop is a connection to a server and the child
  that takes it, with the marks in its `X-LOOP-CUSTODIA` header and the `uuid` of
  the consumer:

  | action | code |
  |---|---|
  | `Send`, `Accept` | a client connects; the parent forks a child if it has one to spare |
  | `DetectLoop`, `Forward` | the two branches of `_request()` up to the next server |
  | `Relay` | `_response()`: the next server has answered, or the connection is lost |
  | `TimeOut` | the wait for the next server ends first |
  | `Act`, `Finish`, `Refuse`, `Fail` | other consumers, the pipeline, and exceptions |
  | `Kill`, `Restart` | a child is killed; a server starts anew, with new uuids |

* **RemoteCall** – what such a chain promises to its client: one call, acted upon
  once at most, which succeeded, was refused, or failed in an unknown way.
* **Kem** – a call of `CustodiaKEMClient`, from the token it signs to the checks
  of the answer, and the child that serves it. What `Secrets` does is one step
  here. `now` is the server's clock and `skew[c]` how far a client's is ahead;
  `Tick` may come between any two steps, and `Rekey` (an operator replaces or
  removes a row of `KEMKeysStore`) too:

  | action | code |
  |---|---|
  | `Call` | `make_sig_kem()`, `make_enc_kem()`: the token names a time and a path |
  | `Receive`, `ReadKey`, `Verify` | `KEMHandler.parse()`, one row of `find_key()` per step |
  | `CheckHorizon`, `CheckExpiry` | `check_kem_claims()`: it reads the clock twice |
  | `Serve`, `Seal`, `Stamp`, `Audit` | the operation, `KEMHandler.reply()`, the audit record |
  | `Open`, `CheckReplyHorizon`, `CheckReplyExpiry` | `_kem_unwrap()` on the client's clock |
  | `Lose` | the child dies or the connection does |

* **Startup** – `main()` and `_load_plugins()` of `server/__init__.py`, one step
  for each thing that may fail or that a kill may come between. The nested calls
  of `finalize_init()` are a stack, `proc.stack`, whose frames say where each
  call is: the first call of `IPAInterface` may come from a vault, that from an
  overlay, and that from an authenticator. `files`, `rows`, `dirs` and `socket`
  survive the process.
* **MCSecrets, MCCustodia, MCOverlay, MCIpaStores, MCForwarder, MCKem,
  MCStartup** – the instances for TLC.
* **Secrets_proofs, SecretsTree_proofs, Custodia_proofs, Overlay_proofs,
  IpaStores_proofs, Forwarder_proofs, Startup_proofs, Kem_proofs** – see section 6.

Definitions whose comment begins with "Broken:" are variants with a plausible
bug, named for it. No specification uses them; each shows that a property can
fail (`mutants` in `PROJECT.json`).

## 3. Runs

| run | instance | shows |
|---|---|---|
| `secrets_all` | 2 handlers, every operation and refusal, segments with a quoted `/`, denied store calls, kills | `WriteOnce`: no stored value is overwritten. `EffectsAreAnswered`: rows change only by the acknowledged effect of one call, and each acknowledgement has its effect – so a refused, failed or killed call leaves at most the caller's own namespace behind. `AtomicAfterCheck`: answers and effects are those of `SharedTree`, whatever is deleted. `TypeOK` |
| `secrets_atomic` | 2 handlers, no DELETE, no quoted `/`, other store failures, no kills; fair | `AtomicTree`: answers and effects are those of `SecretTree`, in which the check of the parent and the insertion are one step. `NoOrphans`, `OneWinner`. `AuditComplete`: a secret that is there, or that a record says was read, has the record of its PUT, or the handler that stored it is about to write it. `EveryRequestEnds` |
| `custodia` | 2 children, 3 configurations, quoted segments, kills | `Permitted`, `Vouched`, `OwnRowsOnly`: see below. `ServerTypeOK` |
| `overlay` | 2 children, 2 keys, 2 deployments | `PlainStore`: the overlay implements `KeyStore`, through restarts, failures, exchanged rows, and through a migration during which nothing is deleted. `PinnedAnswers`: under `pinning` a secret is handed out for the key it was set for only |
| `ipa_stores` | 2 children, a vault with two names, a host, 3 certificates; failures, kills | `DeletedIsRevoked`: a DELETE that is told 204 has revoked all that was issued for its host when it asked, cached or not. `WrittenOnce`: without deletions a stored secret stays, though `vault_archive` always replaces and two keys share the vault. `HalfMade`, `RequestsBounded`: if nothing fails, a vault without data is about to be filled, and a host never gets more certificates than there are children: only calls that missed the cache together request one each |
| `forwarder` | 2 servers, 2 forwarders, a store; 4 topologies; 2 requests; timeouts, kills, failures, a restart; fair | `Promise`: the chain implements `RemoteCall`. `ForwardsOnce`, `LoopsAreReal`: the header stops a request that comes back to a forwarder, and nothing else. `HopsBounded`: so one request takes no more connections than the forwarders have had uuids, and one, though each keeps a child waiting. `EveryCallEnds`: although a server's only child waits for the other server and the other way round |
| `kem` | one client, 3 combinations of key types, 8 requests, 5 differences of clocks, 2 rows that are removed or replaced and restored at any point, lookups that fail; fair | `FailuresExplained`: every failure of a call has one of the reasons listed there; clocks that differ by less than a lifetime are none. `RepliesNotEarly`: the server's expiry check keeps a client from finding the answer too far ahead. `AuditTruth`: the log says what was done to a key, but for an operation whose reply could not be made. `Promise`: `RemoteCall` again. `CallsEnd` |
| `startup` | 12 configurations, 2 key files, failures of files and databases, kills and restarts at any point; fair | `Wired`: a server that serves has every reference, key and interface in place. `StartFailsForAReason`: a start fails for a flaw of its configuration, a failure of IPA or of the operating system, or a key file without a key only – not for circles, for the order of the sections, or for the socket of a killed server. `RowsReadable`: no master key that rows depend on is ever replaced. `StartsEnd` |
| `doc_delete_empty`, `doc_post_exists`, `overlay_migrate`, `ipa_revoked` | | counterexamples, section 7 |

With deletions two handlers are *not* atomic: one lists a parent that another
removes, and its key is stored outside the tree. That is why `AtomicTree`,
`NoOrphans` and `OneWinner` are stated for request sets without DELETE
(`secrets_atomic`), why `DocDeleteEmpty` is violated, and why the promise that
holds of every request set, `AtomicAfterCheck`, has `SharedTree` for its
abstract specification: only what `list()` saw may be old, never whether the
row itself is there.

**Permitted.** The pipeline keeps asking after an authorizer has said True, so
that a later refusal counts; a default namespace that an accepting
`UserNameSpace` left behind belongs to the user that the request ended up with.
**Vouched.** Authenticators are asked one after another while other children
store identities. For every request that got past them, none of them would
refuse it *now*, one would accept it, and its user is an identity that one of
those vouches for. It needs that identities are not deleted (`KeysAreKept`): a
request in flight does act for an identity that was deleted after it was asked.
**OwnRowsOnly.** Where each mount of `Secrets` has a `UserNameSpace` on its
path, rows are changed and values handed out only by children whose user is the
first segment of the row's path, whatever the other authorizers accept. It is
about requests whose row is below the first segment of their trail
(`StaysInside`): authorizers and `_db_key()` look at the trail, and a segment
that begins with `/` makes `os.path.join()` (`secrets.py:32`) drop the segments
they looked at, so that two users' trails may be one row.

The same join is why `NoOrphans` and `AtomicTree` are stated for requests
without quoted slashes (`NoSlashes`): `_parent_exists()` looks for the container
of the trail without its last segment, and `u/c%2Fk` is the row `u/c/k` whose
container `u/c` nobody looked for. `AuditComplete` is stated for trails that
spell their row (`RowsAreSpelled`), since the log has the trail. What holds for
every trail, `WriteOnce`, `EffectsAreAnswered` and `AtomicAfterCheck`, is
checked with both kinds of segment.

## 4. Bounds

* `Handlers` bounds the children that are alive at the same time; a child that
  ends leaves its handler for the next, so that runs have any number of
  requests. Every hazard of section 1 is a race between two children, of which
  one does several requests while the other is between two store calls. The
  proofs are for any number.
* `Paths` has a namespace, a container in it and a key in each: the default
  namespace, a parent that is not one, and a container that is not empty.
* `AllPaths` of `secrets_all` adds the row of an absolute segment; `MCSlashed` has
  one segment of each kind, `c/k` and `/x`. In `custodia` one segment is sent
  as `%6b%2Fk`, which is `k/k`.
* `Values`: two, of which one is not Base64; payloads `''` and null as well.
* `Requests` and `Wires` are listed in the MC modules: one for each operation,
  refusal, way of authentication and route. `Faults` are the kinds of exception
  a store raises: the handlers tell them apart by the status only, so
  `secrets_all` has one and `secrets_atomic` the other two.
* `Watched` are the rows whose audit records are kept, so that the log is finite.
* `MCConfigs` are those of `README.md`, `docs/source/quick` and `custodia.conf`.
* `Deployments` say, for each protection a server is run with, what may happen:
  a classic server that becomes a pinning one with exchanged rows, and the
  upgrade that `migrate` is for.
* `Serials` are the certificates that can ever be issued: three, one more than
  children, so that `RequestsBounded` could fail. `MCScenarios` of `ipa_stores`
  are: anything happens; nothing fails; nothing fails and nothing is deleted.
* `forwarder`: `MaxChildren` is 1, not the 40 of `ForkingMixIn`, so that two
  requests make servers wait for each other. `MCTopologies` are the two of
  `custodia.conf` (a forwarder to secrets of its own server; one to itself), two
  servers that forward to each other, and a way to the other server and back.
  `MaxStarts` lets the front server start twice, so that one uuid is replaced.

* `kem`: `Life` is 1, not 300: what decides is whether a reading of a clock is
  before, at or after a limit that is one or two lifetimes away, and with
  `Skews` from −2 to 2 and `MaxNow` = 3 each of the four readings falls on both
  sides of each limit and on it. Clients share nothing but the rows of keys,
  which the operator may change at any point, so one client stands for each
  (`Secrets` has the races on the table). `MCRequests` has each operation, on keys
  and on containers, both forms of token, a name that is not the path's and a path
  that is not listed;
  `MCRewrites` removes a key of the client and replaces one of the server.
* `startup`: `MCConfigs` are overlays over a vault, an overlay over an overlay
  over the certificate store, a circle, a reference to nothing, two key files, a
  missing section, a section that is not accepted after one that makes a key, and
  one of each of `Flaws`. Two files and three keys let
  every key be fresh. `MaxDepth`, Python's recursion limit, is 13: one more than
  twice the number of sections, which `FailsForAReason` needs and no chain of
  references reaches; a circle that did not end would. One process runs at a time.

## 5. Fairness

`FairSpec` has weak fairness for each handler's `Proceed`: a child that has a
request and can run is run by the kernel, and no step of a child waits for
another child (SQLite's own locks are inside one transaction, and a timeout of
theirs is a `StoreFault`). Nothing says that clients send requests, that stores
fail or that children are killed; `secrets_atomic` excludes kills because a killed
child's request ends at once. `FairSpec` of `Forwarder` says the same of parents
(they accept while a child is to spare: `ForkingMixIn` blocks otherwise) and of
children, whose timers are part of them; nothing says that servers fail or
restart. What answers first, the next server or the timer, is open. `Kem` has
it for the steps of each call's child and client, neither of which waits for
anything, and none for clocks, operators and lost connections; `Startup` for the
one process that starts. The other runs are about safety and have no fairness.

## 6. Proofs

All are for any `Handlers`, `Paths`, `Values`, `Requests`, `Configs` and `Wires`
(or `Deployments`; or `Servers`, `Mounts` and `Topologies`; or `Plugins`, `Files`
and start-up `Configs`; or `Clients`, `Skews`, `Life` and `Rewrites`) that satisfy
the named assumptions of `SqliteStore`, `SecretsApi`, `Pipeline`, `Overlay`,
`IpaStores`, `Forwarder`, `Startup` and `Kem` (TLC evaluates those on every run):
paths are non-empty and closed under `Parent`, the sentinels are no values,
requests and wires are of their types, and `Handlers` of `IpaStores` is finite.

Some theorems have a hypothesis besides, which says for which constants they hold:

* `NoDeletes` – no request is a DELETE. With deletions `AtomicTree` is false
  (section 3), and `AtomicAfterCheck` is what is left of it.
* `NoSlashes` – no segment has a quoted `/`. With one that has, `AtomicTree` is
  false for the container that is not looked for (section 3).
* `QuietMigration(d)` for each deployment – none that runs `migrate` deletes
  secrets, or has an operator who exchanges rows, while it does. Without it the
  statements are false: that is the run `overlay_migrate`.
* `IsFiniteSet(Mounts)` – of `HopsAreBounded`, so that there is a number to be
  bounded by.
* `ShallowEnough` – there is a finite number of sections, and `MaxDepth` is
  more than twice that number. It stands for Python's limit of a thousand frames,
  of which a level of `finalize_init()` takes two or three: a configuration with
  a hundred and more plugins that refer to each other in a row does fail for no
  other reason.

| theorem | statement | inductive invariant, and why |
|---|---|---|
| `TypeCorrect` | `Spec => []TypeOK /\ []Control` | `Control`: what a handler's place says about its request. `TypeOK` is not inductive without it: only a request that was not refused names a row |
| `WrittenOnce` | `Spec => WriteOnce` | the same; `RowsStep` says what each step does to the table |
| `EffectsAnswered` | `Spec => EffectsAreAnswered` | the same |
| `NoHoles` | `Spec => []NoOrphans` | `GrowingTree`: no orphans, and a handler past `ListParent` has its parent there (`ParentKnown`). What a handler learned stays true since rows only grow |
| `SingleWinner` | `Spec => []OneWinner` | `Winners`: adds that the row of each handler with 201 is there, in the way of a second one |
| `AuditKnows` | `Spec => []AuditComplete` | `AuditInv`: adds the reads that are not recorded yet; the record of the PUT replaces the handler that was about to write it |
| `SecretsAreAtomic` | `ASSUME NoDeletes, NoSlashes PROVE Spec => AtomicTree` | each step of `Secrets` is a step of `SecretTree` or a stutter; an operation takes effect at its last store call, when what `ListParent` saw is still true (`GrowingTree`) |
| `SecretsAreShared` | `Spec => AtomicAfterCheck` | `TypeOK /\ Control`; `noticed` is witnessed by the handlers that are past their listing (`Noticed`), and nothing has to be said about what other handlers do in between, deletions included |
| `ServerIsSecrets` | `ServerSpec => Spec` | none: all of the above holds behind every pipeline |
| `ServerKeepsPromises` | `ServerSpec => AtomicAfterCheck /\ WriteOnce /\ EffectsAreAnswered` | from `ServerIsSecrets` and the theorems of `Secrets`: the promises to clients are those of the whole server |
| `ServerIsAtomic` | `ASSUME NoDeletes, NoSlashes PROVE ServerSpec => AtomicTree` | the same: a server is an atomic tree, whoever is let in |
| `ServerTypeCorrect` | `ServerSpec => []ServerTypeOK /\ []ChildrenOK` | `ChildrenOK`: what each stage leaves for the next, and a child is in `Secrets` exactly while `Secrets` has its request |
| `IpaTypeCorrect` | `Spec => []TypeOK /\ []Control` of `IpaStores` | `PlaceOK`: where a call is says what it is about |
| `RevokedBeforeDeleted` | `Spec => DeletedIsRevoked` | `Revoking`: while a DELETE revokes, what it found is revoked or still to be revoked; once it removes the pair, all of it is |
| `StoredOnce` | `Spec => WrittenOnce` | `OneArchiver`: a vault about to be filled for a key is without data, and one child fills it |
| `NothingHalfMade` | `Spec => []HalfMade` | inductive with `Control` |
| `RequestsAreBounded` | `Spec => []RequestsBounded` | `Bounding`: while nothing is cached each certificate is held by the child that requested it (`Held`); afterwards each can be charged to a child of its own that will not request one (`Charged`, an injection into `Handlers`, which is assumed to be finite) |
| `ChainsTypeCorrect` | `Spec => []TypeOK` of `Forwarder` | itself; `ChainStep` says what a step does to a chain: one hop goes on, the last one passes the request on, or the chain starts |
| `ForwardedOnce` | `Spec => []ForwardsOnce` | `Marked`: the header of a hop has exactly the marks of the hops before it, and who forwarded was not among them |
| `HopsAreBounded` | `ASSUME IsFiniteSet(Mounts) PROVE Spec => []HopsBounded` | `Origins`: a uuid is of a start of its server that there has been, and who passed a request on is a forwarder. With `Marked` the uuids of the hops that passed it on are different members of `Marks` |
| `LoopsReal` | `Spec => []LoopsAreReal` | `Marked`, and `LoopReal` of each chain |
| `ForwarderKeepsPromise` | `Spec => Promise` of `Forwarder` | `Truths`: a success anywhere in a chain means that the request was acted upon, and a refusal means that it was not and that the last hop has ended, so that it never will be; only the last hop acts. Each step is a step of `RemoteCall` or a stutter |
| `PermittedCorrect` | `ServerSpec => []Permitted` | `GrantsOK`: at every turn of the loop `authz_ok` and the default namespace are a true summary of the authorizers asked so far |
| `VouchedCorrect` | `ServerSpec => []Vouched` | `BeliefsOK`: what the loop concluded from the authenticators asked so far is true of them now. An answer that is no refusal depends on at most one row, which is there, is never overwritten (`RowsStep`) and is not removed while identities are kept |
| `RowsAreOwn` | `ServerSpec => OwnRowsOnly` | `GrantsOK`, and `Routed` in `ChildrenOK`: the mount point that was found is the nearest one, so the segment after it is the user's directory for the authorizer and the first segment of the trail for `Secrets`, and of the row if it `StaysInside` |
| `OverlayTypeCorrect` | `Spec => []OverlayTypeOK /\ []OverlayInv` of `Overlay` | `OverlayInv` is `OverlayTypeOK` with `Migrating`: only a `get()` under `migrate` has read what it will write back; and `NoNulls`: no row is an SQL NULL |
| `PinningDetects` | `Spec => PinnedAnswers` | `PinsOK`: a row with a pin has that of the key it was set for (`RowOK`), wherever it was moved; a deployment that migrates exchanges no rows, so what a migration has read is of the key that was asked for |
| `QuietMigrationUpdates` | `ASSUME \A d \in Deployments : QuietMigration(d) PROVE Spec => DocMigrateUpdates` | `KeptOK`: the row that a migrating `get()` has read is there until it is replaced, by the same secret (`SameSecret`) |
| `OverlayIsPlain` | the same hypothesis; `Spec => PlainStore` | `KeptOK` with `PinsOK`: each step shows as a step of `KeyStore` on the decrypted table (`ShownTable`), or as none, and the writing back of a migration shows as none |
| `StartupTypeCorrect` | `Spec => []StartupTypeOK` of `Startup` | itself with `KeyInv`: what each phase has read of, or written to, the key files |
| `KeysAreKept` | `Spec => []RowsReadable` | `KeyInv`: the key that an overlay of a running server uses is in its file, the file of a start between open and write is empty, and the key about to be written is fresh |
| `ServesWired` | `Spec => []Wired` | `WireInv`: what a plugin lacks is still to come, because the loop of `_init_plugins()` has not reached it or because a call of its `finalize_init()` is on the stack at a place before it (`ToCome`, `InCall`). It does not matter who calls whom, so circles and the order of sections do no harm |
| `FailsForAReason` | `ASSUME ShallowEnough PROVE Spec => []StartFailsForAReason` | `ReasonInv`. `StackInv`: each call that waits for another has attached its store, or set its interface, before it called, so that a plugin waits in each of these two ways once at most; the calls below the top are different members of `Plugins` × 2 ways (`RoomToCall`). `IpaInv`: the interface bootstraps once, and is ready for who asks IPA. The rest says that what the last phases fail for has been looked at before: a socket that was in the way, a key file that was absent. A failure of the operating system, at any step that asks it, is recorded in the process (`FailStep`) |
| `KemTypeCorrect` | `Spec => []KemTypeOK` of `Kem` | `CallsInv`: for each call its `Place` (what was acted on, sealed and answered by then), its `Clock`, the rows it has read (`Keyed`), why it will fail (`Explained`) and what is logged (`Logged`) |
| `FailuresHaveReasons` | `Spec => []FailuresExplained` | `CallsInv`. `Clock` relates `exp` to the moment the client read its clock, so that a comparison that fails means that the call took too long; `Keyed` says that a token that does not open was tried with rows that were read; `Outcome` says what a status means: a success without a message is that of a POST for what is there |
| `RepliesInTime` | `Spec => []RepliesNotEarly` | `Clock`: past the server's expiry check no clock is behind by more than `Life` |
| `AuditIsTrue` | `Spec => []AuditTruth` | `Logged` with `Outcome`: what the status of an answer says of what was done |
| `KemKeepsPromise` | `Spec => Promise` of `Kem` | `CallsInv`: a status of 4xx is never that of a call that was acted upon, although the reply is made afterwards; each step of `Kem` is a step of `RemoteCall` or a stutter |

The counting arguments need no induction: a function into a finite set that
gives different values for different arguments bounds how many arguments there
are (`FS_PigeonHole` of the library), and the invariants say that
marks, or frames that wait, are different.

Only model-checked is liveness (`EveryRequestEnds`, `EveryCallEnds`, `CallsEnd`,
`StartsEnd`), which needs ENABLED, and the prover does not handle that. Every
safety property of a passing run is stated by a theorem. That the runs expecting a
violation find one is TLC's alone: the four statements are false.

## 7. Where the code and its documentation disagree

Found by a run:

* `doc_delete_empty` – `API.md:221`: DELETE of a container is "409 if the
  container is not empty". `_destroy()` lists and cuts in two transactions
  (`secrets.py:238`); a key stored between them loses its container.
* `doc_post_exists` – `API.md:199`: POST is "200 if the container already
  exists". When two children create the default namespace, the second one's
  `CSStoreExists` (`secrets.py:101`) is caught at `secrets.py:207` as if it were
  about the requested container, which nobody has created.
* `overlay_migrate` – `store/encgen.py:31`: under `migrate` a secret without a
  pin "is updated". `get()` reads and replaces in two transactions, so one that
  was deleted in between is stored again, although its DELETE was told 204.
* `ipa_revoked` – `ipa/certrequest.py:180`: a DELETE "removes the cert/key pair
  from the backing store and revokes the cert at the same time". `get()` stores
  a certificate in a call after the one that requested it
  (`certrequest.py:255`), so a DELETE in between revokes it and removes
  nothing, and the revoked pair is cached and handed out.

Noticed while modelling; the models follow the code:

* DELETE of `key` (no slash) on a container removes its row even when it has
  content (`API.md:157`, `secrets.py:378`); DELETE of `key/` removes a secret,
  and that without an audit record (`API.md:219`, `secrets.py:238`).
* A PUT below a secret is accepted, since the secret lists as an existing parent
  (`API.md:147`, `secrets.py:95`).
* The race of `doc_post_exists` makes a PUT answer 409 for a key that is not
  there (`API.md:150`, `secrets.py:349`); `AtomicTree` says so (`NamespaceTaken`).
* A secret of null is stored (201), not found (404) and in the way of the next
  PUT (409) (`API.md:128`, `secrets.py:294`).
* Authorizers are ordered and the first positive or negative answer decides,
  says `docs/source/plugins/index.rst:28`; `pipeline()` asks a dictionary of
  them and goes on after a positive answer (`httpd/server.py:467`).
* `secret_protection` that is not set is False, not the documented `encrypt`,
  and behaves as `pinning` (`store/encgen.py:26`, `:43`).
* `cut()` of `IPACertRequest` returns a list when there is no cached pair
  (`ipa/certrequest.py:274`), which is never False: DELETE of a certificate that
  does not exist is a 204, not the 404 of `API.md`.
* After a failed `vault_archive` a PUT is told 409 and a GET 404 for one key.
* `create_container()` of the KEM client expects a message in every success, and
  a POST for a container that is there is answered 200 without one
  (`API.md:199`, `client.py:277`, `secrets.py:207`): the call fails. It is the
  second disjunct of `FailuresExplained`.
* A PUT or DELETE that was done, and whose reply cannot be made, is audited as
  denied (`secrets.py:359`, `:393`): for keys of a type that replies do not
  support, and, if the request was signed but not encrypted, when the server's
  keys are not found then (`message/kem.py:67`). `AuditTruth` has both.
* `_db_key()` checks the number of segments and `os.path.join()` makes the key
  (`secrets.py:32`), so a quoted `/` in a segment names a row in a container that
  was not looked for, or outside of the one the trail begins in; see
  `OwnRowsOnly` and `NoOrphans` in section 3. `API.md` does not say what such a
  segment means.
* `docs/source/quick.rst:235` says that the master key is created on the first
  start. After a start that was killed between creating and filling the file
  (`store/encgen.py:57`) no start creates it or succeeds, until the operator
  removes the file (`Repair`).
* Two servers that are started for the first time together may both find the
  key file absent, and a server removes its socket's name on exit even if a
  newer server has taken it (`httpd/server.py:109`). Hazards outside `Startup`,
  which has one process.
* A method a consumer lacks is meant to be a 400 (`plugin.py:453`), but Root's
  missing attributes raise and become a 500.

## 8. Abstractions, and what is not modelled

* Paths have no constant `keys/` prefix, and no empty segments but the first and
  the last of a URL. (`//` makes `SimplePathAuthz` walk forever; listed as a
  hazard.)
* Of segments with a quoted `/` those that end in one, of which `sqlite.py` could
  make no key of its own, are left out, and those with two in a row. The names of
  configurations and identities have none.
* Messages of `Secrets` are simple ones: whether one parses, is of an allowed
  type, and what its payload is; `Kem` has the signed ones, in front of a table
  on which each operation is one step.
* In `Kem` cryptography is perfect: a token opens with the keys that its sender
  has the other halves of. Tokens are not replayed, and of the types of keys only
  those for which the code finds no algorithm are told apart. A lookup that fails
  raises `CSStoreError`, all that `get()` of the stores in `store/` raises; an
  `IPAVault` for the rows of keys, whose failures may be a `CSStoreDenied` too,
  is not modelled. What the operations of `Secrets` answer without having done
  anything is a set of statuses that depends on whether the row is there
  (`Refusals`), since the containers around it are not in this module.
* In `Startup` the parsing of options, the merging of configuration files and the
  import of plugin classes fail for a section, when its turn comes (`bad`); a
  start that reads its socket from systemd binds nothing and is left out. A key
  file is complete or "empty", which a part of a key is too: `write()` of a
  hundred bytes is one step. Files, logs, databases, key files and the socket may
  fail to be opened, made or written (`IOError`); other plugins than stores and
  overlays do no I/O in `__init__()`. A name of a socket that cannot be removed
  shows when it is bound to.
* Encryption is perfect; a ciphertext is a record of what decryption gives back,
  with a history field (`origin`) that only properties look at. The master key
  stays the same, as `RowsReadable` shows. A secret of None under an overlay is left out.
* `OwnRowsOnly` assumes that the names of configurations and users are sent as
  they are (`NamesUnquoted`): authorizers look at the quoted path and the
  pipeline routes on the unquoted one.
* The pipeline's plugins are asked in any order, though newer Pythons keep the
  order of the file.
* TLS, sockets, systemd activation, the text of configuration files, log
  formatting and the command line are not modelled: they are conversions of text,
  or blocking I/O whose states the program does not see. The handshake of a slow
  peer delays the parent (`httpd/server.py:169`); no property of this code says
  how long. The limit of `ForkingMixIn` on children is in `Forwarder` only.
* In `Forwarder` the loop header is the set of uuids that it lists (the code
  looks for its uuid as a part of the text; uuids have one length), and clients
  send none. Path, query, body and credentials do not change on the way; whether
  the next server accepts them is `Refuse`. Clients that are no forwarders wait
  without a timeout. A connection whose caller has given up may still be served,
  or be dropped by the handshake.
* In `IpaStores` a certificate stands for itself and its key; certificates do
  not expire (`cert_find` asks for those that are still valid), `list()` of the
  vault and Kerberos are left out, and a connection that cannot be made is an
  exception of the remote call. Its calls come from children directly, without
  `Secrets` in front.

## 9. Plan

Written, in this order: the store and `Secrets` with its abstract tree; their
proofs; the pipeline in front of it; the encrypted overlay; the IPA stores; the
forwarder; the shared tree with its proof; KEM messages; start-up; the proofs of
the overlay, of start-up and of the bound on hops. To come:

1. **Two servers on one machine** – `Startup` with several processes: a first
   start that races another one for the key file, and sockets that are removed
   by their former owner. What holds there is less than `RowsReadable`.
2. **Proofs** – what the abstract specifications promise by themselves: that
   `SecretTree` implements `SharedTree`, and what `RemoteCall` says of an answer
   once it is given.
