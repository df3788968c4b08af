------------------------------- MODULE IpaStores -------------------------------
(***************************************************************************)
(* IPAVault (ipa/vault.py), IPACertRequest (ipa/certrequest.py) over it,   *)
(* and as much of FreeIPA as they use.  A call of a child on one of these  *)
(* stores is a sequence of remote calls; each of them may raise before or  *)
(* after it took effect, and other children's calls come in between.       *)
(*                                                                         *)
(* The README's configuration serves both stores from one set of vaults:   *)
(* a key that is a host stands for a certificate request of the service on *)
(* that host, the other keys for secrets in a vault.                       *)
(***************************************************************************)
EXTENDS Integers, FiniteSets

CONSTANTS
  Handlers,   \* the children that can be alive at the same time (a bound)
  Keys,       \* of secrets
  Hosts,      \* of certificate requests that are allowed
  OtherHosts, \* of certificate requests that _parse_key() refuses
  VaultOf,    \* the name of the vault of a key or host
  Payloads,   \* what callers store
  Serials,    \* the certificates that can ever be issued (a bound)
  Scenarios,  \* what may happen
  None, NoVault, NoData

Operations == {"get", "set", "cut"}

Vaults == {VaultOf[k] : k \in Keys \cup Hosts}

\* VaultOf is _mangle_key(): it maps different keys to one vault, 'a_/b' and
\* 'a/_b' are both a___b.  Certificates are kept apart by their prefix.
ASSUME IpaAssumption ==
  /\ DOMAIN VaultOf = Keys \cup Hosts
  /\ \A k \in Keys : \A g, h \in Hosts :
       VaultOf[k] # VaultOf[h] /\ (VaultOf[g] = VaultOf[h] => g = h)
  /\ OtherHosts \cap (Keys \cup Hosts) = {}
  /\ None \notin Hosts
  /\ NoVault # NoData /\ {NoVault, NoData} \cap (Payloads \cup Serials) = {}
  /\ \A s \in Scenarios :
       s.operations \subseteq Operations /\ s.faults \in BOOLEAN /\ s.kills \in BOOLEAN

VARIABLES
  vaults,    \* the vaults and their data
  issued,    \* the host each certificate was issued for
  revoked,   \* the certificates that were revoked
  call,      \* what each child has been asked, and where it is
  scenario

vars == <<vaults, issued, revoked, call, scenario>>

Data == Payloads \cup Serials     \* a serial stands for a certificate and its key

\* The remote call a child is about to make.
Steps == {"retrieve", "request", "add", "archive", "find", "revoke", "delete", "done"}

Results == Data \cup {"pending", "none", "done", "exists", "denied", "error"}

\* known is not kept by the code: the certificates that had been issued when
\* cert_find was called, which a property is about.
Calls ==
  [op : Operations, key : Keys \cup Hosts \cup OtherHosts, value : Data \cup {None},
   at : Steps, todo : SUBSET Serials, known : SUBSET Serials, result : Results]

ASSUME CallsAssumption == None \notin Calls

ASSUME HandlersAssumption == IsFiniteSet(Handlers)

TypeOK ==
  /\ vaults \in [Vaults -> Data \cup {NoVault, NoData}]
  /\ issued \in [Serials -> Hosts \cup {None}]
  /\ revoked \subseteq {s \in Serials : issued[s] # None}
  /\ call \in [Handlers -> Calls \cup {None}]
  /\ scenario \in Scenarios

Init ==
  /\ vaults = [v \in Vaults |-> NoVault]
  /\ issued = [s \in Serials |-> None]
  /\ revoked = {}
  /\ call = [h \in Handlers |-> None]
  /\ scenario \in Scenarios

--------------------------------------------------------------------------------
At(h, step) == call[h] # None /\ call[h].at = step

VaultFor(h) == VaultOf[call[h].key]

IsEmpty(vault) == vaults[vault] \in {NoVault, NoData}

Goto(h, step) == call' = [call EXCEPT ![h].at = step]

Return(h, result) == call' = [call EXCEPT ![h].at = "done", ![h].result = result]

\* The remote call raises: AuthorizationError is a denial for some of them.
Raises(h) ==
  /\ scenario.faults
  /\ \/ Return(h, "error")
     \/ /\ call[h].at \in {"add", "archive", "delete"}
        /\ Return(h, "denied")

FirstStep(op, key) ==
  CASE op = "get" -> "retrieve"
    [] op = "set" -> "add"
    [] op = "cut" -> IF key \in Hosts THEN "find" ELSE "delete"

Begin(h) ==
  /\ call[h] = None
  /\ \E op \in scenario.operations, key \in Keys \cup Hosts \cup OtherHosts :
       \E value \in IF op = "set" THEN Payloads ELSE {None} :
         LET refused == key \in OtherHosts IN
         call' = [call EXCEPT ![h] =
           [op |-> op, key |-> key, value |-> value, todo |-> {}, known |-> {},
            at |-> IF refused THEN "done" ELSE FirstStep(op, key),
            result |-> IF refused THEN "denied" ELSE "pending"]]
  /\ UNCHANGED <<vaults, issued, revoked, scenario>>

\* Broken: a vault without data is taken for an empty secret.
RetrieveNoData(h) ==
  /\ At(h, "retrieve")
  /\ IF vaults[VaultFor(h)] # NoVault THEN Return(h, vaults[VaultFor(h)])
     ELSE IF call[h].key \in Hosts THEN Goto(h, "request") ELSE Return(h, "none")
  /\ UNCHANGED <<vaults, issued, revoked, scenario>>

\* vault_retrieve; without a cached pair get() of IPACertRequest goes on.
Retrieve(h) ==
  /\ At(h, "retrieve")
  /\ \/ ~IsEmpty(VaultFor(h)) /\ Return(h, vaults[VaultFor(h)])
     \/ IsEmpty(VaultFor(h)) /\ call[h].key \in Hosts /\ Goto(h, "request")
     \/ IsEmpty(VaultFor(h)) /\ call[h].key \notin Hosts /\ Return(h, "none")
     \/ Raises(h)
  /\ UNCHANGED <<vaults, issued, revoked, scenario>>

\* cert_request for a new key pair; IPA may not know the host.
Request(h) ==
  /\ At(h, "request")
  /\ \/ \E s \in Serials :
          /\ issued[s] = None
          /\ issued' = [issued EXCEPT ![s] = call[h].key]
          /\ \/ call' = [call EXCEPT ![h].at = "add", ![h].value = s]
             \/ Raises(h)
     \/ (Return(h, "denied") \/ Raises(h)) /\ UNCHANGED issued
  /\ UNCHANGED <<vaults, revoked, scenario>>

\* get() of IPACertRequest stores with replace=True.
Replaces(h) == call[h].op = "get"

\* Broken: a duplicate does not matter.
AddReplaces(h) ==
  /\ At(h, "add")
  /\ vaults' = IF vaults[VaultFor(h)] = NoVault THEN [vaults EXCEPT ![VaultFor(h)] = NoData]
                                                ELSE vaults
  /\ Goto(h, "archive")
  /\ UNCHANGED <<issued, revoked, scenario>>

\* Broken: data is archived into a new vault by its first user.
AddIsEnough(h) ==
  /\ At(h, "add")
  /\ vaults' = IF vaults[VaultFor(h)] = NoVault THEN [vaults EXCEPT ![VaultFor(h)] = NoData]
                                                ELSE vaults
  /\ Return(h, IF Replaces(h) THEN call[h].value ELSE "done")
  /\ UNCHANGED <<issued, revoked, scenario>>

\* vault_add.
Add(h) ==
  /\ At(h, "add")
  /\ \/ /\ vaults[VaultFor(h)] = NoVault
        /\ vaults' = [vaults EXCEPT ![VaultFor(h)] = NoData]
        /\ Goto(h, "archive") \/ Raises(h)
     \/ /\ vaults[VaultFor(h)] # NoVault
        /\ \/ Replaces(h) /\ Goto(h, "archive")
           \/ ~Replaces(h) /\ Return(h, "exists")
        /\ UNCHANGED vaults
     \/ Raises(h) /\ UNCHANGED vaults
  /\ UNCHANGED <<issued, revoked, scenario>>

\* vault_archive, which needs a vault.
Archive(h) ==
  /\ At(h, "archive")
  /\ \/ /\ vaults[VaultFor(h)] # NoVault
        /\ vaults' = [vaults EXCEPT ![VaultFor(h)] = call[h].value]
        /\ Return(h, IF call[h].op = "get" THEN call[h].value ELSE "done") \/ Raises(h)
     \/ vaults[VaultFor(h)] = NoVault /\ Return(h, "error") /\ UNCHANGED vaults
     \/ Raises(h) /\ UNCHANGED vaults
  /\ UNCHANGED <<issued, revoked, scenario>>

IssuedFor(host) == {s \in Serials : issued[s] = host}

\* What _revoke_certs() does next when certs are left to be revoked.
RevokeNext(certs) == IF certs = {} THEN "delete" ELSE "revoke"

\* cert_find, and the filter for those that are not revoked.
Find(h) ==
  LET certs == IssuedFor(call[h].key) \ revoked IN
  /\ At(h, "find")
  /\ \/ call' = [call EXCEPT ![h].todo = certs, ![h].known = IssuedFor(call[h].key),
                            ![h].at = RevokeNext(certs)]
     \/ Raises(h)
  /\ UNCHANGED <<vaults, issued, revoked, scenario>>

\* Broken: only the first certificate that was found is revoked.
RevokeFirst(h) ==
  /\ At(h, "revoke")
  /\ \E s \in call[h].todo :
       /\ revoked' = revoked \cup {s}
       /\ Goto(h, "delete")
  /\ UNCHANGED <<vaults, issued, scenario>>

\* cert_revoke for one of them.  What it raises is caught by nobody.
Revoke(h) ==
  /\ At(h, "revoke")
  /\ \/ \E s \in call[h].todo :
          /\ revoked' = revoked \cup {s}
          /\ \/ call' = [call EXCEPT ![h].todo = @ \ {s},
                                    ![h].at = RevokeNext(call[h].todo \ {s})]
             \/ Raises(h)
     \/ Raises(h) /\ UNCHANGED revoked
  /\ UNCHANGED <<vaults, issued, scenario>>

\* vault_del.  cut() of IPACertRequest never returns False, even if there were
\* neither a pair nor certificates, and Secrets answers 204.
Delete(h) ==
  LET found == vaults[VaultFor(h)] # NoVault IN
  /\ At(h, "delete")
  /\ \/ /\ vaults' = [vaults EXCEPT ![VaultFor(h)] = NoVault]
        /\ \/ Return(h, IF found \/ call[h].key \in Hosts THEN "done" ELSE "none")
           \/ Raises(h)
     \/ Raises(h) /\ UNCHANGED vaults
  /\ UNCHANGED <<issued, revoked, scenario>>

Reply(h) ==
  /\ At(h, "done")
  /\ call' = [call EXCEPT ![h] = None]
  /\ UNCHANGED <<vaults, issued, revoked, scenario>>

Kill(h) ==
  /\ scenario.kills /\ call[h] # None
  /\ call' = [call EXCEPT ![h] = None]
  /\ UNCHANGED <<vaults, issued, revoked, scenario>>

Next ==
  \E h \in Handlers :
    \/ Begin(h) \/ Retrieve(h) \/ Request(h) \/ Add(h) \/ Archive(h) \/ Find(h)
    \/ Revoke(h) \/ Delete(h) \/ Reply(h) \/ Kill(h)

Spec == Init /\ [][Next]_vars

--------------------------------------------------------------------------------
Quiet == ~scenario.faults /\ ~scenario.kills

\* A DELETE that succeeds has revoked every certificate that had been issued
\* for the host when it asked for them: also those that concurrent or failed
\* calls of get() left behind and nobody has cached (_revoke_certs()).
DeletedIsRevoked ==
  [][\A h \in Handlers :
       /\ At(h, "delete") /\ call[h].key \in Hosts
       /\ call'[h] # None /\ call'[h].result = "done"
       => call[h].known \subseteq revoked']_vars

\* While no remote call fails and no child is killed, a vault without data has
\* a child that is about to archive it, whatever is deleted in between
\* (the two remote calls of IPAVault.set()).
HalfMade ==
  Quiet =>
    \A v \in Vaults : vaults[v] = NoData =>
      \E h \in Handlers : At(h, "archive") /\ VaultFor(h) = v

\* While nothing is deleted, the secret in a vault stays what it is, though
\* keys may share the vault and vault_archive always replaces.
WrittenOnce ==
  [][\A k \in Keys : "cut" \notin scenario.operations /\ ~IsEmpty(VaultOf[k]) =>
       vaults'[VaultOf[k]] = vaults[VaultOf[k]]]_vars

\* While nothing is deleted and nothing fails, there are no more certificates
\* for a host than children: only calls that missed the cache together request
\* one each (get() of IPACertRequest).
RequestsBounded ==
  Quiet /\ "cut" \notin scenario.operations =>
    \A host \in Hosts : Cardinality(IssuedFor(host)) <= Cardinality(Handlers)

\* ipa/certrequest.py:180 says that a DELETE removes the pair and revokes the
\* certificate at the same time: with no DELETE under way, no pair whose
\* certificate was revoked is cached.
DocRemovedWhenRevoked ==
  (\A h \in Handlers : call[h] # None => call[h].op # "cut" \/ At(h, "done")) =>
    \A host \in Hosts : vaults[VaultOf[host]] \notin revoked
================================================================================
