------------------------------- MODULE Forwarder -------------------------------
(***************************************************************************)
(* Servers with Forwarder consumers (forwarder.py) that pass requests on   *)
(* to each other with CustodiaHTTPClient.  A request of a client becomes a *)
(* chain of hops: the connection to a server and the child that serves it, *)
(* which waits, if its consumer is a Forwarder, for the next hop to end or *)
(* for its timeout.  A server forks a bounded number of children and       *)
(* leaves further connections in the queue of its socket.                  *)
(***************************************************************************)
EXTENDS Naturals, Sequences, FiniteSets

CONSTANTS
  Servers,
  Mounts,       \* the consumers of all servers
  ServerOf,     \* where a mount is
  Topologies,   \* where the forward_uri of each mount leads, None if it is no Forwarder
  Requests,     \* of clients (a bound)
  MaxChildren,  \* max_children of socketserver.ForkingMixIn
  MaxStarts,    \* how often each server is started (a bound)
  None

ASSUME ForwarderAssumption ==
  /\ ServerOf \in [Mounts -> Servers]
  /\ Topologies \subseteq [Mounts -> Mounts \cup {None}]
  /\ MaxChildren \in Nat \ {0}
  /\ MaxStarts \in [Servers -> Nat \ {0}]
  /\ None \notin Mounts

VARIABLES
  leads,    \* one of Topologies
  starts,   \* which start of each server this is
  chain,    \* the hops of each request
  acted     \* how often a consumer at the end of a chain has acted on a request

vars == <<leads, starts, chain, acted>>

\* self.uuid: each start of a server makes new ones.
Uuids == Mounts \X Nat

Stages == {"queued", "running", "acted", "waiting", "ended"}

\* "refused" is any status that is no success, no server error and no 502;
\* "lost" is a connection that was closed without an answer.
Codes == {"ok", "refused", "loop", "error", "lost"}

\* loop is X-LOOP-CUSTODIA.
Hops ==
  [at : Mounts, loop : SUBSET Uuids, uuid : Uuids \cup {None}, stage : Stages,
   code : Codes \cup {None}]

ASSUME NoneAssumption == None \notin Codes /\ None \notin Uuids

IsLast(r, i) == i = Len(chain[r])

\* A hop that passed its request on does nothing but wait.
HopOK(r, i) ==
  LET hop == chain[r][i] IN
  /\ hop.stage = "ended" <=> hop.code # None
  /\ hop.stage \notin {"queued", "ended"} => hop.uuid # None
  /\ IF IsLast(r, i) THEN hop.stage # "waiting" ELSE hop.stage \in {"waiting", "ended"}

TypeOK ==
  /\ leads \in Topologies
  /\ starts \in [Servers -> Nat] /\ \A s \in Servers : starts[s] <= MaxStarts[s]
  /\ chain \in [Requests -> Seq(Hops)]
  /\ acted \in [Requests -> Nat]
  /\ \A r \in Requests : \A i \in DOMAIN chain[r] : HopOK(r, i)

Init ==
  /\ leads \in Topologies
  /\ starts = [s \in Servers |-> 1]
  /\ chain = [r \in Requests |-> <<>>]
  /\ acted = [r \in Requests |-> 0]

--------------------------------------------------------------------------------
NewHop(mount, loop) ==
  [at |-> mount, loop |-> loop, uuid |-> None, stage |-> "queued", code |-> None]

Stage(r, i) == chain[r][i].stage

IsForwarder(r, i) == leads[chain[r][i].at] # None

UuidAt(mount) == <<mount, starts[ServerOf[mount]]>>

AllHops == UNION {{r} \X DOMAIN chain[r] : r \in Requests}

IsChild(server, r, i) ==
  /\ Stage(r, i) \in {"running", "acted", "waiting"}
  /\ ServerOf[chain[r][i].at] = server
  /\ chain[r][i].uuid[2] = starts[server]

\* The children of the parent that runs now; those of an earlier one go on.
Children(server) == {hop \in AllHops : IsChild(server, hop[1], hop[2])}

Goto(r, i, stage) == chain' = [chain EXCEPT ![r][i].stage = stage]

End(r, i, code) ==
  chain' = [chain EXCEPT ![r][i].stage = "ended", ![r][i].code = code]

\* A client connects and sends its request.
Send(r) ==
  /\ chain[r] = <<>>
  /\ \E mount \in Mounts : chain' = [chain EXCEPT ![r] = <<NewHop(mount, {})>>]
  /\ UNCHANGED <<leads, starts, acted>>

\* The parent forks a child, also for a connection whose other end has given up;
\* then the request may have arrived, or not.
Accept(r, i) ==
  LET server == ServerOf[chain[r][i].at] IN
  /\ Stage(r, i) = "queued"
  /\ Cardinality(Children(server)) < MaxChildren
  /\ \/ chain' = [chain EXCEPT ![r][i].stage = "running",
                              ![r][i].uuid = UuidAt(chain[r][i].at)]
     \/ i > 1 /\ Stage(r, i - 1) = "ended" /\ End(r, i, "lost")
  /\ UNCHANGED <<leads, starts, acted>>

\* The pipeline or the consumer refuses the request.
Refuse(r, i) ==
  /\ Stage(r, i) = "running"
  /\ End(r, i, "refused")
  /\ UNCHANGED <<leads, starts, acted>>

\* A consumer that is no Forwarder does what was asked.
Act(r, i) ==
  /\ Stage(r, i) = "running" /\ ~IsForwarder(r, i)
  /\ acted' = [acted EXCEPT ![r] = @ + 1]
  /\ Goto(r, i, "acted")
  /\ UNCHANGED <<leads, starts>>

Finish(r, i) ==
  /\ Stage(r, i) = "acted"
  /\ End(r, i, "ok")
  /\ UNCHANGED <<leads, starts, acted>>

\* An exception becomes a 500; also when the next server cannot be reached.
Fail(r, i) ==
  /\ Stage(r, i) \in {"running", "acted"}
  /\ End(r, i, "error")
  /\ UNCHANGED <<leads, starts, acted>>

\* Broken: the forwarder's own mark is added before it is looked for.
InLoopTooLate(r, i) == chain[r][i].uuid \in chain[r][i].loop \cup {chain[r][i].uuid}

\* The mark of this forwarder is among those of the request.
InLoop(r, i) == chain[r][i].uuid \in chain[r][i].loop

DetectLoop(r, i) ==
  /\ Stage(r, i) = "running" /\ IsForwarder(r, i) /\ InLoop(r, i)
  /\ End(r, i, "loop")
  /\ UNCHANGED <<leads, starts, acted>>

\* Broken: the marks of earlier forwarders are replaced by the own one.
HeadersForget(r, i) == {chain[r][i].uuid}

Headers(r, i) == chain[r][i].loop \cup {chain[r][i].uuid}

\* Broken: the request is sent again.
ForwardRetries(r, i) ==
  /\ Stage(r, i) = "running" /\ IsForwarder(r, i) /\ ~InLoop(r, i)
  /\ chain' = [chain EXCEPT
       ![r] = Append(@, NewHop(leads[chain[r][i].at], Headers(r, i)))]
  /\ UNCHANGED <<leads, starts, acted>>

Forward(r, i) ==
  /\ Stage(r, i) = "running" /\ IsForwarder(r, i) /\ ~InLoop(r, i)
  /\ chain' = [chain EXCEPT
       ![r] = Append([@ EXCEPT ![i].stage = "waiting"],
                     NewHop(leads[chain[r][i].at], Headers(r, i)))]
  /\ UNCHANGED <<leads, starts, acted>>

\* Broken: the status of a reply is not looked at.
RelayedUnchecked(code) == IF code = "lost" THEN "error" ELSE "ok"

\* _response() passes a status on; a lost connection is an exception.
Relayed(code) == IF code = "lost" THEN "error" ELSE code

Relay(r, i) ==
  /\ Stage(r, i) = "waiting" /\ Stage(r, i + 1) = "ended"
  /\ End(r, i, Relayed(chain[r][i + 1].code))
  /\ UNCHANGED <<leads, starts, acted>>

\* Broken: the time is measured from when the next server takes the request.
TimeOutLate(r, i) ==
  /\ Stage(r, i) = "waiting" /\ Stage(r, i + 1) \notin {"queued", "ended"}
  /\ End(r, i, "error")
  /\ UNCHANGED <<leads, starts, acted>>

\* The exception of the timeout becomes a 500; the next hop is not told.
TimeOut(r, i) ==
  /\ Stage(r, i) = "waiting" /\ Stage(r, i + 1) # "ended"
  /\ End(r, i, "error")
  /\ UNCHANGED <<leads, starts, acted>>

Kill(r, i) ==
  /\ Stage(r, i) \in {"running", "acted", "waiting"}
  /\ End(r, i, "lost")
  /\ UNCHANGED <<leads, starts, acted>>

\* The parent ends and is started again: its socket and the queue are lost.
Restart(server) ==
  /\ starts[server] < MaxStarts[server]
  /\ starts' = [starts EXCEPT ![server] = @ + 1]
  /\ chain' = [r \in Requests |-> [i \in DOMAIN chain[r] |->
       IF Stage(r, i) = "queued" /\ ServerOf[chain[r][i].at] = server
       THEN [chain[r][i] EXCEPT !.stage = "ended", !.code = "lost"]
       ELSE chain[r][i]]]
  /\ UNCHANGED <<leads, acted>>

\* What a child does of itself, its timer included.
Progress(r, i) ==
  \/ Refuse(r, i) \/ Act(r, i) \/ Finish(r, i) \/ DetectLoop(r, i) \/ Forward(r, i)
  \/ Relay(r, i) \/ TimeOut(r, i)

Next ==
  \/ \E r \in Requests :
       \/ Send(r)
       \/ \E i \in DOMAIN chain[r] :
            Accept(r, i) \/ Progress(r, i) \/ Fail(r, i) \/ Kill(r, i)
  \/ \E server \in Servers : Restart(server)

Spec == Init /\ [][Next]_vars

\* Parents accept connections while they have children to spare, and children
\* run.  Each chain is finite, so that no hop is passed over forever.
FairSpec ==
  /\ Spec
  /\ \A r \in Requests :
       /\ WF_vars(\E i \in DOMAIN chain[r] : Accept(r, i))
       /\ WF_vars(\E i \in DOMAIN chain[r] : Progress(r, i))

--------------------------------------------------------------------------------
\* No forwarder passes a request on twice between two starts of its server,
\* through whatever others the request has come back to it.
ForwardsOnce ==
  \A r \in Requests : \A i, j \in 1..(Len(chain[r]) - 1) :
    i # j => chain[r][i].uuid # chain[r][j].uuid

\* A request is passed on as often as there are forwarders, at most, and once more
\* for each start of their servers: so many children can wait for it.
Marks == UNION {{m} \X (1..starts[ServerOf[m]]) : m \in {m \in Mounts : leads[m] # None}}

HopsBounded == \A r \in Requests : Len(chain[r]) <= Cardinality(Marks) + 1

\* A client is told of a loop only if its request came to one consumer twice.
LoopsAreReal ==
  \A r \in Requests : (\E k \in DOMAIN chain[r] : chain[r][k].code = "loop") =>
    \E i, j \in DOMAIN chain[r] : i # j /\ chain[r][i].at = chain[r][j].at

\* Seen by its clients, a number of servers that forward is one remote call.
StatusOf(r) ==
  CASE chain[r] = <<>> -> "idle"
    [] chain[r] # <<>> /\ chain[r][1].code = None -> "sent"
    [] OTHER -> Relayed(chain[r][1].code)

Call == INSTANCE RemoteCall WITH status <- [r \in Requests |-> StatusOf(r)]

\* What a client is told of a request agrees with what is done to it, now and
\* later: the statuses that Forwarder._response() relays are to be trusted, and
\* only a 500 or a lost connection leaves open whether the request is acted upon.
Promise == Call!Spec

\* Every request is answered and all its hops end, although children wait for
\* servers that have no child to spare before those that wait end (the timeout).
EveryCallEnds ==
  \A r \in Requests : chain[r] # <<>> ~> \A i \in DOMAIN chain[r] : Stage(r, i) = "ended"
================================================================================
