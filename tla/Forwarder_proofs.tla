---------------------------- MODULE Forwarder_proofs ----------------------------
(***************************************************************************)
(* Proofs about Forwarder, for any number of servers, forwarders, requests *)
(* and restarts, and wherever the forwarders lead.                         *)
(***************************************************************************)
EXTENDS Forwarder, SequenceTheorems, FiniteSetTheorems, TLAPS

--------------------------------------------------------------------------------
(***************************************************************************)
(* What a step does to the chains.                                         *)
(***************************************************************************)

ChainOK(c) ==
  \A i \in DOMAIN c :
    /\ c[i].stage = "ended" <=> c[i].code # None
    /\ c[i].stage \notin {"queued", "ended"} => c[i].uuid # None
    /\ IF i = Len(c) THEN c[i].stage # "waiting" ELSE c[i].stage \in {"waiting", "ended"}

\* The hop of a child, or one in the queue, goes on.
Changed(c, d, i) ==
  /\ i \in DOMAIN c /\ d \in Seq(Hops) /\ Len(d) = Len(c)
  /\ \A j \in DOMAIN c : j # i => d[j] = c[j]
  /\ d[i].at = c[i].at /\ d[i].loop = c[i].loop
  /\ \/ d[i].uuid = c[i].uuid
     \/ c[i].stage = "queued" /\ d[i].uuid = UuidAt(c[i].at) /\ d[i].uuid[1] = c[i].at
  /\ d[i].stage = "ended" <=> d[i].code # None
  /\ d[i].stage \notin {"queued", "ended"} => d[i].uuid # None
  /\ d[i].stage # "waiting" /\ (i # Len(c) => d[i].stage = "ended")

LEMMA SetHop ==
  ASSUME TypeOK, NEW r \in Requests, NEW i \in DOMAIN chain[r], NEW hop \in Hops,
         chain' = [chain EXCEPT ![r] = [chain[r] EXCEPT ![i] = hop]]
  PROVE  /\ chain' \in [Requests -> Seq(Hops)]
         /\ \A q \in Requests : q # r => chain'[q] = chain[q]
         /\ chain'[r] \in Seq(Hops) /\ Len(chain'[r]) = Len(chain[r])
         /\ chain'[r][i] = hop
         /\ \A j \in DOMAIN chain[r] : j # i => chain'[r][j] = chain[r][j]
<1>1. chain[r] \in Seq(Hops) /\ DOMAIN chain[r] = 1..Len(chain[r])
  BY DEF TypeOK
<1>2. chain'[r] = [chain[r] EXCEPT ![i] = hop]
  BY DEF TypeOK
<1>3. /\ [chain[r] EXCEPT ![i] = hop] \in Seq(Hops)
      /\ Len([chain[r] EXCEPT ![i] = hop]) = Len(chain[r])
      /\ \A j \in 1..Len(chain[r]) :
           [chain[r] EXCEPT ![i] = hop][j] = IF j = i THEN hop ELSE chain[r][j]
  BY <1>1, ExceptSeq
<1> QED BY <1>1, <1>2, <1>3 DEF TypeOK

LEMMA EndChanges ==
  ASSUME TypeOK, NEW r \in Requests, NEW i \in DOMAIN chain[r], NEW code \in Codes,
         End(r, i, code)
  PROVE  /\ chain' \in [Requests -> Seq(Hops)] /\ Changed(chain[r], chain'[r], i)
         /\ \A q \in Requests : q # r => chain'[q] = chain[q]
         /\ chain'[r][i].code = code
<1> DEFINE hop == [chain[r][i] EXCEPT !.stage = "ended", !.code = code]
<1>1. chain[r] \in Seq(Hops) /\ chain[r][i] \in Hops
  BY DEF TypeOK
<1>2. hop \in Hops /\ hop.at = chain[r][i].at /\ hop.loop = chain[r][i].loop
      /\ hop.uuid = chain[r][i].uuid /\ hop.stage = "ended" /\ hop.code = code
  BY <1>1 DEF Hops, Stages
<1>3. chain' = [chain EXCEPT ![r] = [chain[r] EXCEPT ![i] = hop]]
  BY <1>1 DEF End, TypeOK, Hops
<1> HIDE DEF hop
<1> QED BY <1>2, <1>3, SetHop, NoneAssumption DEF Changed

LEMMA GotoChanges ==
  ASSUME TypeOK, NEW r \in Requests, NEW i \in DOMAIN chain[r], Stage(r, i) = "running",
         Goto(r, i, "acted")
  PROVE  /\ chain' \in [Requests -> Seq(Hops)] /\ Changed(chain[r], chain'[r], i)
         /\ \A q \in Requests : q # r => chain'[q] = chain[q]
         /\ chain'[r][i].code = None /\ chain'[r][i].stage = "acted"
<1> DEFINE hop == [chain[r][i] EXCEPT !.stage = "acted"]
<1>1. chain[r] \in Seq(Hops) /\ chain[r][i] \in Hops /\ HopOK(r, i)
  BY DEF TypeOK
<1>2. hop \in Hops /\ hop.at = chain[r][i].at /\ hop.loop = chain[r][i].loop
      /\ hop.uuid = chain[r][i].uuid /\ hop.stage = "acted" /\ hop.code = chain[r][i].code
  BY <1>1 DEF Hops, Stages
<1>3. chain' = [chain EXCEPT ![r] = [chain[r] EXCEPT ![i] = hop]]
  BY <1>1 DEF Goto, TypeOK, Hops
<1>4. hop.code = None /\ hop.uuid # None /\ IsLast(r, i)
  BY <1>1, <1>2 DEF HopOK, Stage
<1> HIDE DEF hop
<1> QED BY <1>2, <1>3, <1>4, SetHop DEF Changed, IsLast

\* A request that is refused as a loop is one, or was found to be one further on.
KnowsLoop(c, i) ==
  \/ c[i].uuid # None /\ c[i].uuid \in c[i].loop
  \/ \E k \in DOMAIN c : c[k].code = "loop"

\* The last hop passes its request on.
Grown(c, d) ==
  LET n == Len(c) IN
  /\ d \in Seq(Hops) /\ n > 0 /\ Len(d) = n + 1
  /\ \A j \in 1..(n - 1) : d[j] = c[j]
  /\ d[n].at = c[n].at /\ d[n].uuid = c[n].uuid /\ d[n].loop = c[n].loop
  /\ d[n].code = None /\ d[n].stage = "waiting"
  /\ c[n].uuid # None /\ c[n].uuid \notin c[n].loop /\ leads[c[n].at] # None
  /\ d[n + 1].uuid = None /\ d[n + 1].code = None /\ d[n + 1].stage = "queued"
  /\ d[n + 1].loop = c[n].loop \cup {c[n].uuid}

Started(c, d) ==
  /\ c = <<>> /\ d \in Seq(Hops) /\ Len(d) = 1
  /\ d[1].uuid = None /\ d[1].code = None /\ d[1].stage = "queued" /\ d[1].loop = {}

ChainStep(c, d) ==
  \/ c = d
  \/ \E i \in DOMAIN c : Changed(c, d, i) /\ (d[i].code = "loop" => KnowsLoop(c, i))
  \/ Grown(c, d)
  \/ Started(c, d)

ChainsStep ==
  /\ chain' \in [Requests -> Seq(Hops)]
  /\ \A r \in Requests : ChainStep(chain[r], chain'[r])

LEMMA NewHopType ==
  ASSUME NEW mount \in Mounts, NEW loop \in SUBSET Uuids
  PROVE  /\ NewHop(mount, loop) \in Hops
         /\ NewHop(mount, loop).loop = loop /\ NewHop(mount, loop).uuid = None
         /\ NewHop(mount, loop).code = None /\ NewHop(mount, loop).stage = "queued"
  BY DEF NewHop, Hops, Stages

LEMMA SendSteps ==
  ASSUME TypeOK, NEW r \in Requests, Send(r)
  PROVE  ChainsStep
<1>1. PICK mount \in Mounts : chain' = [chain EXCEPT ![r] = <<NewHop(mount, {})>>]
  BY DEF Send
<1>2. /\ NewHop(mount, {}) \in Hops
      /\ NewHop(mount, {}).loop = {} /\ NewHop(mount, {}).uuid = None
      /\ NewHop(mount, {}).code = None /\ NewHop(mount, {}).stage = "queued"
  BY NewHopType
<1>3. chain[r] = <<>> /\ chain'[r] = <<NewHop(mount, {})>>
  BY <1>1 DEF Send, TypeOK
<1>4. chain'[r] \in Seq(Hops) /\ Len(chain'[r]) = 1 /\ chain'[r][1] = NewHop(mount, {})
  BY <1>2, <1>3
<1>5. Started(chain[r], chain'[r])
  BY <1>2, <1>3, <1>4 DEF Started
<1> QED BY <1>1, <1>4, <1>5 DEF ChainsStep, ChainStep, TypeOK

LEMMA ForwardGrows ==
  ASSUME TypeOK, NEW r \in Requests, NEW i \in DOMAIN chain[r], Forward(r, i)
  PROVE  /\ chain' \in [Requests -> Seq(Hops)] /\ Grown(chain[r], chain'[r])
         /\ \A q \in Requests : q # r => chain'[q] = chain[q]
<1> DEFINE c == chain[r]
           hop == [c[i] EXCEPT !.stage = "waiting"]
           mid == [c EXCEPT ![i] = hop]
           next == NewHop(leads[c[i].at], Headers(r, i))
<1>1. /\ c \in Seq(Hops) /\ c[i] \in Hops /\ HopOK(r, i) /\ c[i].stage = "running"
      /\ i \in 1..Len(c)
  BY DEF TypeOK, Forward, Stage
<1>2. /\ i = Len(c) /\ c[i].uuid # None /\ c[i].code = None /\ c[i].uuid \notin c[i].loop
      /\ leads[c[i].at] # None
  BY <1>1 DEF HopOK, IsLast, Forward, InLoop, IsForwarder
<1>3. leads[c[i].at] \in Mounts /\ Headers(r, i) \in SUBSET Uuids
  <2>1. leads \in [Mounts -> Mounts \cup {None}] /\ c[i].at \in Mounts
    BY <1>1, ForwarderAssumption DEF TypeOK, Hops
  <2>2. c[i].uuid \in Uuids /\ c[i].loop \subseteq Uuids
    BY <1>1, <1>2 DEF Hops
  <2> QED BY <2>1, <2>2 DEF Forward, IsForwarder, Headers
<1>4. /\ next \in Hops /\ next.loop = c[i].loop \cup {c[i].uuid} /\ next.uuid = None
      /\ next.code = None /\ next.stage = "queued"
  BY <1>3, NewHopType DEF Headers
<1>5. /\ hop \in Hops /\ hop.at = c[i].at /\ hop.uuid = c[i].uuid /\ hop.loop = c[i].loop
      /\ hop.stage = "waiting" /\ hop.code = None
  BY <1>1, <1>2 DEF Hops, Stages
<1>6. chain' = [chain EXCEPT ![r] = Append(mid, next)]
  BY <1>1 DEF Forward, TypeOK, Hops
<1> HIDE DEF next, hop
<1>7. /\ mid \in Seq(Hops) /\ Len(mid) = Len(c)
      /\ \A j \in 1..Len(c) : mid[j] = IF j = i THEN hop ELSE c[j]
  BY <1>1, <1>5, ExceptSeq
<1> HIDE DEF mid
<1>8. /\ Append(mid, next) \in Seq(Hops) /\ Len(Append(mid, next)) = Len(c) + 1
      /\ \A j \in 1..Len(c) : Append(mid, next)[j] = mid[j]
      /\ Append(mid, next)[Len(c) + 1] = next
  BY <1>4, <1>7, AppendProperties
<1>9. chain'[r] = Append(mid, next) /\ chain' \in [Requests -> Seq(Hops)]
  BY <1>6, <1>8 DEF TypeOK
<1>10. Grown(c, chain'[r])
  <2>1. Len(c) \in Nat /\ Len(c) > 0
    BY <1>1
  <2>2. \A j \in 1..(Len(c) - 1) : chain'[r][j] = c[j]
    BY <1>2, <1>7, <1>8, <1>9, <2>1
  <2>3. chain'[r][Len(c)] = hop /\ chain'[r][Len(c) + 1] = next
    BY <1>2, <1>7, <1>8, <1>9, <2>1
  <2> QED BY <1>2, <1>4, <1>5, <1>8, <1>9, <2>1, <2>2, <2>3 DEF Grown
<1> QED BY <1>6, <1>9, <1>10 DEF TypeOK

LEMMA ForwardSteps ==
  ASSUME TypeOK, NEW r \in Requests, NEW i \in DOMAIN chain[r], Forward(r, i)
  PROVE  ChainsStep
  BY ForwardGrows DEF ChainsStep, ChainStep

\* One hop changes, and if it is told of a loop there is one.
LEMMA OneHop ==
  ASSUME TypeOK, NEW r \in Requests, NEW i \in DOMAIN chain[r],
         chain' \in [Requests -> Seq(Hops)], Changed(chain[r], chain'[r], i),
         \A q \in Requests : q # r => chain'[q] = chain[q],
         chain'[r][i].code = "loop" => KnowsLoop(chain[r], i)
  PROVE  ChainsStep
  BY DEF ChainsStep, ChainStep

LEMMA EndSteps ==
  ASSUME TypeOK, NEW r \in Requests, NEW i \in DOMAIN chain[r], NEW code \in Codes,
         End(r, i, code), code = "loop" => KnowsLoop(chain[r], i)
  PROVE  ChainsStep
  BY EndChanges, OneHop

LEMMA AcceptChanges ==
  ASSUME TypeOK, NEW r \in Requests, NEW i \in DOMAIN chain[r],
         Accept(r, i), ~End(r, i, "lost")
  PROVE  /\ chain' \in [Requests -> Seq(Hops)] /\ Changed(chain[r], chain'[r], i)
         /\ \A q \in Requests : q # r => chain'[q] = chain[q]
         /\ chain'[r][i].code = None /\ chain'[r][i].stage = "running"
<1> DEFINE hop ==
      [chain[r][i] EXCEPT !.stage = "running", !.uuid = UuidAt(chain[r][i].at)]
<1>1. /\ chain[r] \in Seq(Hops) /\ chain[r][i] \in Hops /\ HopOK(r, i)
      /\ chain[r][i].stage = "queued"
  BY DEF TypeOK, Accept, Stage
<1>2. chain[r][i].code = None /\ IsLast(r, i)
  BY <1>1 DEF HopOK
<1>3. /\ UuidAt(chain[r][i].at) \in Uuids /\ UuidAt(chain[r][i].at)[1] = chain[r][i].at
      /\ UuidAt(chain[r][i].at) # None
  <2>1. chain[r][i].at \in Mounts
    BY <1>1 DEF Hops
  <2>2. starts[ServerOf[chain[r][i].at]] \in Nat
    BY <2>1, ForwarderAssumption DEF TypeOK
  <2> QED BY <2>1, <2>2, NoneAssumption DEF UuidAt, Uuids
<1>4. /\ hop \in Hops /\ hop.at = chain[r][i].at /\ hop.loop = chain[r][i].loop
      /\ hop.uuid = UuidAt(chain[r][i].at) /\ hop.stage = "running" /\ hop.code = None
  BY <1>1, <1>2, <1>3 DEF Hops, Stages
<1>5. chain' = [chain EXCEPT ![r] = [chain[r] EXCEPT ![i] = hop]]
  BY <1>1 DEF Accept, TypeOK, Hops
<1> HIDE DEF hop
<1>6. /\ chain' \in [Requests -> Seq(Hops)] /\ chain'[r][i] = hop
      /\ \A q \in Requests : q # r => chain'[q] = chain[q]
      /\ chain'[r] \in Seq(Hops) /\ Len(chain'[r]) = Len(chain[r])
      /\ \A j \in DOMAIN chain[r] : j # i => chain'[r][j] = chain[r][j]
  BY <1>4, <1>5, SetHop
<1>7. Changed(chain[r], chain'[r], i)
  BY <1>1, <1>2, <1>3, <1>4, <1>6 DEF Changed, IsLast
<1> QED BY <1>4, <1>6, <1>7

LEMMA AcceptSteps ==
  ASSUME TypeOK, NEW r \in Requests, NEW i \in DOMAIN chain[r], Accept(r, i)
  PROVE  ChainsStep
<1>1. CASE End(r, i, "lost")
  BY <1>1, EndSteps DEF Codes
<1>2. CASE ~End(r, i, "lost")
  <2>1. chain'[r][i].code # "loop"
    BY <1>2, AcceptChanges, NoneAssumption DEF Codes
  <2> QED BY <1>2, <2>1, AcceptChanges, OneHop
<1> QED BY <1>1, <1>2

LEMMA ActSteps ==
  ASSUME TypeOK, NEW r \in Requests, NEW i \in DOMAIN chain[r], Act(r, i)
  PROVE  ChainsStep
  BY GotoChanges, OneHop, NoneAssumption DEF Act, Codes

LEMMA DetectLoopSteps ==
  ASSUME TypeOK, NEW r \in Requests, NEW i \in DOMAIN chain[r], DetectLoop(r, i)
  PROVE  ChainsStep
<1>1. HopOK(r, i) /\ chain[r][i].stage = "running"
  BY DEF TypeOK, DetectLoop, Stage
<1>2. KnowsLoop(chain[r], i)
  BY <1>1 DEF DetectLoop, InLoop, HopOK, KnowsLoop
<1> QED BY <1>2, EndSteps DEF DetectLoop, Codes

LEMMA RelaySteps ==
  ASSUME TypeOK, NEW r \in Requests, NEW i \in DOMAIN chain[r], Relay(r, i)
  PROVE  ChainsStep
<1>1. i + 1 \in DOMAIN chain[r]
  <2>1. HopOK(r, i) /\ chain[r][i].stage = "waiting" /\ chain[r] \in Seq(Hops)
    BY DEF TypeOK, Relay, Stage
  <2> QED BY <2>1 DEF HopOK, IsLast
<1>2. ChainsStep
  <2>1. chain[r][i + 1] \in Hops /\ HopOK(r, i + 1) /\ chain[r][i + 1].stage = "ended"
    BY <1>1 DEF TypeOK, Relay, Stage
  <2>2. chain[r][i + 1].code \in Codes
    BY <2>1 DEF HopOK, Hops
  <2>3. Relayed(chain[r][i + 1].code) \in Codes
    BY <2>2 DEF Relayed, Codes
  <2>4. Relayed(chain[r][i + 1].code) = "loop" => KnowsLoop(chain[r], i)
    BY <1>1 DEF Relayed, KnowsLoop
  <2> QED BY <2>3, <2>4, EndSteps DEF Relay
<1> QED BY <1>2

LEMMA OtherSteps ==
  ASSUME TypeOK, NEW r \in Requests, NEW i \in DOMAIN chain[r],
         Refuse(r, i) \/ Finish(r, i) \/ TimeOut(r, i) \/ Fail(r, i) \/ Kill(r, i)
  PROVE  ChainsStep
  BY EndSteps DEF Refuse, Finish, TimeOut, Fail, Kill, Codes

\* A connection in the queue is lost, and it is the last hop of its chain.
LostFromQueue(c, d) ==
  /\ Len(c) \in DOMAIN c /\ Changed(c, d, Len(c)) /\ c[Len(c)].stage = "queued"
  /\ d[Len(c)].stage = "ended" /\ d[Len(c)].code = "lost"

LEMMA RestartLoses ==
  ASSUME TypeOK, NEW server \in Servers, Restart(server), NEW r \in Requests
  PROVE  /\ chain'[r] \in Seq(Hops)
         /\ chain'[r] = chain[r] \/ LostFromQueue(chain[r], chain'[r])
<1> DEFINE lost(i) == Stage(r, i) = "queued" /\ ServerOf[chain[r][i].at] = server
           after(i) == IF lost(i)
                       THEN [chain[r][i] EXCEPT !.stage = "ended", !.code = "lost"]
                       ELSE chain[r][i]
<1>1. chain[r] \in Seq(Hops) /\ DOMAIN chain[r] = 1..Len(chain[r]) /\ Len(chain[r]) \in Nat
  BY DEF TypeOK
<1>2. chain'[r] = [i \in DOMAIN chain[r] |-> after(i)]
  BY DEF Restart
<1>3. ASSUME NEW i \in DOMAIN chain[r]
      PROVE  /\ after(i) \in Hops
             /\ after(i).at = chain[r][i].at /\ after(i).loop = chain[r][i].loop
             /\ after(i).uuid = chain[r][i].uuid
             /\ lost(i) => after(i).stage = "ended" /\ after(i).code = "lost"
  <2>1. chain[r][i] \in Hops
    BY <1>1
  <2> QED BY <2>1 DEF Hops, Stages, Codes
<1>4. chain'[r] \in Seq(Hops) /\ Len(chain'[r]) = Len(chain[r])
  <2>1. chain'[r] \in [1..Len(chain[r]) -> Hops]
    BY <1>1, <1>2, <1>3
  <2> QED BY <1>1, <2>1, SeqDef
<1>5. CASE \A i \in DOMAIN chain[r] : ~lost(i)
  <2>1. \A i \in 1..Len(chain[r]) : chain'[r][i] = chain[r][i]
    BY <1>1, <1>2, <1>5
  <2>2. chain'[r] = chain[r]
    BY <1>1, <1>4, <2>1, SeqEqual
  <2> QED BY <1>4, <2>2
<1>6. ASSUME NEW i \in DOMAIN chain[r], lost(i)
      PROVE  LostFromQueue(chain[r], chain'[r])
  <2>1. \A j \in DOMAIN chain[r] : j # Len(chain[r]) => ~lost(j)
    BY DEF TypeOK, HopOK, IsLast, Stage
  <2>2. i = Len(chain[r])
    BY <1>6, <2>1
  <2>3. chain'[r][i] = after(i)
    BY <1>2
  <2>4. \A j \in DOMAIN chain[r] : j # i => chain'[r][j] = chain[r][j]
    BY <1>2, <2>1, <2>2
  <2>5. /\ chain'[r][i].at = chain[r][i].at /\ chain'[r][i].loop = chain[r][i].loop
        /\ chain'[r][i].uuid = chain[r][i].uuid
        /\ chain'[r][i].stage = "ended" /\ chain'[r][i].code = "lost"
    BY <1>3, <1>6, <2>3
  <2>6. Changed(chain[r], chain'[r], i)
    BY <1>4, <2>2, <2>4, <2>5, NoneAssumption DEF Changed, Codes
  <2> QED BY <1>6, <2>2, <2>5, <2>6 DEF LostFromQueue, Stage
<1> QED BY <1>4, <1>5, <1>6

LEMMA RestartSteps ==
  ASSUME TypeOK, NEW server \in Servers, Restart(server)
  PROVE  ChainsStep
<1>1. chain' = [r \in Requests |-> chain'[r]]
  BY DEF Restart
<1>2. ASSUME NEW r \in Requests
      PROVE  chain'[r] \in Seq(Hops) /\ ChainStep(chain[r], chain'[r])
  <2>1. CASE chain'[r] = chain[r]
    BY <2>1, RestartLoses DEF ChainStep
  <2>2. CASE LostFromQueue(chain[r], chain'[r])
    <3>1. PICK i \in DOMAIN chain[r] : Changed(chain[r], chain'[r], i) /\ chain'[r][i].code = "lost"
      BY <2>2 DEF LostFromQueue
    <3> QED BY <3>1, RestartLoses DEF ChainStep
  <2> QED BY <2>1, <2>2, RestartLoses
<1> QED BY <1>1, <1>2 DEF ChainsStep

LEMMA EveryStep ==
  ASSUME TypeOK, Next
  PROVE  ChainsStep
<1>1. ASSUME NEW r \in Requests, Send(r) PROVE ChainsStep
  BY <1>1, SendSteps
<1>2. ASSUME NEW r \in Requests, NEW i \in DOMAIN chain[r], Progress(r, i)
      PROVE  ChainsStep
  BY <1>2, ActSteps, DetectLoopSteps, ForwardSteps, RelaySteps, OtherSteps DEF Progress
<1>3. ASSUME NEW r \in Requests, NEW i \in DOMAIN chain[r],
             Accept(r, i) \/ Fail(r, i) \/ Kill(r, i)
      PROVE  ChainsStep
  BY <1>3, AcceptSteps, OtherSteps
<1>4. ASSUME NEW server \in Servers, Restart(server) PROVE ChainsStep
  BY <1>4, RestartSteps
<1> QED BY <1>1, <1>2, <1>3, <1>4 DEF Next

LEMMA ChainOKStep ==
  ASSUME NEW c \in Seq(Hops), NEW d \in Seq(Hops), ChainOK(c), ChainStep(c, d)
  PROVE  ChainOK(d)
<1>1. CASE c = d
  BY <1>1
<1>2. ASSUME NEW k \in DOMAIN c, Changed(c, d, k) PROVE ChainOK(d)
  BY <1>2 DEF ChainOK, Changed
<1>3. ASSUME Grown(c, d) PROVE ChainOK(d)
  <2>1. Len(c) \in Nat /\ Len(c) > 0 /\ Len(d) = Len(c) + 1
        /\ DOMAIN d = 1..(Len(c) + 1) /\ DOMAIN c = 1..Len(c)
    BY <1>3 DEF Grown
  <2>2. ASSUME NEW j \in 1..(Len(c) - 1)
        PROVE  /\ d[j].stage = "ended" <=> d[j].code # None
               /\ d[j].stage \notin {"queued", "ended"} => d[j].uuid # None
               /\ d[j].stage \in {"waiting", "ended"}
    BY <1>3, <2>1 DEF Grown, ChainOK
  <2> QED BY <1>3, <2>1, <2>2 DEF Grown, ChainOK
<1>4. ASSUME Started(c, d) PROVE ChainOK(d)
  BY <1>4 DEF Started, ChainOK
<1> QED BY <1>1, <1>2, <1>3, <1>4 DEF ChainStep

\* Type correctness of the chains: in particular a hop that has passed its
\* request on, and no other, waits for the one after it.
THEOREM ChainsTypeCorrect == Spec => []TypeOK
<1>1. Init => TypeOK
  BY ForwarderAssumption DEF Init, TypeOK, HopOK
<1>2. ASSUME TypeOK, [Next]_vars PROVE TypeOK'
  <2>1. CASE UNCHANGED vars
    BY <1>2, <2>1 DEF vars, TypeOK, HopOK, IsLast
  <2>2. CASE Next
    <3>1. ChainsStep
      BY <1>2, <2>2, EveryStep
    <3>2. ASSUME NEW r \in Requests, NEW i \in DOMAIN chain'[r] PROVE HopOK(r, i)'
      <4>1. ChainOK(chain[r])
        BY <1>2 DEF TypeOK, HopOK, ChainOK, IsLast
      <4>2. ChainOK(chain'[r])
        BY <1>2, <3>1, <4>1, ChainOKStep DEF TypeOK, ChainsStep
      <4> QED BY <3>2, <4>2 DEF ChainOK, HopOK, IsLast
    <3>3. /\ leads' \in Topologies /\ acted' \in [Requests -> Nat]
          /\ starts' \in [Servers -> Nat] /\ \A s \in Servers : starts'[s] <= MaxStarts[s]
      <4>1. ASSUME NEW r \in Requests, NEW i \in DOMAIN chain[r], Act(r, i)
            PROVE  acted' \in [Requests -> Nat] /\ UNCHANGED <<leads, starts>>
        BY <1>2, <4>1 DEF Act, TypeOK
      <4>2. ASSUME NEW server \in Servers, Restart(server)
            PROVE  /\ UNCHANGED <<leads, acted>> /\ starts' \in [Servers -> Nat]
                   /\ \A s \in Servers : starts'[s] <= MaxStarts[s]
        <5>1. /\ starts \in [Servers -> Nat] /\ starts[server] < MaxStarts[server]
              /\ \A s \in Servers : starts[s] <= MaxStarts[s]
              /\ starts' = [starts EXCEPT ![server] = starts[server] + 1]
              /\ UNCHANGED <<leads, acted>>
          BY <1>2, <4>2 DEF Restart, TypeOK
        <5>2. MaxStarts[server] \in Nat
          BY ForwarderAssumption
        <5>3. starts' \in [Servers -> Nat]
          BY <5>1
        <5>4. ASSUME NEW s \in Servers PROVE starts'[s] <= MaxStarts[s]
          BY <5>1, <5>2
        <5> QED BY <5>1, <5>3, <5>4
      <4>3. ASSUME NEW r \in Requests, NEW i \in DOMAIN chain[r], ~Act(r, i),
                   Accept(r, i) \/ Progress(r, i) \/ Fail(r, i) \/ Kill(r, i)
            PROVE  UNCHANGED <<leads, starts, acted>>
        BY <4>3 DEF Progress, Accept, Refuse, Finish, DetectLoop, Forward, Relay,
                    TimeOut, Fail, Kill
      <4>4. ASSUME NEW r \in Requests, Send(r) PROVE UNCHANGED <<leads, starts, acted>>
        BY <4>4 DEF Send
      <4>5. \/ UNCHANGED <<leads, starts, acted>>
            \/ \E r \in Requests : \E i \in DOMAIN chain[r] : Act(r, i)
            \/ \E server \in Servers : Restart(server)
        BY <2>2, <4>3, <4>4 DEF Next
      <4> QED BY <1>2, <4>1, <4>2, <4>5 DEF TypeOK
    <3> QED BY <3>1, <3>2, <3>3 DEF ChainsStep, TypeOK
  <2> QED BY <1>2, <2>1, <2>2
<1> QED BY <1>1, <1>2, PTL DEF Spec

--------------------------------------------------------------------------------
(***************************************************************************)
(* What the marks of a request say of the way it came.                     *)
(***************************************************************************)

\* A mark is that of an earlier hop, and each forwarder left its own.
Marked(c) ==
  /\ \A i, j \in DOMAIN c : i < j => c[i].uuid \in c[j].loop
  /\ \A j \in DOMAIN c : \A mark \in c[j].loop : \E i \in 1..(j - 1) : c[i].uuid = mark
  /\ \A j \in 1..(Len(c) - 1) : c[j].uuid \notin c[j].loop
  /\ \A j \in DOMAIN c : c[j].uuid # None => c[j].uuid[1] = c[j].at

LoopReal(c) ==
  (\E k \in DOMAIN c : c[k].code = "loop") =>
    \E i, j \in DOMAIN c : i # j /\ c[i].at = c[j].at

MarksOK == \A r \in Requests : Marked(chain[r]) /\ LoopReal(chain[r])

LEMMA MarkedStep ==
  ASSUME NEW c \in Seq(Hops), NEW d \in Seq(Hops), ChainOK(c), Marked(c), ChainStep(c, d)
  PROVE  Marked(d)
<1>1. CASE c = d
  BY <1>1
<1>2. ASSUME NEW k \in DOMAIN c, Changed(c, d, k) PROVE Marked(d)
  <2>1. Len(c) \in Nat /\ DOMAIN c = 1..Len(c) /\ DOMAIN d = DOMAIN c /\ Len(d) = Len(c)
    BY <1>2 DEF Changed
  <2>2. \A j \in DOMAIN c : d[j].loop = c[j].loop /\ d[j].at = c[j].at
    BY <1>2 DEF Changed
  <2>3. \A j \in DOMAIN c : j # Len(c) => d[j].uuid = c[j].uuid
    BY <1>2, <2>1 DEF Changed, ChainOK
  <2>4. \A j \in DOMAIN c : d[j].uuid # None => d[j].uuid[1] = d[j].at
    BY <1>2, <2>2 DEF Changed, Marked
  <2>5. \A i, j \in DOMAIN d : i < j => d[i].uuid \in d[j].loop
    BY <2>1, <2>2, <2>3 DEF Marked
  <2>6. ASSUME NEW j \in 1..(Len(d) - 1) PROVE d[j].uuid \notin d[j].loop
    <3> DEFINE n == Len(c)
    <3>0. n \in Nat /\ j \in 1..(n - 1) /\ n = Len(c) /\ DOMAIN c = 1..n
      BY <2>1, <2>6
    <3> HIDE DEF n
    <3>1. j \in 1..(Len(c) - 1) /\ j \in DOMAIN c /\ j # Len(c)
      BY <3>0
    <3>2. d[j].uuid = c[j].uuid /\ d[j].loop = c[j].loop
      BY <2>2, <2>3, <3>1
    <3> QED BY <3>1, <3>2 DEF Marked
  <2>7. ASSUME NEW j \in DOMAIN d, NEW mark \in d[j].loop
        PROVE  \E i \in 1..(j - 1) : d[i].uuid = mark
    <3>1. PICK i \in 1..(j - 1) : c[i].uuid = mark
      BY <2>1, <2>2, <2>7 DEF Marked
    <3> QED BY <2>1, <2>3, <3>1
  <2> QED BY <2>1, <2>4, <2>5, <2>6, <2>7 DEF Marked
<1>3. ASSUME Grown(c, d) PROVE Marked(d)
  <2> DEFINE n == Len(c)
  <2>1. /\ n = Len(c) /\ n \in Nat \ {0} /\ DOMAIN c = 1..n
        /\ DOMAIN d = 1..(n + 1) /\ Len(d) = n + 1
    BY <1>3 DEF Grown
  <2>2. \A j \in 1..n : d[j].loop = c[j].loop /\ d[j].at = c[j].at /\ d[j].uuid = c[j].uuid
    BY <1>3, <2>1 DEF Grown
  <2>3. /\ d[n + 1].loop = c[n].loop \cup {c[n].uuid} /\ d[n + 1].uuid = None
        /\ c[n].uuid \notin c[n].loop
    BY <1>3 DEF Grown
  <2> HIDE DEF n
  <2>4. ASSUME NEW i \in 1..(n + 1), NEW j \in 1..(n + 1), i < j
        PROVE  d[i].uuid \in d[j].loop
    <3>1. CASE j = n + 1
      <4>1. i \in 1..n /\ (i = n \/ i < n) /\ n \in DOMAIN c
        BY <2>1, <2>4, <3>1
      <4> QED BY <2>1, <2>2, <2>3, <3>1, <4>1 DEF Marked
    <3>2. CASE j # n + 1
      <4>1. i \in 1..n /\ j \in 1..n
        BY <2>1, <2>4, <3>2
      <4> QED BY <2>1, <2>2, <2>4, <4>1 DEF Marked
    <3> QED BY <3>1, <3>2
  <2>5. ASSUME NEW j \in 1..(n + 1), NEW mark \in d[j].loop
        PROVE  \E i \in 1..(j - 1) : d[i].uuid = mark
    <3>1. CASE j \in 1..n
      <4>1. PICK i \in 1..(j - 1) : c[i].uuid = mark
        BY <2>1, <2>2, <2>5, <3>1 DEF Marked
      <4> QED BY <2>1, <2>2, <3>1, <4>1
    <3>2. CASE j = n + 1
      <4>1. CASE mark = c[n].uuid
        BY <2>1, <2>2, <3>2, <4>1
      <4>2. CASE mark \in c[n].loop
        <5>1. PICK i \in 1..(n - 1) : c[i].uuid = mark
          BY <2>1, <4>2 DEF Marked
        <5> QED BY <2>1, <2>2, <3>2, <5>1
      <4> QED BY <2>3, <2>5, <3>2, <4>1, <4>2
    <3> QED BY <2>1, <3>1, <3>2
  <2>6. ASSUME NEW j \in 1..n PROVE d[j].uuid \notin d[j].loop
    <3>1. j = n \/ j \in 1..(Len(c) - 1)
      BY <2>1
    <3> QED BY <2>2, <2>3, <3>1 DEF Marked
  <2>7. \A j \in 1..(n + 1) : d[j].uuid # None => d[j].uuid[1] = d[j].at
    <3>1. \A j \in 1..n : d[j].uuid # None => d[j].uuid[1] = d[j].at
      BY <2>1, <2>2 DEF Marked
    <3> QED BY <2>1, <2>3, <3>1
  <2> QED BY <2>1, <2>4, <2>5, <2>6, <2>7 DEF Marked
<1>4. ASSUME Started(c, d) PROVE Marked(d)
  BY <1>4 DEF Started, Marked
<1> QED BY <1>1, <1>2, <1>3, <1>4 DEF ChainStep

LEMMA LoopRealStep ==
  ASSUME NEW c \in Seq(Hops), NEW d \in Seq(Hops), Marked(c), LoopReal(c), ChainStep(c, d)
  PROVE  LoopReal(d)
<1>1. CASE c = d
  BY <1>1
<1>2. ASSUME NEW k \in DOMAIN c, Changed(c, d, k), d[k].code = "loop" => KnowsLoop(c, k)
      PROVE  LoopReal(d)
  <2>1. DOMAIN d = DOMAIN c /\ DOMAIN c = 1..Len(c) /\ Len(c) \in Nat
    BY <1>2 DEF Changed
  <2>2. \A j \in DOMAIN c : d[j].at = c[j].at
    BY <1>2 DEF Changed
  <2>3. ASSUME NEW l \in DOMAIN d, d[l].code = "loop"
        PROVE  \E i, j \in DOMAIN c : i # j /\ c[i].at = c[j].at
    <3>1. CASE \E m \in DOMAIN c : c[m].code = "loop"
      BY <3>1 DEF LoopReal
    <3>2. CASE ~\E m \in DOMAIN c : c[m].code = "loop"
      <4>1. c[k].uuid # None /\ c[k].uuid \in c[k].loop
        BY <1>2, <2>1, <2>3, <3>2 DEF Changed, KnowsLoop
      <4>2. PICK i \in 1..(k - 1) : c[i].uuid = c[k].uuid
        BY <4>1 DEF Marked
      <4>3. i \in DOMAIN c /\ i # k
        BY <2>1, <4>2
      <4> QED BY <4>1, <4>2, <4>3 DEF Marked
    <3> QED BY <3>1, <3>2
  <2> QED BY <2>1, <2>2, <2>3 DEF LoopReal
<1>3. ASSUME Grown(c, d) PROVE LoopReal(d)
  <2>1. Len(c) \in Nat \ {0} /\ DOMAIN c = 1..Len(c) /\ DOMAIN d = 1..(Len(c) + 1)
    BY <1>3 DEF Grown
  <2>2. \A j \in DOMAIN c : j \in DOMAIN d /\ d[j].at = c[j].at
    BY <1>3, <2>1 DEF Grown
  <2>3. ASSUME NEW k \in DOMAIN d, d[k].code = "loop" PROVE k \in DOMAIN c /\ c[k] = d[k]
    <3>1. k # Len(c) /\ k # Len(c) + 1
      BY <1>3, <2>3, NoneAssumption DEF Grown, Codes
    <3> QED BY <1>3, <2>1, <3>1 DEF Grown
  <2> QED BY <2>2, <2>3 DEF LoopReal
<1>4. ASSUME Started(c, d) PROVE LoopReal(d)
  BY <1>4, NoneAssumption DEF Started, LoopReal, Codes
<1> QED BY <1>1, <1>2, <1>3, <1>4 DEF ChainStep

LEMMA MarksInvariant == Spec => []MarksOK
<1>1. Init => MarksOK
  BY DEF Init, MarksOK, Marked, LoopReal
<1>2. ASSUME TypeOK, MarksOK, [Next]_vars PROVE MarksOK'
  <2>1. CASE UNCHANGED vars
    BY <1>2, <2>1 DEF vars, MarksOK
  <2>2. CASE Next
    <3> SUFFICES ASSUME NEW r \in Requests
                 PROVE  Marked(chain'[r]) /\ LoopReal(chain'[r])
      BY DEF MarksOK
    <3>1. /\ chain[r] \in Seq(Hops) /\ chain'[r] \in Seq(Hops)
          /\ ChainStep(chain[r], chain'[r])
      BY <1>2, <2>2, EveryStep DEF TypeOK, ChainsStep
    <3>2. ChainOK(chain[r]) /\ Marked(chain[r]) /\ LoopReal(chain[r])
      BY <1>2 DEF TypeOK, HopOK, ChainOK, IsLast, MarksOK
    <3> QED BY <3>1, <3>2, MarkedStep, LoopRealStep
  <2> QED BY <1>2, <2>1, <2>2
<1> QED BY <1>1, <1>2, ChainsTypeCorrect, PTL DEF Spec

\* However the forwarders lead to each other, none passes a request on twice
\* unless its server was started in between: it finds its mark in the headers.
THEOREM ForwardedOnce == Spec => []ForwardsOnce
<1>1. TypeOK /\ MarksOK => ForwardsOnce
  <2> SUFFICES ASSUME TypeOK, MarksOK, NEW r \in Requests,
                      NEW i \in 1..(Len(chain[r]) - 1), NEW j \in 1..(Len(chain[r]) - 1),
                      i # j
               PROVE  chain[r][i].uuid # chain[r][j].uuid
    BY DEF ForwardsOnce
  <2>1. /\ Len(chain[r]) \in Nat /\ DOMAIN chain[r] = 1..Len(chain[r])
        /\ i \in DOMAIN chain[r] /\ j \in DOMAIN chain[r]
    BY DEF TypeOK
  <2>2. i < j \/ j < i
    BY <2>1
  <2> QED BY <2>1, <2>2 DEF MarksOK, Marked
<1> QED BY <1>1, ChainsTypeCorrect, MarksInvariant, PTL

\* A client that is told of a loop sent a request that did come back to one of
\* the consumers it had been at: marks are of this chain, never of another.
THEOREM LoopsReal == Spec => []LoopsAreReal
<1>1. MarksOK => LoopsAreReal
  BY DEF MarksOK, LoopReal, LoopsAreReal
<1> QED BY <1>1, MarksInvariant, PTL

--------------------------------------------------------------------------------
(***************************************************************************)
(* How often a request can be passed on.                                   *)
(***************************************************************************)

\* A mark is of a start of the server of its mount; those who pass on are forwarders.
Origin(c) ==
  /\ \A i \in DOMAIN c :
       c[i].uuid # None => c[i].uuid \in {c[i].at} \X (1..starts[ServerOf[c[i].at]])
  /\ \A i \in 1..(Len(c) - 1) : leads[c[i].at] # None

Origins ==
  /\ \A s \in Servers : starts[s] >= 1
  /\ \A r \in Requests : Origin(chain[r])

LEMMA StartsStep ==
  ASSUME TypeOK, Next
  PROVE  /\ leads' = leads
         /\ \A s \in Servers :
              starts[s] \in Nat /\ starts'[s] \in Nat /\ starts'[s] >= starts[s]
<1>1. \A s \in Servers : starts[s] \in Nat
  BY DEF TypeOK
<1>2. CASE UNCHANGED <<leads, starts>>
  BY <1>1, <1>2
<1>3. ASSUME NEW server \in Servers, Restart(server)
      PROVE  leads' = leads /\ starts' = [starts EXCEPT ![server] = @ + 1]
  BY <1>3 DEF Restart
<1>4. ASSUME NEW r \in Requests, Send(r)
      PROVE  UNCHANGED <<leads, starts>>
  BY <1>4 DEF Send
<1>5. ASSUME NEW r \in Requests, NEW i \in DOMAIN chain[r],
             Accept(r, i) \/ Progress(r, i) \/ Fail(r, i) \/ Kill(r, i)
      PROVE  UNCHANGED <<leads, starts>>
  BY <1>5 DEF Accept, Progress, Refuse, Act, Finish, DetectLoop, Forward, Relay, TimeOut,
              Fail, Kill
<1>6. ASSUME NEW server \in Servers, Restart(server)
      PROVE  /\ leads' = leads
             /\ \A s \in Servers : starts'[s] \in Nat /\ starts'[s] >= starts[s]
  BY <1>1, <1>3, <1>6 DEF TypeOK
<1> QED BY <1>1, <1>2, <1>4, <1>5, <1>6 DEF Next

LEMMA OriginStep ==
  ASSUME TypeOK, Next, \A s \in Servers : starts[s] >= 1,
         NEW c \in Seq(Hops), NEW d \in Seq(Hops), Origin(c), ChainStep(c, d)
  PROVE  Origin(d)'
<1>1. /\ leads' = leads
      /\ \A s \in Servers : starts[s] \in Nat /\ starts'[s] \in Nat /\ starts'[s] >= starts[s]
  BY StartsStep
<1>2. ASSUME NEW m \in Mounts
      PROVE  /\ ServerOf[m] \in Servers /\ UuidAt(m) \in {m} \X (1..starts[ServerOf[m]])
             /\ {m} \X (1..starts[ServerOf[m]]) \subseteq {m} \X (1..starts'[ServerOf[m]])
  <2>1. ServerOf[m] \in Servers
    BY ForwarderAssumption
  <2> QED BY <1>1, <2>1 DEF UuidAt
<1>3. \A i \in DOMAIN c : c[i].at \in Mounts
  <2>1. \A i \in DOMAIN c : c[i] \in Hops
    OBVIOUS
  <2> QED BY <2>1 DEF Hops
<1>4. \A i \in DOMAIN c :
        c[i].uuid # None => c[i].uuid \in {c[i].at} \X (1..starts'[ServerOf[c[i].at]])
  BY <1>2, <1>3 DEF Origin
<1>5. \A i \in 1..(Len(c) - 1) : leads'[c[i].at] # None
  BY <1>1 DEF Origin
<1>6. CASE c = d
  BY <1>4, <1>5, <1>6 DEF Origin
<1>7. ASSUME NEW k \in DOMAIN c, Changed(c, d, k)
      PROVE  Origin(d)'
  <2>1. DOMAIN d = DOMAIN c /\ Len(d) = Len(c) /\ \A i \in DOMAIN c : d[i].at = c[i].at
    BY <1>7 DEF Changed
  <2>2. d[k].uuid = c[k].uuid \/ d[k].uuid = UuidAt(c[k].at)
    BY <1>7 DEF Changed
  <2>3. d[k].uuid # None => d[k].uuid \in {c[k].at} \X (1..starts'[ServerOf[c[k].at]])
    BY <1>2, <1>3, <1>4, <2>2
  <2>4. \A i \in DOMAIN c : i # k => d[i] = c[i]
    BY <1>7 DEF Changed
  <2>5. ASSUME NEW i \in DOMAIN d, d[i].uuid # None
        PROVE  d[i].uuid \in {d[i].at} \X (1..starts'[ServerOf[d[i].at]])
    <3>1. CASE i = k
      BY <2>1, <2>3, <2>5, <3>1
    <3>2. CASE i # k
      BY <1>4, <2>1, <2>4, <2>5, <3>2
    <3> QED BY <3>1, <3>2
  <2>6. \A i \in 1..(Len(d) - 1) : leads'[d[i].at] # None
    BY <1>5, <2>1
  <2> QED BY <2>5, <2>6 DEF Origin
<1>8. ASSUME Grown(c, d)
      PROVE  Origin(d)'
  <2> DEFINE n == Len(c)
  <2>1. /\ n \in Nat /\ n > 0 /\ Len(d) = n + 1 /\ DOMAIN c = 1..n /\ DOMAIN d = 1..(n + 1)
    BY <1>8 DEF Grown
  <2>2. /\ \A i \in 1..n : d[i].at = c[i].at /\ d[i].uuid = c[i].uuid
        /\ d[n + 1].uuid = None /\ leads[c[n].at] # None
    BY <1>8, <2>1 DEF Grown
  <2>3. \A i \in 1..n : leads'[d[i].at] # None
    BY <1>1, <1>5, <2>1, <2>2
  <2> QED BY <1>4, <2>1, <2>2, <2>3 DEF Origin
<1>9. ASSUME Started(c, d)
      PROVE  Origin(d)'
  BY <1>9 DEF Started, Origin
<1> QED BY <1>6, <1>7, <1>8, <1>9 DEF ChainStep

LEMMA OriginsInvariant == Spec => []Origins
<1>1. Init => Origins
  BY DEF Init, Origins, Origin
<1>2. ASSUME TypeOK, Origins, [Next]_vars PROVE Origins'
  <2>1. CASE UNCHANGED vars
    BY <1>2, <2>1 DEF vars, Origins, Origin
  <2>2. CASE Next
    <3>1. \A s \in Servers : starts'[s] >= 1
      BY <1>2, <2>2, StartsStep DEF Origins
    <3>2. ASSUME NEW r \in Requests
          PROVE  Origin(chain[r])'
      <4> PICK c, d : c = chain[r] /\ d = chain'[r]
        OBVIOUS
      <4>1. c \in Seq(Hops) /\ d \in Seq(Hops) /\ ChainStep(c, d) /\ Origin(c)
        BY <1>2, <2>2, EveryStep DEF TypeOK, ChainsStep, Origins
      <4>2. Origin(d)'
        BY <1>2, <2>2, <4>1, OriginStep DEF Origins
      <4> QED BY <4>2 DEF Origin
    <3> QED BY <3>1, <3>2 DEF Origins
  <2> QED BY <1>2, <2>1, <2>2
<1> QED BY <1>1, <1>2, ChainsTypeCorrect, PTL DEF Spec

LEMMA MarksFinite ==
  ASSUME IsFiniteSet(Mounts), TypeOK
  PROVE  IsFiniteSet(Marks)
<1> DEFINE F == {m \in Mounts : leads[m] # None}
           of == [m \in F |-> {m} \X (1..starts[ServerOf[m]])]
           family == {of[m] : m \in F}
<1>1. IsFiniteSet(F)
  BY FS_Subset
<1>2. of \in Surjection(F, family)
  BY DEF Surjection
<1>3. IsFiniteSet(family)
  BY <1>1, <1>2, FS_Surjection
<1>4. ASSUME NEW T \in family
      PROVE  IsFiniteSet(T)
  <2>1. PICK m \in F : T = {m} \X (1..starts[ServerOf[m]])
    OBVIOUS
  <2>2. starts[ServerOf[m]] \in Nat
    BY ForwarderAssumption DEF TypeOK
  <2>3. IsFiniteSet({m})
    BY FS_Singleton
  <2>4. IsFiniteSet(1..starts[ServerOf[m]])
    <3> PICK k \in Nat : k = starts[ServerOf[m]]
      BY <2>2
    <3>1. IsFiniteSet(1..k)
      BY FS_Interval
    <3> QED BY <3>1
  <2> QED BY <2>1, <2>3, <2>4, FS_Product
<1>5. Marks = UNION family
  BY DEF Marks
<1> HIDE DEF family
<1> QED BY <1>3, <1>4, <1>5, FS_UNION

LEMMA DifferentOnes ==
  ASSUME NEW S, IsFiniteSet(S), NEW n \in Nat, NEW f \in [1..n -> S],
         \A i, j \in 1..n : f[i] = f[j] => i = j
  PROVE  n <= Cardinality(S)
<1>1. IsFiniteSet(1..n) /\ Cardinality(1..n) = n
  BY FS_Interval
<1>2. Cardinality(S) \in Nat
  BY FS_CardinalityType
<1>3. CASE Cardinality(S) < n
  <2>1. PICK x, y \in 1..n : x # y /\ f[x] = f[y]
    BY <1>1, <1>3, FS_PigeonHole
  <2> QED BY <2>1
<1> QED BY <1>2, <1>3

\* A request cannot go round for longer than there are forwarders to mark it, once
\* for each start of their servers, wherever they lead: the marks of the hops that
\* passed it on differ, and each is one of a forwarder.
THEOREM HopsAreBounded ==
  ASSUME IsFiniteSet(Mounts)
  PROVE  Spec => []HopsBounded
<1>1. ASSUME TypeOK, MarksOK, ForwardsOnce, Origins
      PROVE  HopsBounded
  <2> SUFFICES ASSUME NEW r \in Requests
               PROVE  Len(chain[r]) <= Cardinality(Marks) + 1
    BY DEF HopsBounded
  <2>1. /\ chain[r] \in Seq(Hops) /\ Len(chain[r]) \in Nat
        /\ DOMAIN chain[r] = 1..Len(chain[r])
    BY <1>1 DEF TypeOK
  <2>2. IsFiniteSet(Marks) /\ Cardinality(Marks) \in Nat
    BY <1>1, MarksFinite, FS_CardinalityType
  <2>3. CASE Len(chain[r]) = 0
    BY <2>2, <2>3
  <2>4. CASE Len(chain[r]) # 0
    <3> DEFINE n == Len(chain[r]) - 1
               f == [i \in 1..n |-> chain[r][i].uuid]
    <3>1. /\ n \in Nat
          /\ \A i \in 1..n : i \in DOMAIN chain[r] /\ i + 1 \in DOMAIN chain[r] /\ i < i + 1
      BY <2>1, <2>4
    <3>2. ASSUME NEW i \in 1..n
          PROVE  chain[r][i].uuid \in Marks
      <4>1. chain[r][i].uuid \in chain[r][i + 1].loop
        BY <1>1, <3>1 DEF MarksOK, Marked
      <4>2. chain[r][i + 1].loop \subseteq Uuids /\ chain[r][i].at \in Mounts
        <5>1. chain[r][i] \in Hops /\ chain[r][i + 1] \in Hops
          BY <2>1, <3>1
        <5> QED BY <5>1 DEF Hops
      <4>3. chain[r][i].uuid # None
        BY <4>1, <4>2, NoneAssumption
      <4>4. /\ chain[r][i].uuid \in {chain[r][i].at} \X (1..starts[ServerOf[chain[r][i].at]])
            /\ leads[chain[r][i].at] # None
        BY <1>1, <3>1, <4>3 DEF Origins, Origin
      <4> QED BY <4>2, <4>4 DEF Marks
    <3>3. f \in [1..n -> Marks]
      BY <3>2
    <3>4. \A i, j \in 1..n : f[i] = f[j] => i = j
      BY <1>1 DEF ForwardsOnce
    <3> HIDE DEF f
    <3>5. n <= Cardinality(Marks)
      BY <2>2, <3>1, <3>3, <3>4, DifferentOnes
    <3> QED BY <2>1, <2>2, <2>4, <3>5
  <2> QED BY <2>3, <2>4
<1> QED
  BY <1>1, ChainsTypeCorrect, MarksInvariant, ForwardedOnce, OriginsInvariant, PTL

--------------------------------------------------------------------------------
(***************************************************************************)
(* What the codes of a chain say of what was done at its end.              *)
(***************************************************************************)

Refusals == {"refused", "loop"}

\* Once one hop is refused nobody is left who could act.
CodesTrue(c, a) ==
  /\ a \in {0, 1}
  /\ a = 1 => c # <<>> /\ c[Len(c)].stage \in {"acted", "ended"}
  /\ \A k \in DOMAIN c :
       /\ c[k].stage = "acted" => a = 1
       /\ c[k].code = "ok" => a = 1
       /\ c[k].code \in Refusals => a = 0 /\ c[Len(c)].stage = "ended"

Truths == \A r \in Requests : CodesTrue(chain[r], acted[r])

statusOf == [r \in Requests |-> StatusOf(r)]

LEMMA ChainBasics ==
  ASSUME TypeOK, NEW r \in Requests, NEW i \in DOMAIN chain[r]
  PROVE  /\ chain[r] \in Seq(Hops) /\ Len(chain[r]) \in Nat \ {0}
         /\ DOMAIN chain[r] = 1..Len(chain[r])
         /\ 1 \in DOMAIN chain[r] /\ Len(chain[r]) \in DOMAIN chain[r] /\ chain[r] # <<>>
         /\ chain[r][i] \in Hops /\ HopOK(r, i)
  BY DEF TypeOK

LEMMA CodesTrueEnd ==
  ASSUME NEW c \in Seq(Hops), NEW d \in Seq(Hops), NEW a, NEW i \in DOMAIN c,
         CodesTrue(c, a), Changed(c, d, i), d[i].stage = "ended",
         d[i].code = "ok" => a = 1,
         d[i].code \in Refusals => a = 0 /\ (i = Len(c) \/ c[Len(c)].stage = "ended")
  PROVE  CodesTrue(d, a)
<1>1. /\ Len(c) \in Nat \ {0} /\ Len(d) = Len(c) /\ DOMAIN c = 1..Len(c)
      /\ DOMAIN d = 1..Len(c) /\ Len(c) \in DOMAIN c
  BY DEF Changed
<1>2. \A k \in DOMAIN c : k # i => d[k] = c[k]
  BY DEF Changed
<1>3. d[Len(d)].stage \in {c[Len(c)].stage, "ended"}
  BY <1>1, <1>2
<1>4. a \in {0, 1} /\ (a = 1 => d # <<>> /\ d[Len(d)].stage \in {"acted", "ended"})
  BY <1>1, <1>3 DEF CodesTrue
<1>5. ASSUME NEW k \in DOMAIN d
      PROVE  /\ d[k].stage = "acted" => a = 1
             /\ d[k].code = "ok" => a = 1
             /\ d[k].code \in Refusals => a = 0 /\ d[Len(d)].stage = "ended"
  <2>1. CASE k = i
    BY <1>1, <1>2, <2>1
  <2>2. CASE k # i
    <3>1. d[k] = c[k] /\ k \in DOMAIN c
      BY <1>1, <1>2, <2>2
    <3> QED BY <1>1, <1>3, <3>1 DEF CodesTrue
  <2> QED BY <2>1, <2>2
<1> QED BY <1>4, <1>5 DEF CodesTrue

\* What a client is told follows from its own hop alone.
LEMMA StatusKept ==
  ASSUME NEW r, chain[r] # <<>>, chain'[r] # <<>>, chain'[r][1].code = chain[r][1].code
  PROVE  StatusOf(r)' = StatusOf(r)
  BY DEF StatusOf

LEMMA OnlyOne ==
  ASSUME TypeOK, NEW r \in Requests, \A q \in Requests : q # r => chain'[q] = chain[q]
  PROVE  statusOf' = [statusOf EXCEPT ![r] = StatusOf(r)']
<1>1. \A q \in Requests : q # r => StatusOf(q)' = StatusOf(q)
  BY DEF StatusOf
<1> QED BY <1>1 DEF statusOf

\* A hop ends, with a code that is true.
LEMMA EndMaps ==
  ASSUME TypeOK, Truths, NEW r \in Requests, NEW i \in DOMAIN chain[r], NEW code \in Codes,
         End(r, i, code), Stage(r, i) # "ended", UNCHANGED acted,
         code = "ok" => acted[r] = 1,
         code \in Refusals =>
           acted[r] = 0 /\ (i = Len(chain[r]) \/ chain[r][Len(chain[r])].stage = "ended")
  PROVE  Truths' /\ [Call!Next]_(Call!vars)
<1>1. /\ chain' \in [Requests -> Seq(Hops)] /\ Changed(chain[r], chain'[r], i)
      /\ \A q \in Requests : q # r => chain'[q] = chain[q]
      /\ chain'[r][i].code = code
  BY EndChanges
<1>2. /\ chain[r] \in Seq(Hops) /\ chain'[r] \in Seq(Hops) /\ chain[r] # <<>>
      /\ chain[r][i].code = None /\ 1 \in DOMAIN chain[r]
      /\ Len(chain'[r]) = Len(chain[r]) /\ chain'[r] # <<>>
  BY <1>1, ChainBasics DEF HopOK, Stage, Changed
<1>3. chain'[r][i].stage = "ended"
  BY <1>1, NoneAssumption DEF Changed
<1>4. CodesTrue(chain'[r], acted[r])
  <2>1. CodesTrue(chain[r], acted[r])
    BY DEF Truths
  <2> QED BY <1>1, <1>2, <1>3, <2>1, CodesTrueEnd
<1>5. Truths'
  BY <1>1, <1>4 DEF Truths
<1>6. statusOf' = [statusOf EXCEPT ![r] = StatusOf(r)']
  BY <1>1, OnlyOne
<1>7. CASE i # 1
  <2>1. chain'[r][1] = chain[r][1]
    BY <1>1, <1>2, <1>7 DEF Changed
  <2>2. StatusOf(r)' = StatusOf(r)
    BY <1>2, <2>1, StatusKept
  <2>3. statusOf' = statusOf
    BY <1>6, <2>2 DEF statusOf
  <2> QED BY <1>5, <2>3 DEF Call!vars, statusOf
<1>8. CASE i = 1
  <2>1. StatusOf(r) = "sent" /\ statusOf[r] = "sent"
    BY <1>2, <1>8 DEF StatusOf, statusOf
  <2>2. StatusOf(r)' = Relayed(code)
    BY <1>1, <1>2, <1>8, NoneAssumption DEF StatusOf
  <2>3. statusOf' = [statusOf EXCEPT ![r] = Relayed(code)]
    BY <1>6, <2>2
  <2>4. CASE code = "ok"
    <3>1. Call!Succeed(r)
      BY <2>1, <2>3, <2>4 DEF Call!Succeed, Relayed, statusOf
    <3> QED BY <1>5, <3>1 DEF Call!Next
  <2>5. CASE code \in Refusals
    <3>1. Relayed(code) \in {"refused", "loop"} /\ acted[r] = 0
      BY <2>5 DEF Relayed, Refusals
    <3>2. Call!Refuse(r)
      BY <2>1, <2>3, <3>1 DEF Call!Refuse, statusOf
    <3> QED BY <1>5, <3>2 DEF Call!Next
  <2>6. CASE code \in {"error", "lost"}
    <3>1. Relayed(code) = "error"
      BY <2>6 DEF Relayed
    <3>2. statusOf' = [q \in Requests |-> IF q \in {r} THEN "error" ELSE statusOf[q]]
      BY <2>3, <3>1 DEF statusOf
    <3>3. Call!Fail({r})
      BY <2>1, <3>2 DEF Call!Fail, statusOf
    <3> QED BY <1>5, <3>3 DEF Call!Next
  <2> QED BY <2>4, <2>5, <2>6 DEF Codes, Refusals
<1> QED BY <1>7, <1>8

LEMMA CodesTrueOn ==
  ASSUME NEW c \in Seq(Hops), NEW d \in Seq(Hops), NEW a, NEW b \in {0, 1},
         NEW i \in DOMAIN c, i = Len(c), CodesTrue(c, a), Changed(c, d, i),
         c[i].stage \notin {"acted", "ended"}, d[i].code = None,
         d[i].stage = "acted" <=> b = 1
  PROVE  CodesTrue(d, b) /\ a = 0
<1>1. /\ Len(c) \in Nat \ {0} /\ Len(d) = Len(c) /\ DOMAIN c = 1..Len(c)
      /\ DOMAIN d = 1..Len(c) /\ d # <<>>
  BY DEF Changed
<1>2. \A k \in DOMAIN c : k # i => d[k] = c[k]
  BY DEF Changed
<1>3. a = 0
  BY DEF CodesTrue
<1>4. \A k \in DOMAIN c : c[k].stage # "acted" /\ c[k].code # "ok" /\ c[k].code \notin Refusals
  BY <1>3 DEF CodesTrue
<1>5. None # "ok" /\ None \notin Refusals
  BY NoneAssumption DEF Codes, Refusals
<1>6. \A k \in DOMAIN d :
        /\ d[k].stage = "acted" => b = 1
        /\ d[k].code # "ok" /\ d[k].code \notin Refusals
  BY <1>1, <1>2, <1>4, <1>5
<1> QED BY <1>1, <1>3, <1>6 DEF CodesTrue

\* The last hop of a chain goes on, and no code changes.
LEMMA OnMaps ==
  ASSUME TypeOK, Truths, NEW r \in Requests, NEW i \in DOMAIN chain[r],
         Stage(r, i) \in {"queued", "running"},
         chain' \in [Requests -> Seq(Hops)], Changed(chain[r], chain'[r], i),
         \A q \in Requests : q # r => chain'[q] = chain[q],
         chain'[r][i].code = None, acted' \in [Requests -> {0, 1}],
         \A q \in Requests : q # r => acted'[q] = acted[q],
         chain'[r][i].stage = "acted" <=> acted'[r] = 1
  PROVE  Truths' /\ statusOf' = statusOf /\ acted[r] = 0
<1>1. /\ chain[r] \in Seq(Hops) /\ chain'[r] \in Seq(Hops) /\ chain[r] # <<>>
      /\ chain[r][i].code = None /\ 1 \in DOMAIN chain[r] /\ i = Len(chain[r])
      /\ Len(chain'[r]) = Len(chain[r]) /\ chain'[r] # <<>>
  BY ChainBasics DEF HopOK, IsLast, Stage, Changed
<1>2. CodesTrue(chain'[r], acted'[r]) /\ acted[r] = 0
  <2>1. CodesTrue(chain[r], acted[r])
    BY DEF Truths
  <2>2. acted'[r] \in {0, 1}
    OBVIOUS
  <2>3. chain[r][i].stage \notin {"acted", "ended"}
    BY DEF Stage
  <2> DEFINE c == chain[r]
             d == chain'[r]
             b == acted'[r]
  <2>4. /\ c \in Seq(Hops) /\ d \in Seq(Hops) /\ b \in {0, 1}
        /\ i \in DOMAIN c /\ i = Len(c) /\ CodesTrue(c, acted[r]) /\ Changed(c, d, i)
        /\ c[i].stage \notin {"acted", "ended"} /\ d[i].code = None
        /\ (d[i].stage = "acted" <=> b = 1)
    BY <1>1, <2>1, <2>2, <2>3
  <2> HIDE DEF c, d, b
  <2>5. CodesTrue(d, b) /\ acted[r] = 0
    BY <2>4, CodesTrueOn
  <2> QED BY <2>5 DEF d, b
<1>3. Truths'
  BY <1>2 DEF Truths
<1>4. chain'[r][1].code = chain[r][1].code
  BY <1>1 DEF Changed
<1>5. StatusOf(r)' = StatusOf(r)
  BY <1>1, <1>4, StatusKept
<1>6. statusOf' = [statusOf EXCEPT ![r] = StatusOf(r)']
  BY OnlyOne
<1>7. statusOf' = statusOf
  BY <1>5, <1>6 DEF statusOf
<1> QED BY <1>2, <1>3, <1>7

LEMMA AcceptMaps ==
  ASSUME TypeOK, Truths, NEW r \in Requests, NEW i \in DOMAIN chain[r], Accept(r, i)
  PROVE  Truths' /\ [Call!Next]_(Call!vars)
<1>1. Stage(r, i) = "queued" /\ UNCHANGED acted
  BY DEF Accept
<1>2. CASE End(r, i, "lost")
  BY <1>1, <1>2, EndMaps DEF Codes, Refusals
<1>3. CASE ~End(r, i, "lost")
  <2>1. /\ chain' \in [Requests -> Seq(Hops)] /\ Changed(chain[r], chain'[r], i)
        /\ \A q \in Requests : q # r => chain'[q] = chain[q]
        /\ chain'[r][i].code = None /\ chain'[r][i].stage = "running"
    BY <1>3, AcceptChanges
  <2>2. acted' \in [Requests -> {0, 1}] /\ acted[r] = 0
    <3>1. \A q \in Requests : acted[q] \in {0, 1}
      BY DEF Truths, CodesTrue
    <3>2. acted[r] # 1
      <4>1. CodesTrue(chain[r], acted[r]) /\ i = Len(chain[r])
        BY <1>1, ChainBasics DEF Truths, HopOK, IsLast, Stage
      <4> QED BY <1>1, <4>1 DEF CodesTrue, Stage
    <3> QED BY <1>1, <3>1, <3>2 DEF TypeOK
  <2>3. Truths' /\ statusOf' = statusOf
    BY <1>1, <2>1, <2>2, OnMaps
  <2> QED BY <1>1, <2>3 DEF Call!vars, statusOf
<1> QED BY <1>2, <1>3

LEMMA ActMaps ==
  ASSUME TypeOK, Truths, NEW r \in Requests, NEW i \in DOMAIN chain[r], Act(r, i)
  PROVE  Truths' /\ [Call!Next]_(Call!vars)
<1>1. Stage(r, i) = "running" /\ Goto(r, i, "acted") /\ acted' = [acted EXCEPT ![r] = @ + 1]
  BY DEF Act
<1>2. /\ chain' \in [Requests -> Seq(Hops)] /\ Changed(chain[r], chain'[r], i)
      /\ \A q \in Requests : q # r => chain'[q] = chain[q]
      /\ chain'[r][i].code = None /\ chain'[r][i].stage = "acted"
  BY <1>1, GotoChanges
<1>3. acted[r] = 0 /\ i = Len(chain[r])
  <2>1. CodesTrue(chain[r], acted[r]) /\ i = Len(chain[r])
    BY <1>1, ChainBasics DEF Truths, HopOK, IsLast, Stage
  <2> QED BY <1>1, <2>1 DEF CodesTrue, Stage
<1>4. acted' = [acted EXCEPT ![r] = 1] /\ acted'[r] = 1
  BY <1>1, <1>3 DEF TypeOK
<1>5. acted' \in [Requests -> {0, 1}]
  <2>1. \A q \in Requests : acted[q] \in {0, 1}
    BY DEF Truths, CodesTrue
  <2> QED BY <1>4, <2>1 DEF TypeOK
<1>6. Truths' /\ statusOf' = statusOf
  BY <1>1, <1>2, <1>4, <1>5, OnMaps DEF TypeOK
<1>7. statusOf[r] \in {"sent", "error"}
  <2>1. /\ chain[r] # <<>> /\ 1 \in DOMAIN chain[r] /\ chain[r][1].code \in Codes \cup {None}
    BY ChainBasics DEF Hops
  <2>2. chain[r][1].code # "ok" /\ chain[r][1].code \notin Refusals
    <3>1. CodesTrue(chain[r], acted[r])
      BY DEF Truths
    <3> QED BY <1>1, <1>3, <2>1, <3>1 DEF CodesTrue, Stage
  <2> QED BY <2>1, <2>2 DEF statusOf, StatusOf, Relayed, Codes, Refusals
<1>8. Call!Act(r)
  BY <1>3, <1>4, <1>6, <1>7 DEF Call!Act, statusOf
<1> QED BY <1>6, <1>8 DEF Call!Next

LEMMA SendMaps ==
  ASSUME TypeOK, Truths, NEW r \in Requests, Send(r)
  PROVE  Truths' /\ [Call!Next]_(Call!vars)
<1>1. PICK mount \in Mounts : chain' = [chain EXCEPT ![r] = <<NewHop(mount, {})>>]
  BY DEF Send
<1>2. chain[r] = <<>> /\ UNCHANGED acted /\ \A q \in Requests : q # r => chain'[q] = chain[q]
  BY <1>1 DEF Send, TypeOK
<1>3. /\ NewHop(mount, {}).code = None /\ NewHop(mount, {}).stage = "queued"
  BY NewHopType
<1>4. chain'[r] = <<NewHop(mount, {})>>
  BY <1>1 DEF TypeOK
<1>5. Len(chain'[r]) = 1 /\ DOMAIN chain'[r] = {1} /\ chain'[r][1].code = None
      /\ chain'[r][1].stage = "queued" /\ chain'[r] # <<>>
  BY <1>3, <1>4
<1>6. acted[r] = 0
  BY <1>2 DEF Truths, CodesTrue
<1>7. CodesTrue(chain'[r], acted[r])
  <2>1. None # "ok" /\ None \notin Refusals
    BY NoneAssumption DEF Codes, Refusals
  <2> QED BY <1>5, <1>6, <2>1 DEF CodesTrue
<1>8. Truths'
  BY <1>2, <1>7 DEF Truths
<1>9. StatusOf(r) = "idle" /\ StatusOf(r)' = "sent"
  BY <1>2, <1>5 DEF StatusOf
<1>10. statusOf' = [statusOf EXCEPT ![r] = "sent"] /\ statusOf[r] = "idle"
  BY <1>2, <1>9, OnlyOne DEF statusOf
<1>11. Call!Ask(r)
  BY <1>2, <1>10 DEF Call!Ask, statusOf
<1> QED BY <1>8, <1>11 DEF Call!Next

LEMMA CodesTrueGrown ==
  ASSUME NEW c \in Seq(Hops), NEW d \in Seq(Hops), NEW a, CodesTrue(c, a), Grown(c, d),
         c[Len(c)].stage = "running", c[Len(c)].code = None
  PROVE  CodesTrue(d, a) /\ d[1].code = c[1].code
<1> DEFINE n == Len(c)
<1>1. n = Len(c) /\ n \in Nat \ {0} /\ Len(d) = n + 1 /\ DOMAIN c = 1..n /\ DOMAIN d = 1..(n + 1)
  BY DEF Grown
<1>2. /\ \A j \in 1..(n - 1) : d[j] = c[j]
      /\ d[n].code = None /\ d[n].stage = "waiting"
      /\ d[n + 1].code = None /\ d[n + 1].stage = "queued"
  BY DEF Grown
<1>3. c[n].stage = "running" /\ c[n].code = None
  OBVIOUS
<1> HIDE DEF n
<1>4. n \in DOMAIN c
  BY <1>1
<1>5. a = 0
  BY <1>1, <1>3 DEF CodesTrue
<1>6. \A k \in DOMAIN c : c[k].stage # "acted" /\ c[k].code # "ok" /\ c[k].code \notin Refusals
  BY <1>1, <1>3, <1>5 DEF CodesTrue
<1>7. None # "ok" /\ None \notin Refusals
  BY NoneAssumption DEF Codes, Refusals
<1>8. ASSUME NEW k \in 1..(n + 1)
      PROVE  d[k].stage # "acted" /\ d[k].code # "ok" /\ d[k].code \notin Refusals
  <2>1. k \in 1..(n - 1) \/ k = n \/ k = n + 1
    BY <1>1
  <2>2. CASE k \in 1..(n - 1)
    <3>1. k \in DOMAIN c /\ d[k] = c[k]
      BY <1>1, <1>2, <2>2
    <3> QED BY <1>6, <3>1
  <2> QED BY <1>2, <1>7, <2>1, <2>2
<1>9. d[1].code = c[1].code
  <2>1. n = 1 \/ 1 \in 1..(n - 1)
    BY <1>1
  <2> QED BY <1>2, <1>3, <2>1
<1> QED BY <1>1, <1>5, <1>8, <1>9 DEF CodesTrue

LEMMA ForwardMaps ==
  ASSUME TypeOK, Truths, NEW r \in Requests, NEW i \in DOMAIN chain[r], Forward(r, i)
  PROVE  Truths' /\ [Call!Next]_(Call!vars)
<1>1. /\ chain' \in [Requests -> Seq(Hops)] /\ Grown(chain[r], chain'[r])
      /\ \A q \in Requests : q # r => chain'[q] = chain[q]
      /\ UNCHANGED acted
  BY ForwardGrows DEF Forward
<1>2. /\ chain[r] \in Seq(Hops) /\ chain'[r] \in Seq(Hops) /\ chain[r] # <<>>
      /\ i = Len(chain[r]) /\ chain[r][i].stage = "running" /\ chain[r][i].code = None
  BY <1>1, ChainBasics DEF Forward, HopOK, IsLast, Stage
<1>3. CodesTrue(chain'[r], acted[r]) /\ chain'[r][1].code = chain[r][1].code
  <2>1. CodesTrue(chain[r], acted[r])
    BY DEF Truths
  <2> QED BY <1>1, <1>2, <2>1, CodesTrueGrown
<1>4. Truths'
  BY <1>1, <1>3 DEF Truths
<1>5. chain'[r] # <<>>
  BY <1>1 DEF Grown
<1>6. StatusOf(r)' = StatusOf(r)
  BY <1>2, <1>3, <1>5, StatusKept
<1>7. statusOf' = [statusOf EXCEPT ![r] = StatusOf(r)']
  BY <1>1, OnlyOne
<1>8. statusOf' = statusOf
  BY <1>6, <1>7 DEF statusOf
<1> QED BY <1>1, <1>4, <1>8 DEF Call!vars, statusOf

\* Who refuses is the last hop, and nothing was done.
LEMMA RefuserKnows ==
  ASSUME TypeOK, Truths, NEW r \in Requests, NEW i \in DOMAIN chain[r],
         Stage(r, i) = "running"
  PROVE  acted[r] = 0 /\ i = Len(chain[r])
<1>1. CodesTrue(chain[r], acted[r]) /\ i = Len(chain[r])
  BY ChainBasics DEF Truths, HopOK, IsLast, Stage
<1> QED BY <1>1 DEF CodesTrue, Stage

LEMMA RelayMaps ==
  ASSUME TypeOK, Truths, NEW r \in Requests, NEW i \in DOMAIN chain[r], Relay(r, i)
  PROVE  Truths' /\ [Call!Next]_(Call!vars)
<1> DEFINE code == Relayed(chain[r][i + 1].code)
<1>1. i + 1 \in DOMAIN chain[r] /\ Stage(r, i) = "waiting" /\ UNCHANGED acted
  <2>1. HopOK(r, i) /\ chain[r][i].stage = "waiting" /\ chain[r] \in Seq(Hops)
    BY DEF TypeOK, Relay, Stage
  <2> QED BY <2>1 DEF HopOK, IsLast, Relay, Stage
<1>2. chain[r][i + 1].code \in Codes
  <2>1. chain[r][i + 1] \in Hops /\ HopOK(r, i + 1) /\ chain[r][i + 1].stage = "ended"
    BY <1>1, ChainBasics DEF Relay, Stage
  <2> QED BY <2>1 DEF HopOK, Hops
<1>3. code \in Codes /\ (code \in {"ok"} \cup Refusals => code = chain[r][i + 1].code)
  BY <1>2 DEF Relayed, Codes, Refusals
<1>4. CodesTrue(chain[r], acted[r])
  BY DEF Truths
<1>5. End(r, i, code)
  BY DEF Relay
<1> HIDE DEF code
<1>6. code = "ok" => acted[r] = 1
  BY <1>1, <1>3, <1>4 DEF CodesTrue
<1>7. code \in Refusals => acted[r] = 0 /\ chain[r][Len(chain[r])].stage = "ended"
  BY <1>1, <1>3, <1>4 DEF CodesTrue
<1> QED BY <1>1, <1>3, <1>5, <1>6, <1>7, EndMaps

LEMMA EndingMaps ==
  ASSUME TypeOK, Truths, NEW r \in Requests, NEW i \in DOMAIN chain[r],
         \/ Refuse(r, i) \/ Finish(r, i) \/ DetectLoop(r, i) \/ TimeOut(r, i)
         \/ Fail(r, i) \/ Kill(r, i)
  PROVE  Truths' /\ [Call!Next]_(Call!vars)
<1>1. CASE Refuse(r, i)
  <2>1. Stage(r, i) = "running" /\ End(r, i, "refused") /\ UNCHANGED acted
    BY <1>1 DEF Refuse
  <2> QED BY <2>1, RefuserKnows, EndMaps DEF Codes
<1>2. CASE DetectLoop(r, i)
  <2>1. Stage(r, i) = "running" /\ End(r, i, "loop") /\ UNCHANGED acted
    BY <1>2 DEF DetectLoop
  <2> QED BY <2>1, RefuserKnows, EndMaps DEF Codes
<1>3. CASE Finish(r, i)
  <2>1. Stage(r, i) = "acted" /\ End(r, i, "ok") /\ UNCHANGED acted
    BY <1>3 DEF Finish
  <2>2. acted[r] = 1
    BY <2>1 DEF Truths, CodesTrue, Stage
  <2> QED BY <2>1, <2>2, EndMaps DEF Codes, Refusals
<1>4. CASE TimeOut(r, i)
  <2>1. Stage(r, i) = "waiting" /\ End(r, i, "error") /\ UNCHANGED acted
    BY <1>4 DEF TimeOut
  <2> QED BY <2>1, EndMaps DEF Codes, Refusals
<1>5. CASE Fail(r, i)
  <2>1. Stage(r, i) # "ended" /\ End(r, i, "error") /\ UNCHANGED acted
    BY <1>5 DEF Fail
  <2> QED BY <2>1, EndMaps DEF Codes, Refusals
<1>6. CASE Kill(r, i)
  <2>1. Stage(r, i) # "ended" /\ End(r, i, "lost") /\ UNCHANGED acted
    BY <1>6 DEF Kill
  <2> QED BY <2>1, EndMaps DEF Codes, Refusals
<1> QED BY <1>1, <1>2, <1>3, <1>4, <1>5, <1>6

\* A restart fails all requests whose first hop was in the queue.
LEMMA RestartMaps ==
  ASSUME TypeOK, Truths, NEW server \in Servers, Restart(server)
  PROVE  Truths' /\ [Call!Next]_(Call!vars)
<1> DEFINE R == {r \in Requests : StatusOf(r)' # StatusOf(r)}
<1>1. UNCHANGED acted
  BY DEF Restart
<1>2. ASSUME NEW r \in Requests
      PROVE  /\ CodesTrue(chain'[r], acted[r])
             /\ \/ StatusOf(r)' = StatusOf(r)
                \/ StatusOf(r) = "sent" /\ StatusOf(r)' = "error"
  <2>1. CodesTrue(chain[r], acted[r])
    BY DEF Truths
  <2>2. CASE chain'[r] = chain[r]
    BY <2>1, <2>2 DEF StatusOf
  <2>3. CASE LostFromQueue(chain[r], chain'[r])
    <3> DEFINE n == Len(chain[r])
    <3>1. /\ n \in DOMAIN chain[r] /\ Changed(chain[r], chain'[r], n)
          /\ chain[r][n].stage = "queued"
          /\ chain'[r][n].stage = "ended" /\ chain'[r][n].code = "lost"
      BY <2>3 DEF LostFromQueue
    <3>2. /\ chain[r] \in Seq(Hops) /\ chain'[r] \in Seq(Hops)
          /\ 1 \in DOMAIN chain[r] /\ chain[r] # <<>> /\ chain'[r] # <<>>
          /\ chain[r][n].code = None
      BY <3>1, ChainBasics, RestartLoses DEF HopOK, Changed
    <3> HIDE DEF n
    <3>3. CodesTrue(chain'[r], acted[r])
      BY <2>1, <3>1, <3>2, CodesTrueEnd DEF Refusals
    <3>4. CASE n # 1
      <4>1. chain'[r][1].code = chain[r][1].code
        BY <3>1, <3>2, <3>4 DEF Changed
      <4> QED BY <3>2, <3>3, <4>1, StatusKept
    <3>5. CASE n = 1
      BY <3>1, <3>2, <3>3, <3>5, NoneAssumption DEF StatusOf, Relayed, Codes
    <3> QED BY <3>4, <3>5
  <2> QED BY <2>2, <2>3, RestartLoses
<1>3. Truths'
  BY <1>1, <1>2 DEF Truths
<1>4. statusOf' = [r \in Requests |-> IF r \in R THEN "error" ELSE statusOf[r]]
  <2>1. \A r \in Requests : StatusOf(r)' = IF r \in R THEN "error" ELSE StatusOf(r)
    BY <1>2
  <2> QED BY <2>1 DEF statusOf
<1>5. \A r \in R : statusOf[r] = "sent"
  BY <1>2 DEF statusOf
<1>6. R \in SUBSET Requests
  OBVIOUS
<1> HIDE DEF R
<1>7. Call!Fail(R)
  BY <1>1, <1>4, <1>5 DEF Call!Fail, statusOf
<1> QED BY <1>3, <1>6, <1>7 DEF Call!Next

\* What a client is told agrees with what is done to its request, now and later:
\* the chain of hops that _response() relays along implements RemoteCall.
THEOREM ForwarderKeepsPromise == Spec => Promise
<1>1. Init => Truths /\ Call!Init
  <2> SUFFICES ASSUME Init
               PROVE  Truths /\ Call!Init
    OBVIOUS
  <2>1. \A r \in Requests : chain[r] = <<>> /\ acted[r] = 0
    BY DEF Init
  <2>2. Truths
    BY <2>1 DEF Truths, CodesTrue
  <2>3. Call!Init
    BY <2>1 DEF Init, Call!Init, StatusOf
  <2> QED BY <2>2, <2>3
<1>2. TypeOK /\ Truths /\ [Next]_vars => Truths' /\ [Call!Next]_(Call!vars)
  <2> SUFFICES ASSUME TypeOK, Truths, [Next]_vars
               PROVE  Truths' /\ [Call!Next]_(Call!vars)
    OBVIOUS
  <2>1. CASE UNCHANGED vars
    <3>1. UNCHANGED <<chain, acted>>
      BY <2>1 DEF vars
    <3>2. statusOf' = statusOf
      BY <3>1 DEF statusOf, StatusOf
    <3> QED BY <3>1, <3>2 DEF Truths, Call!vars, statusOf
  <2>2. ASSUME NEW r \in Requests, NEW i \in DOMAIN chain[r],
               Accept(r, i) \/ Progress(r, i) \/ Fail(r, i) \/ Kill(r, i)
        PROVE  Truths' /\ [Call!Next]_(Call!vars)
    BY <2>2, AcceptMaps, ActMaps, ForwardMaps, RelayMaps, EndingMaps DEF Progress
  <2> QED BY <2>1, <2>2, SendMaps, RestartMaps DEF Next
<1> QED BY <1>1, <1>2, ChainsTypeCorrect, PTL DEF Spec, Promise, Call!Spec

=================================================================================
