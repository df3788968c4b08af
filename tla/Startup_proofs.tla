---------------------------- MODULE Startup_proofs -----------------------------
(***************************************************************************)
(* A server never replaces a master key that rows were encrypted with, and *)
(* one that serves has all its plugins initialised: for any plugins,       *)
(* configurations and files, wherever references lead and whatever is      *)
(* killed.                                                                 *)
(***************************************************************************)
EXTENDS Startup, FiniteSetTheorems, TLAPS

Places == {"attach", "own", "bootstrap", "connect", "return"}

--------------------------------------------------------------------------------
(* Sequences.                                                              *)

LEMMA MembersOfTail ==
  ASSUME NEW S, NEW s \in Seq(S), s # <<>>
  PROVE  /\ Head(s) \in S /\ Tail(s) \in Seq(S)
         /\ Members(s) \subseteq S
         /\ Head(s) \in Members(s)
         /\ Members(s) = {Head(s)} \cup Members(Tail(s))
<1>1. /\ Head(s) \in S /\ Tail(s) \in Seq(S) /\ Len(s) \in Nat \ {0}
      /\ Len(Tail(s)) = Len(s) - 1 /\ Head(s) = s[1]
      /\ \A i \in 1..Len(Tail(s)) : Tail(s)[i] = s[i + 1]
      /\ \A i \in 1..Len(s) : s[i] \in S
  OBVIOUS
<1>2. Members(s) \subseteq S /\ Head(s) \in Members(s)
  BY <1>1 DEF Members
<1>3. Members(Tail(s)) \subseteq Members(s)
  BY <1>1 DEF Members
<1>4. ASSUME NEW i \in 1..Len(s)
      PROVE  s[i] \in {Head(s)} \cup Members(Tail(s))
  <2>1. CASE i = 1
    BY <1>1, <2>1
  <2>2. CASE i # 1
    <3>1. i - 1 \in 1..Len(Tail(s)) /\ Tail(s)[i - 1] = s[i]
      BY <1>1, <2>2
    <3> QED BY <3>1 DEF Members
  <2> QED BY <2>1, <2>2
<1> QED BY <1>1, <1>2, <1>3, <1>4 DEF Members

LEMMA MembersOfNone == Members(<<>>) = {}
  BY DEF Members

\* What a step at the top of the stack does not touch.
SetAt(s, at) == [s EXCEPT ![Len(s)].at = at]

LEMMA TopSet ==
  ASSUME NEW s \in Seq(Frames), s # <<>>, NEW at \in Places
  PROVE  /\ SetAt(s, at) \in Seq(Frames) /\ Len(SetAt(s, at)) = Len(s)
         /\ \A i \in 1..(Len(s) - 1) : SetAt(s, at)[i] = s[i]
         /\ SetAt(s, at)[Len(s)] = [plugin |-> s[Len(s)].plugin, at |-> at]
<1>1. Len(s) \in Nat \ {0} /\ Len(s) \in 1..Len(s)
      /\ \A i \in 1..Len(s) : s[i] \in Frames
  OBVIOUS
<1>2. [s[Len(s)] EXCEPT !.at = at] = [plugin |-> s[Len(s)].plugin, at |-> at]
      /\ [s[Len(s)] EXCEPT !.at = at] \in Frames
  BY <1>1 DEF Frames, Places
<1>3. SetAt(s, at) = [s EXCEPT ![Len(s)] = [s[Len(s)] EXCEPT !.at = at]]
  BY DEF SetAt
<1> QED BY <1>1, <1>2, <1>3

--------------------------------------------------------------------------------
(* What each phase of a start knows of the keys.                           *)

Creating == {"create", "generate", "write", "read"}
Later == {"finalize", "bind", "listen", "serving"}

\* An overlay has the key of its file.
HasKey(p) == config.kind[p] = "overlay" => proc.mkey[p] \in Keys

KeyInv ==
  /\ proc.phase \in {"generate", "write", "read"} => proc.todo # <<>> /\ IsOverlay
  /\ proc.phase \in Creating =>
       /\ Members(proc.todo) \subseteq Members(config.sections)
       /\ \A p \in Members(config.sections) \ Members(proc.todo) : HasKey(p)
  /\ proc.phase \in Later => \A p \in Members(config.sections) : HasKey(p)
  /\ proc.phase = "generate" => files[KeyFile] = "absent"
  /\ proc.phase = "write" => files[KeyFile] = "empty"
  /\ \A p \in Plugins : proc.mkey[p] \in Keys =>
       config.key[p] \in Files /\ files[config.key[p]] = proc.mkey[p]
  /\ RowsReadable

--------------------------------------------------------------------------------
(* What each phase of a start knows of the references.                     *)

\* A call of p's finalize_init() is at one of the places given.
InCall(p, places) ==
  \E i \in 1..Depth : proc.stack[i].plugin = p /\ proc.stack[i].at \in places

ToCome(p, places) == p \in Members(proc.todo) \/ InCall(p, places)

Untouched ==
  /\ proc.stack = <<>> /\ proc.store = [p \in Plugins |-> None]
  /\ proc.ipa = {} /\ ~proc.principal

WireInv ==
  /\ proc.phase \in {"options", "logging"} \cup Creating => Untouched
  /\ proc.phase \in {"bind", "listen", "serving"} => proc.stack = <<>> /\ proc.todo = <<>>
  /\ proc.phase \in Later =>
       /\ Members(proc.todo) \subseteq Members(config.sections)
       /\ \A p \in Plugins : proc.store[p] \in {None, config.store[p]}
       /\ \A p \in Members(config.sections) :
            /\ proc.store[p] = config.store[p] \/ ToCome(p, {"attach"})
            /\ config.kind[p] \in {"vault", "cert"} =>
                 p \in proc.ipa \/ ToCome(p, {"attach", "own"})
       /\ proc.ipa # {} => Ipa \in Members(config.sections)
       /\ Ipa \in Members(config.sections) =>
            proc.principal \/ ToCome(Ipa, {"attach", "own"})
       /\ proc.principal => proc.api = "ready" \/ InCall(Ipa, {"bootstrap"})

--------------------------------------------------------------------------------
(* Type correctness.                                                       *)

LEMMA ConfigTypes ==
  ASSUME NEW c \in Configs
  PROVE  /\ c.sections \in Seq(Plugins) /\ c.menus \in Seq(Plugins)
         /\ c.kind \in [Plugins -> Kinds] /\ c.stores \subseteq Plugins
         /\ c.store \in [Plugins -> Plugins \cup {None}]
         /\ c.key \in [Plugins -> Files \cup {None}]
         /\ c.autogen \in BOOLEAN /\ c.makedirs \in BOOLEAN
         /\ Members(c.menus) = Members(c.sections)
         /\ Members(c.sections) \subseteq Plugins
         /\ \A p \in Members(c.sections) :
              /\ c.kind[p] = "ipa" <=> p = Ipa
              /\ c.kind[p] = "overlay" => c.key[p] \in Files
<1>1. c \in Config /\ Members(c.menus) = Members(c.sections)
      /\ \A p \in Members(c.sections) :
              /\ c.kind[p] = "ipa" <=> p = Ipa
              /\ c.kind[p] = "overlay" => c.key[p] # None
  BY StartupAssumption
<1>2. /\ c.sections \in Seq(Plugins) /\ c.menus \in Seq(Plugins)
      /\ c.kind \in [Plugins -> Kinds] /\ c.stores \subseteq Plugins
      /\ c.store \in [Plugins -> Plugins \cup {None}]
      /\ c.key \in [Plugins -> Files \cup {None}]
      /\ c.autogen \in BOOLEAN /\ c.makedirs \in BOOLEAN
  BY <1>1 DEF Config
<1>3. Members(c.sections) \subseteq Plugins
  BY <1>2 DEF Members
<1> QED BY <1>1, <1>2, <1>3

LEMMA ProcessTypes ==
  ASSUME StartupTypeOK
  PROVE  /\ proc.phase \in Phases /\ proc.todo \in Seq(Plugins)
         /\ proc.stack \in Seq(Frames)
         /\ proc.store \in [Plugins -> Plugins \cup {None}]
         /\ proc.mkey \in [Plugins -> Keys \cup {None}]
         /\ proc.ipa \subseteq Plugins /\ proc.principal \in BOOLEAN
         /\ proc.api \in {"new", "ready"} /\ proc.remote \in BOOLEAN
         /\ proc.io \in BOOLEAN
  BY DEF StartupTypeOK, Process

LEMMA FreshProcess ==
  ASSUME NEW phase \in Phases
  PROVE  NewProcess(phase) \in Process
  BY DEF NewProcess, Process

\* A step of the process that leaves its disk alone.
LEMMA ProcessStep ==
  ASSUME StartupTypeOK, proc' \in Process, UNCHANGED <<config, Disk>>
  PROVE  StartupTypeOK'
  BY DEF StartupTypeOK, Disk

LEMMA PhaseStep ==
  ASSUME StartupTypeOK, NEW phase \in Phases, Goto(phase)
  PROVE  /\ proc' \in Process /\ proc'.phase = phase
         /\ proc'.todo = proc.todo /\ proc'.stack = proc.stack
         /\ proc'.store = proc.store /\ proc'.mkey = proc.mkey /\ proc'.ipa = proc.ipa
         /\ proc'.principal = proc.principal /\ proc'.api = proc.api
  BY DEF StartupTypeOK, Process, Goto

\* main() raises.
LEMMA FailStep ==
  ASSUME StartupTypeOK, Fail \/ IOError
  PROVE  /\ proc' \in Process /\ proc'.phase = "failed"
         /\ proc'.todo = proc.todo /\ proc'.stack = proc.stack
         /\ proc'.store = proc.store /\ proc'.mkey = proc.mkey /\ proc'.ipa = proc.ipa
         /\ proc'.principal = proc.principal /\ proc'.api = proc.api
         /\ IOError => proc'.io
<1>1. CASE Fail
  <2>1. IOError => proc'.io
    BY DEF IOError, StartupTypeOK, Process
  <2> QED BY <1>1, <2>1, PhaseStep DEF Fail, Phases, Ended
<1>2. CASE IOError
  BY <1>2 DEF IOError, StartupTypeOK, Process, Phases, Ended
<1> QED BY <1>1, <1>2

\* The first stage.
LEMMA CreationTypes ==
  ASSUME StartupTypeOK, KeyInv,
         ReadConfig \/ SetupLogging \/ CreatePlugin \/ CreateKeyFile \/ WriteKey
           \/ ReadKey \/ AllCreated \/ Unlink \/ Listen
  PROVE  StartupTypeOK'
<1> USE ProcessTypes
<1>0. config \in Configs
  BY DEF StartupTypeOK
<1>1. CASE ReadConfig
  <2>1. proc' \in Process
    BY <1>1, PhaseStep, FailStep DEF ReadConfig, Phases
  <2>2. dirs' \in BOOLEAN
    BY <1>0, <1>1, ConfigTypes DEF ReadConfig, StartupTypeOK
  <2> QED BY <1>1, <2>1, <2>2 DEF ReadConfig, StartupTypeOK
<1>2. CASE SetupLogging
  <2>1. proc' \in Process
    <3>1. CASE Fail \/ IOError
      BY <3>1, FailStep
    <3>2. CASE proc' = [proc EXCEPT !.phase = "create", !.todo = config.sections]
      BY <1>0, <3>2, ConfigTypes DEF StartupTypeOK, Process, Phases
    <3> QED BY <1>2, <3>1, <3>2 DEF SetupLogging
  <2> QED BY <1>2, <2>1, ProcessStep DEF SetupLogging
<1>3. CASE CreatePlugin
  <2>1. proc' \in Process
    <3>1. CASE Fail \/ IOError
      BY <3>1, FailStep
    <3>2. CASE proc' = [proc EXCEPT !.todo = Tail(@)]
      BY <1>3, <3>2, MembersOfTail DEF StartupTypeOK, Process, CreatePlugin
    <3>3. CASE Goto("generate") \/ Goto("read")
      BY <3>3, PhaseStep DEF Phases
    <3> QED BY <1>3, <3>1, <3>2, <3>3 DEF CreatePlugin
  <2> QED BY <1>3, <2>1, ProcessStep DEF CreatePlugin
<1>4. CASE CreateKeyFile
  <2>1. proc' \in Process
    BY <1>4, PhaseStep, FailStep DEF CreateKeyFile, Phases
  <2> QED BY <1>4, <2>1 DEF CreateKeyFile, StartupTypeOK
<1>5. CASE WriteKey
  <2>1. proc' \in Process
    BY <1>5, PhaseStep, FailStep DEF WriteKey, Phases
  <2> QED BY <1>5, <2>1 DEF WriteKey, StartupTypeOK
<1>6. CASE ReadKey
  <2>1. proc' \in Process
    <3>1. CASE Fail \/ IOError
      BY <3>1, FailStep
    <3>2. CASE /\ files[KeyFile] \in Keys
               /\ proc' = [proc EXCEPT !.mkey[Section] = files[KeyFile],
                                       !.phase = "create", !.todo = Tail(@)]
      <4>1. Tail(proc.todo) \in Seq(Plugins)
        BY <1>6, MembersOfTail DEF ReadKey, KeyInv
      <4>2. [proc.mkey EXCEPT ![Section] = files[KeyFile]] \in [Plugins -> Keys \cup {None}]
        BY <3>2
      <4> QED BY <3>2, <4>1, <4>2 DEF StartupTypeOK, Process, Phases
    <3> QED BY <1>6, <3>1, <3>2 DEF ReadKey
  <2> QED BY <1>6, <2>1, ProcessStep DEF ReadKey
<1>7. CASE AllCreated
  <2>1. proc' \in Process
    BY <1>0, <1>7, ConfigTypes DEF AllCreated, StartupTypeOK, Process, Phases
  <2> QED BY <1>7, <2>1, ProcessStep DEF AllCreated
<1>8. CASE Unlink
  <2>1. proc' \in Process
    BY <1>8, PhaseStep DEF Unlink, Phases
  <2> QED BY <1>8, <2>1 DEF Unlink, StartupTypeOK
<1>9. CASE Listen
  <2>1. proc' \in Process
    BY <1>9, PhaseStep, FailStep DEF Listen, Phases
  <2> QED BY <1>9, <2>1 DEF Listen, StartupTypeOK
<1> QED BY <1>1, <1>2, <1>3, <1>4, <1>5, <1>6, <1>7, <1>8, <1>9

\* The process is started, or gone.
LEMMA LifeTypes ==
  ASSUME StartupTypeOK, KeyInv, Start \/ Store \/ Stop \/ Kill \/ Repair
  PROVE  StartupTypeOK'
<1>1. CASE Start
  BY <1>1, FreshProcess DEF Start, Phases, StartupTypeOK, Disk
<1>2. CASE Store
  <2>1. PICK p \in Members(config.sections) :
          /\ config.kind[p] = "overlay"
          /\ rows' = [rows EXCEPT ![config.key[p]] = @ \cup {proc.mkey[p]}]
    BY <1>2 DEF Store
  <2>2. proc.mkey[p] \in Keys
    BY <1>2, <2>1 DEF Store, KeyInv, Later, HasKey
  <2>3. rows' \in [Files -> SUBSET Keys]
    BY <2>1, <2>2 DEF StartupTypeOK
  <2> QED BY <1>2, <2>3 DEF Store, StartupTypeOK
<1>3. CASE Stop \/ Kill
  <2>1. proc' \in Process
    BY <1>3, FreshProcess DEF Stop, Kill, Phases, Ended
  <2>2. socket' \in {"none", "bound", "stale"}
    BY <1>3 DEF Stop, Kill, StartupTypeOK
  <2> QED BY <1>3, <2>1, <2>2 DEF Stop, Kill, StartupTypeOK
<1>4. CASE Repair
  <2>1. proc' \in Process
    BY <1>4, FreshProcess DEF Repair, Phases, Ended
  <2>2. files' \in [Files -> Keys \cup {"absent", "empty"}]
    BY <1>4 DEF Repair, StartupTypeOK
  <2> QED BY <1>4, <2>1, <2>2 DEF Repair, StartupTypeOK
<1> QED BY <1>1, <1>2, <1>3, <1>4

--------------------------------------------------------------------------------
(* A step of finalize_init() is at the top of the stack.                   *)

\* The calls below the one at the top stay where they are.
Below ==
  /\ proc'.stack \in Seq(Frames) /\ Len(proc'.stack) >= Depth - 1
  /\ \A i \in 1..(Depth - 1) : proc'.stack[i] = proc.stack[i]

LEMMA TopFrame ==
  ASSUME StartupTypeOK, proc.stack # <<>>
  PROVE  /\ Depth \in Nat \ {0} /\ Top \in Frames /\ Top.plugin \in Plugins
         /\ Top.at \in Places
         /\ Top.at = "attach" \/ Top.at = "own" \/ Top.at = "bootstrap"
              \/ Top.at = "connect" \/ Top.at = "return"
<1>1. Depth \in Nat \ {0} /\ Top \in Frames
  BY ProcessTypes DEF Depth, Top
<1> QED BY <1>1 DEF Frames, Places

LEMMA Pushed ==
  ASSUME NEW s \in Seq(Frames), NEW f \in Frames
  PROVE  /\ Append(s, f) \in Seq(Frames) /\ Len(Append(s, f)) = Len(s) + 1
         /\ \A i \in 1..Len(s) : Append(s, f)[i] = s[i]
         /\ Append(s, f)[Len(s) + 1] = f
  OBVIOUS

LEMMA Popped ==
  ASSUME NEW s \in Seq(Frames), s # <<>>
  PROVE  /\ SubSeq(s, 1, Len(s) - 1) \in Seq(Frames)
         /\ Len(SubSeq(s, 1, Len(s) - 1)) = Len(s) - 1
         /\ \A i \in 1..(Len(s) - 1) : SubSeq(s, 1, Len(s) - 1)[i] = s[i]
  OBVIOUS

\* What a call of p, by the one at the top, leaves and changes.
SameButStack(a, b) ==
  /\ a.phase = b.phase /\ a.todo = b.todo /\ a.store = b.store /\ a.mkey = b.mkey
  /\ a.ipa = b.ipa /\ a.principal = b.principal /\ a.api = b.api

LEMMA Called ==
  ASSUME NEW STATE process, process \in Process, StartupTypeOK, proc.stack # <<>>,
         process.stack = proc.stack, Depth # MaxDepth,
         NEW STATE at, at \in Places, NEW STATE p, p \in Plugins
  PROVE  /\ Call(process, at, p) \in Process
         /\ SameButStack(Call(process, at, p), process)
         /\ Len(Call(process, at, p).stack) = Depth + 1
         /\ \A i \in 1..(Depth - 1) : Call(process, at, p).stack[i] = proc.stack[i]
         /\ Call(process, at, p).stack[Depth] = [plugin |-> Top.plugin, at |-> at]
         /\ Call(process, at, p).stack[Depth + 1] = [plugin |-> p, at |-> "attach"]
<1> DEFINE next == Call(process, at, p)
<1> DEFINE f == [plugin |-> p, at |-> "attach"]
<1> DEFINE s == Append(SetAt(proc.stack, at), f)
<1>1. f \in Frames /\ proc.stack \in Seq(Frames) /\ Depth \in Nat \ {0}
  BY ProcessTypes, TopFrame DEF Frames
<1>2. /\ SetAt(proc.stack, at) \in Seq(Frames) /\ Len(SetAt(proc.stack, at)) = Depth
      /\ \A i \in 1..(Depth - 1) : SetAt(proc.stack, at)[i] = proc.stack[i]
      /\ SetAt(proc.stack, at)[Depth] = [plugin |-> Top.plugin, at |-> at]
  BY <1>1, TopSet DEF Depth, Top
<1>3. /\ s \in Seq(Frames) /\ Len(s) = Depth + 1
      /\ \A i \in 1..Depth : s[i] = SetAt(proc.stack, at)[i]
      /\ s[Depth + 1] = f
  BY <1>1, <1>2, Pushed
<1>4. next = [process EXCEPT !.stack = s]
  BY DEF Call, SetAt, Depth
<1>5. Depth \in 1..Depth /\ \A i \in 1..(Depth - 1) : i \in 1..Depth
  BY <1>1
<1> HIDE DEF s, f, next
<1>7. next.stack = s /\ next \in Process /\ SameButStack(next, process)
  BY <1>3, <1>4 DEF Process, SameButStack
<1>8. s[Depth] = [plugin |-> Top.plugin, at |-> at]
  BY <1>2, <1>3, <1>5
<1>9. \A i \in 1..(Depth - 1) : s[i] = proc.stack[i]
  BY <1>2, <1>3, <1>5
<1>10. /\ next \in Process /\ SameButStack(next, process) /\ Len(next.stack) = Depth + 1
       /\ next.stack[Depth] = [plugin |-> Top.plugin, at |-> at]
       /\ next.stack[Depth + 1] = f
       /\ \A i \in 1..(Depth - 1) : next.stack[i] = proc.stack[i]
  BY <1>3, <1>7, <1>8, <1>9
<1> QED BY <1>10 DEF next, f

LEMMA PlaceSet ==
  ASSUME StartupTypeOK, proc.stack # <<>>, NEW at \in Places, At(at)
  PROVE  /\ proc' \in Process /\ SameButStack(proc', proc)
         /\ Len(proc'.stack) = Depth
         /\ \A i \in 1..(Depth - 1) : proc'.stack[i] = proc.stack[i]
         /\ proc'.stack[Depth] = [plugin |-> Top.plugin, at |-> at]
<1> DEFINE s == SetAt(proc.stack, at)
<1>1. /\ s \in Seq(Frames) /\ Len(s) = Depth
      /\ \A i \in 1..(Depth - 1) : s[i] = proc.stack[i]
      /\ s[Depth] = [plugin |-> Top.plugin, at |-> at]
  BY ProcessTypes, TopSet DEF Depth, Top
<1>2. proc' = [proc EXCEPT !.stack = s]
  BY DEF At, SetAt, Depth
<1> HIDE DEF s
<1> QED BY <1>1, <1>2 DEF StartupTypeOK, Process, SameButStack

\* A step of the call at the top.
TopStep ==
  /\ proc.phase = "finalize" /\ proc.stack # <<>>
  /\ proc' \in Process /\ proc'.mkey = proc.mkey /\ UNCHANGED <<config, Disk>>
  /\ \/ proc'.phase = "failed"
     \/ proc'.phase = "finalize" /\ proc'.todo = proc.todo /\ Below

SameWires ==
  /\ proc'.store = proc.store /\ proc'.ipa = proc.ipa
  /\ proc'.principal = proc.principal /\ proc'.api = proc.api

LEMMA Failing ==
  ASSUME StartupTypeOK, Fail, proc.phase = "finalize", proc.stack # <<>>,
         UNCHANGED <<config, Disk>>
  PROVE  TopStep /\ proc'.phase = "failed"
  BY PhaseStep DEF TopStep, Fail, Phases, Ended

LEMMA Placing ==
  ASSUME StartupTypeOK, NEW at \in Places, At(at),
         proc.phase = "finalize", proc.stack # <<>>, UNCHANGED <<config, Disk>>
  PROVE  /\ TopStep /\ SameWires /\ proc'.phase = "finalize"
         /\ Depth' = Depth
         /\ proc'.stack[Depth] = [plugin |-> Top.plugin, at |-> at]
<1>1. /\ proc' \in Process /\ SameButStack(proc', proc)
      /\ Len(proc'.stack) = Depth
      /\ \A i \in 1..(Depth - 1) : proc'.stack[i] = proc.stack[i]
      /\ proc'.stack[Depth] = [plugin |-> Top.plugin, at |-> at]
  BY PlaceSet
<1>2. Below
  BY <1>1, TopFrame DEF Below, Process
<1> QED BY <1>1, <1>2 DEF TopStep, SameWires, SameButStack, Depth

LEMMA Calling ==
  ASSUME StartupTypeOK, NEW STATE process, process \in Process,
         process.stack = proc.stack, process.phase = "finalize",
         process.todo = proc.todo, process.mkey = proc.mkey,
         NEW STATE at, at \in Places, NEW STATE p, p \in Plugins, proc' = Call(process, at, p),
         proc.phase = "finalize", proc.stack # <<>>, UNCHANGED <<config, Disk>>
  PROVE  /\ TopStep
         /\ proc'.phase # "failed" =>
              /\ SameButStack(proc', process)
              /\ Depth' = Depth + 1
              /\ proc'.stack[Depth] = [plugin |-> Top.plugin, at |-> at]
              /\ proc'.stack[Depth + 1] = [plugin |-> p, at |-> "attach"]
         /\ proc'.phase = "failed" => Depth = MaxDepth
<1>1. CASE Depth = MaxDepth
  <2>1. proc' = [process EXCEPT !.phase = "failed"]
    BY <1>1 DEF Call
  <2>2. proc' \in Process /\ proc'.phase = "failed" /\ proc'.mkey = proc.mkey
    BY <2>1 DEF Process, Phases, Ended
  <2> QED BY <1>1, <2>2 DEF TopStep
<1>2. CASE Depth # MaxDepth
  <2> DEFINE next == Call(process, at, p)
  <2>1. /\ next \in Process /\ SameButStack(next, process)
        /\ Len(next.stack) = Depth + 1
        /\ \A i \in 1..(Depth - 1) : next.stack[i] = proc.stack[i]
        /\ next.stack[Depth] = [plugin |-> Top.plugin, at |-> at]
        /\ next.stack[Depth + 1] = [plugin |-> p, at |-> "attach"]
    BY <1>2, Called
  <2>2. proc' = next
    OBVIOUS
  <2> HIDE DEF next
  <2>3. Below
    BY <2>1, <2>2, TopFrame DEF Below, Process
  <2>4. proc'.phase = "finalize"
    BY <2>1, <2>2 DEF SameButStack
  <2> QED BY <2>1, <2>2, <2>3, <2>4 DEF TopStep, SameButStack, Depth
<1> QED BY <1>1, <1>2

LEMMA InCallKept ==
  ASSUME StartupTypeOK, proc.stack # <<>>, Below, NEW p, NEW places,
         InCall(p, places), Top.plugin # p \/ Top.at \notin places
  PROVE  InCall(p, places)'
<1>1. PICK i \in 1..Depth : proc.stack[i].plugin = p /\ proc.stack[i].at \in places
  BY DEF InCall
<1>2. i # Depth
  BY <1>1 DEF Top
<1>3. i \in 1..(Depth - 1) /\ i \in 1..Len(proc'.stack)
  BY <1>1, <1>2, TopFrame DEF Below
<1>4. proc'.stack[i] = proc.stack[i]
  BY <1>3 DEF Below
<1> QED BY <1>1, <1>3, <1>4 DEF InCall, Depth

\* A frame that is set is one of its plugin's calls.
LEMMA SetInCall ==
  ASSUME StartupTypeOK, proc.stack # <<>>, NEW at \in Places, Depth' >= Depth, Depth' \in Nat,
         proc'.stack[Depth] = [plugin |-> Top.plugin, at |-> at],
         NEW p, p = Top.plugin, NEW places, at \in places
  PROVE  InCall(p, places)'
<1>1. Depth \in 1..Depth'
  BY TopFrame
<1>2. proc'.stack[Depth].plugin = p /\ proc'.stack[Depth].at \in places
  OBVIOUS
<1> QED BY <1>1, <1>2 DEF InCall

--------------------------------------------------------------------------------
(* What each step of finalize_init() does.                                 *)

LEMMA AttachStoreStep ==
  ASSUME StartupTypeOK, AttachStore
  PROVE  /\ TopStep /\ Top.at = "attach"
         /\ proc'.phase # "failed" =>
              /\ proc'.store[Top.plugin] \in {config.store[Top.plugin], proc.store[Top.plugin]}
              /\ proc'.store[Top.plugin] = None => config.store[Top.plugin] = None
              /\ \A p \in Plugins \ {Top.plugin} : proc'.store[p] = proc.store[p]
              /\ proc'.ipa = proc.ipa
              /\ proc'.principal = proc.principal /\ proc'.api = proc.api
              /\ Depth' \in Nat /\ Depth' >= Depth
              /\ proc'.stack[Depth] = [plugin |-> Top.plugin, at |-> "own"]
<1> DEFINE p == Top.plugin
<1> DEFINE s == config.store[p]
<1>1. /\ proc.phase = "finalize" /\ proc.stack # <<>> /\ Top.at = "attach"
      /\ UNCHANGED <<config, Disk>>
  BY DEF AttachStore, Running
<1>2. p \in Plugins /\ s \in Plugins \cup {None} /\ config.stores \subseteq Plugins
      /\ Depth \in Nat \ {0}
  BY <1>1, TopFrame, ConfigTypes DEF StartupTypeOK
<1>3. CASE (s = None \/ proc.store[p] # None) /\ At("own")
  <2>1. TopStep /\ SameWires /\ Depth' = Depth
        /\ proc'.stack[Depth] = [plugin |-> Top.plugin, at |-> "own"]
    BY <1>1, <1>3, Placing DEF Places
  <2> QED BY <1>1, <1>2, <1>3, <2>1 DEF SameWires
<1>4. CASE Fail
  BY <1>1, <1>4, Failing
<1>5. CASE /\ s \in config.stores /\ proc.store[p] = None
           /\ proc' = Call([proc EXCEPT !.store[p] = s], "own", s)
  <2> DEFINE process == [proc EXCEPT !.store[p] = s]
  <2>1. /\ process \in Process /\ process.stack = proc.stack /\ process.phase = "finalize"
        /\ process.todo = proc.todo /\ process.mkey = proc.mkey /\ process.ipa = proc.ipa
        /\ process.principal = proc.principal /\ process.api = proc.api
        /\ process.store = [proc.store EXCEPT ![p] = s]
    BY <1>1, <1>2, <1>5 DEF StartupTypeOK, Process
  <2>2. s \in Plugins /\ "own" \in Places
    BY <1>2, <1>5 DEF Places
  <2>3. proc' = Call(process, "own", s)
    BY <1>5
  <2> HIDE DEF process, s
  <2>4. /\ TopStep
        /\ proc'.phase # "failed" =>
             /\ SameButStack(proc', process)
             /\ Depth' = Depth + 1
             /\ proc'.stack[Depth] = [plugin |-> Top.plugin, at |-> "own"]
             /\ proc'.stack[Depth + 1] = [plugin |-> s, at |-> "attach"]
        /\ proc'.phase = "failed" => Depth = MaxDepth
    BY <1>1, <2>1, <2>2, <2>3, Calling
  <2>5. ASSUME proc'.phase # "failed"
        PROVE  /\ proc'.store = [proc.store EXCEPT ![p] = s] /\ proc'.ipa = proc.ipa
               /\ proc'.principal = proc.principal /\ proc'.api = proc.api
    BY <2>1, <2>4, <2>5 DEF SameButStack
  <2>6. /\ [proc.store EXCEPT ![p] = s][p] = s
        /\ \A q \in Plugins \ {p} : [proc.store EXCEPT ![p] = s][q] = proc.store[q]
    BY <1>2, ProcessTypes
  <2>7. s # None
    BY <2>2, StartupAssumption
  <2>8. ASSUME proc'.phase # "failed"
        PROVE  /\ proc'.store[p] = s /\ proc'.store[p] # None
               /\ \A q \in Plugins \ {p} : proc'.store[q] = proc.store[q]
    BY <2>5, <2>6, <2>7, <2>8
  <2>9. ASSUME proc'.phase # "failed"
        PROVE  Depth' \in Nat /\ Depth' >= Depth
    BY <1>2, <2>4, <2>9
  <2> QED BY <1>1, <2>4, <2>5, <2>8, <2>9 DEF s
<1> QED BY <1>3, <1>4, <1>5 DEF AttachStore, Dangling

LEMMA InterfaceStep ==
  ASSUME StartupTypeOK, FinalizeInterface
  PROVE  /\ TopStep /\ Top.at = "own" /\ Top.plugin = Ipa
         /\ proc'.phase # "failed" =>
              /\ proc'.store = proc.store /\ proc'.ipa = proc.ipa
              /\ proc'.api = proc.api /\ proc'.principal
              /\ proc.principal \/ InCall(Ipa, {"bootstrap"})'
<1>1. /\ proc.phase = "finalize" /\ proc.stack # <<>> /\ Top.at = "own" /\ Top.plugin = Ipa
      /\ UNCHANGED <<config, Disk>>
  BY DEF FinalizeInterface, Running
<1>2. CASE proc.principal /\ At("return")
  <2>1. TopStep /\ SameWires
    BY <1>1, <1>2, Placing DEF Places
  <2> QED BY <1>1, <1>2, <2>1 DEF SameWires
<1>3. CASE proc' = [proc EXCEPT !.principal = TRUE, !.stack[Depth].at = "bootstrap"]
  <2> DEFINE s == SetAt(proc.stack, "bootstrap")
  <2>1. /\ s \in Seq(Frames) /\ Len(s) = Depth
        /\ \A i \in 1..(Depth - 1) : s[i] = proc.stack[i]
        /\ s[Depth] = [plugin |-> Top.plugin, at |-> "bootstrap"]
    BY <1>1, ProcessTypes, TopSet DEF Depth, Top, Places
  <2>2. proc' = [proc EXCEPT !.principal = TRUE, !.stack = s]
    BY <1>3 DEF SetAt, Depth
  <2> HIDE DEF s
  <2>3. /\ proc' \in Process /\ proc'.stack = s /\ proc'.phase = "finalize"
        /\ proc'.todo = proc.todo /\ proc'.mkey = proc.mkey /\ proc'.store = proc.store
        /\ proc'.ipa = proc.ipa /\ proc'.api = proc.api /\ proc'.principal
    BY <1>1, <2>1, <2>2 DEF StartupTypeOK, Process
  <2>4. Below
    BY <2>1, <2>3, <1>1, TopFrame DEF Below
  <2>5. Depth' >= Depth /\ Depth' \in Nat
    BY <2>1, <2>3, <1>1, TopFrame DEF Depth
  <2>7. InCall(Ipa, {"bootstrap"})'
    <3>1. Depth \in 1..Depth'
      BY <1>1, <2>5, TopFrame
    <3>2. proc'.stack[Depth].plugin = Ipa /\ proc'.stack[Depth].at \in {"bootstrap"}
      BY <1>1, <2>1, <2>3
    <3> QED BY <3>1, <3>2 DEF InCall
  <2> QED BY <1>1, <2>3, <2>4, <2>7 DEF TopStep
<1>4. CASE proc' = [proc EXCEPT !.phase = "failed", !.remote = TRUE]
  <2>1. proc' \in Process /\ proc'.phase = "failed" /\ proc'.mkey = proc.mkey
    BY <1>4 DEF StartupTypeOK, Process, Phases, Ended
  <2> QED BY <1>1, <2>1 DEF TopStep
<1> QED BY <1>2, <1>3, <1>4 DEF FinalizeInterface

LEMMA BootstrapStep ==
  ASSUME StartupTypeOK, Bootstrap
  PROVE  /\ TopStep /\ Top.at = "bootstrap"
         /\ proc'.phase # "failed" =>
              /\ proc'.store = proc.store /\ proc'.ipa = proc.ipa
              /\ proc'.principal = proc.principal /\ proc'.api = "ready"
<1>1. /\ proc.phase = "finalize" /\ proc.stack # <<>> /\ Top.at = "bootstrap"
      /\ UNCHANGED <<config, Disk>>
  BY DEF Bootstrap, Running
<1>2. CASE proc' = [proc EXCEPT !.phase = "failed"]
  <2>1. Fail
    BY <1>2 DEF Fail, Goto
  <2> QED BY <1>1, <2>1, Failing
<1>3. CASE proc' = [proc EXCEPT !.api = "ready", !.stack[Depth].at = "connect"]
  <2> DEFINE s == SetAt(proc.stack, "connect")
  <2>1. /\ s \in Seq(Frames) /\ Len(s) = Depth
        /\ \A i \in 1..(Depth - 1) : s[i] = proc.stack[i]
    BY <1>1, ProcessTypes, TopSet DEF Depth, Top, Places
  <2>2. proc' = [proc EXCEPT !.api = "ready", !.stack = s]
    BY <1>3 DEF SetAt, Depth
  <2> HIDE DEF s
  <2>3. /\ proc' \in Process /\ proc'.stack = s /\ proc'.phase = "finalize"
        /\ proc'.todo = proc.todo /\ proc'.mkey = proc.mkey /\ proc'.store = proc.store
        /\ proc'.ipa = proc.ipa /\ proc'.api = "ready" /\ proc'.principal = proc.principal
    BY <1>1, <2>1, <2>2 DEF StartupTypeOK, Process
  <2>4. Below
    BY <2>1, <2>3, <1>1, TopFrame DEF Below
  <2> QED BY <1>1, <2>3, <2>4 DEF TopStep
<1> QED BY <1>2, <1>3 DEF Bootstrap

LEMMA IpaStoreStep ==
  ASSUME StartupTypeOK, FinalizeIpaStore
  PROVE  /\ TopStep /\ Top.at = "own" /\ config.kind[Top.plugin] \in {"vault", "cert"}
         /\ proc'.phase # "failed" =>
              /\ proc'.ipa = proc.ipa \cup {Top.plugin}
              /\ proc'.ipa = proc.ipa \/ Ipa \in Members(config.sections)
              /\ proc'.store = proc.store
              /\ proc'.principal = proc.principal /\ proc'.api = proc.api
<1> DEFINE p == Top.plugin
<1> DEFINE at == IF config.kind[p] = "vault" THEN "connect" ELSE "return"
<1>1. /\ proc.phase = "finalize" /\ proc.stack # <<>> /\ Top.at = "own"
      /\ config.kind[p] \in {"vault", "cert"} /\ UNCHANGED <<config, Disk>>
  BY DEF FinalizeIpaStore, Running
<1>2. p \in Plugins /\ at \in Places
  BY <1>1, TopFrame DEF Places
<1>3. CASE p \in proc.ipa /\ At("return")
  <2>1. TopStep /\ SameWires
    BY <1>1, <1>3, Placing DEF Places
  <2> QED BY <1>1, <1>3, <2>1 DEF SameWires
<1>4. CASE Fail
  BY <1>1, <1>4, Failing
<1>5. CASE Ipa \in Members(config.sections) /\ proc' = Initialized(p, at)
  <2> DEFINE process == [proc EXCEPT !.ipa = @ \cup {p}]
  <2>1. /\ process \in Process /\ process.stack = proc.stack /\ process.phase = "finalize"
        /\ process.todo = proc.todo /\ process.mkey = proc.mkey
        /\ process.ipa = proc.ipa \cup {p} /\ process.store = proc.store
        /\ process.principal = proc.principal /\ process.api = proc.api
    BY <1>1, <1>2 DEF StartupTypeOK, Process
  <2>2. proc' = Call(process, at, Ipa)
    BY <1>5 DEF Initialized
  <2>3. Ipa \in Plugins
    BY <1>5, ConfigTypes DEF StartupTypeOK
  <2> HIDE DEF process, at
  <2>4. /\ TopStep
        /\ proc'.phase # "failed" => SameButStack(proc', process)
    BY <1>1, <1>2, <2>1, <2>2, <2>3, Calling
  <2> QED BY <1>1, <1>5, <2>1, <2>4 DEF SameButStack
<1> QED BY <1>3, <1>4, <1>5 DEF FinalizeIpaStore

LEMMA ConnectStep ==
  ASSUME StartupTypeOK, Connect
  PROVE  TopStep /\ Top.at = "connect" /\ (proc'.phase # "failed" => SameWires)
<1>1. /\ proc.phase = "finalize" /\ proc.stack # <<>> /\ Top.at = "connect"
      /\ UNCHANGED <<config, Disk>>
  BY DEF Connect, Running
<1>2. CASE Unreachable
  <2>1. proc' \in Process /\ proc'.phase = "failed" /\ proc'.mkey = proc.mkey
    BY <1>2 DEF Unreachable, StartupTypeOK, Process, Phases, Ended
  <2> QED BY <1>1, <2>1 DEF TopStep
<1>3. CASE Fail
  BY <1>1, <1>3, Failing
<1>4. CASE At("return")
  BY <1>1, <1>4, Placing DEF Places
<1> QED BY <1>2, <1>3, <1>4 DEF Connect

LEMMA ReturnStep ==
  ASSUME StartupTypeOK, Return
  PROVE  /\ TopStep /\ SameWires
         /\ \/ Top.at = "return"
            \/ Top.at = "own" /\ config.kind[Top.plugin] \in {"plain", "overlay"}
<1>1. /\ proc.phase = "finalize" /\ proc.stack # <<>>
      /\ \/ Top.at = "return"
         \/ Top.at = "own" /\ config.kind[Top.plugin] \in {"plain", "overlay"}
      /\ proc' = [proc EXCEPT !.stack = SubSeq(@, 1, Depth - 1)]
      /\ UNCHANGED <<config, Disk>>
  BY DEF Return, Running
<1> DEFINE s == SubSeq(proc.stack, 1, Depth - 1)
<1>2. /\ s \in Seq(Frames) /\ Len(s) = Depth - 1
      /\ \A i \in 1..(Depth - 1) : s[i] = proc.stack[i]
  BY <1>1, ProcessTypes, Popped DEF Depth
<1>3. proc' = [proc EXCEPT !.stack = s]
  BY <1>1
<1> HIDE DEF s
<1>4. /\ proc' \in Process /\ proc'.stack = s /\ proc'.phase = "finalize"
      /\ proc'.todo = proc.todo /\ proc'.mkey = proc.mkey /\ SameWires
  BY <1>1, <1>2, <1>3 DEF StartupTypeOK, Process, SameWires
<1>5. Below
  BY <1>1, <1>2, <1>4, TopFrame DEF Below
<1> QED BY <1>1, <1>4, <1>5 DEF TopStep

FinalizeCall ==
  AttachStore \/ FinalizeInterface \/ Bootstrap \/ FinalizeIpaStore \/ Connect \/ Return

LEMMA FinalizeCallStep ==
  ASSUME StartupTypeOK, FinalizeCall
  PROVE  TopStep
  BY AttachStoreStep, InterfaceStep, BootstrapStep, IpaStoreStep, ConnectStep, ReturnStep
  DEF FinalizeCall

LEMMA FinalizeNextStep ==
  ASSUME StartupTypeOK, FinalizeNext
  PROVE  /\ proc.phase = "finalize" /\ proc.stack = <<>>
         /\ proc' \in Process /\ proc'.mkey = proc.mkey /\ UNCHANGED <<config, Disk>>
         /\ SameWires
         /\ \/ /\ proc.todo # <<>> /\ proc'.phase = "finalize"
               /\ proc'.todo = Tail(proc.todo)
               /\ Depth' = 1
               /\ proc'.stack[1].plugin = Section /\ proc'.stack[1].at = "attach"
            \/ /\ proc.todo = <<>> /\ proc'.todo = <<>> /\ proc'.stack = <<>>
               /\ proc'.phase = "bind"
<1>1. proc.phase = "finalize" /\ proc.stack = <<>> /\ UNCHANGED <<config, Disk>>
  BY DEF FinalizeNext
<1>2. CASE /\ proc.todo # <<>>
           /\ proc' = [proc EXCEPT !.stack = <<[plugin |-> Section, at |-> "attach"]>>,
                                   !.todo = Tail(@)]
  <2> DEFINE f == [plugin |-> Section, at |-> "attach"]
  <2>1. Section \in Plugins /\ Tail(proc.todo) \in Seq(Plugins)
    BY <1>2, ProcessTypes, MembersOfTail DEF Section
  <2>2. f \in Frames /\ f.plugin = Section /\ f.at = "attach"
    BY <2>1 DEF Frames
  <2> HIDE DEF f
  <2>3. <<f>> \in Seq(Frames) /\ Len(<<f>>) = 1 /\ <<f>>[1] = f
    BY <2>2
  <2>4. proc' = [proc EXCEPT !.stack = <<f>>, !.todo = Tail(proc.todo)]
    BY <1>2 DEF f
  <2>5. /\ proc' \in Process /\ proc'.stack = <<f>> /\ proc'.phase = "finalize"
        /\ proc'.todo = Tail(proc.todo) /\ proc'.mkey = proc.mkey /\ SameWires
    BY <1>1, <2>1, <2>3, <2>4 DEF StartupTypeOK, Process, SameWires
  <2> QED BY <1>1, <1>2, <2>2, <2>3, <2>5 DEF Depth
<1>3. CASE proc.todo = <<>> /\ Goto("bind")
  <2>1. /\ proc' \in Process /\ proc'.phase = "bind" /\ proc'.todo = proc.todo
        /\ proc'.stack = proc.stack /\ proc'.mkey = proc.mkey /\ SameWires
    BY <1>3, PhaseStep DEF Phases, SameWires
  <2> QED BY <1>1, <1>3, <2>1
<1> QED BY <1>2, <1>3 DEF FinalizeNext

LEMMA TypesStep ==
  ASSUME StartupTypeOK, KeyInv, [Next]_vars
  PROVE  StartupTypeOK'
<1>1. CASE FinalizeCall
  BY <1>1, FinalizeCallStep, ProcessStep DEF TopStep
<1>2. CASE FinalizeNext
  BY <1>2, FinalizeNextStep, ProcessStep
<1>3. CASE UNCHANGED vars
  BY <1>3 DEF vars, StartupTypeOK
<1> QED
  BY <1>1, <1>2, <1>3, CreationTypes, LifeTypes DEF Next, Proceed, FinalizeCall

--------------------------------------------------------------------------------
(* Keys.                                                                   *)

LEMMA TodoHead ==
  ASSUME StartupTypeOK, proc.todo # <<>>
  PROVE  /\ Section \in Plugins /\ Section \in Members(proc.todo)
         /\ Members(proc.todo) = {Section} \cup Members(Tail(proc.todo))
  BY ProcessTypes, MembersOfTail DEF Section

\* A step with which neither keys nor files change.
LEMMA KeyKept ==
  ASSUME KeyInv, UNCHANGED <<config, files, rows>>, proc'.mkey = proc.mkey,
         \/ proc'.phase \in {"options", "logging"} \cup Ended
         \/ /\ proc.phase = "create" /\ proc'.phase = "create"
            /\ proc.todo # <<>> /\ ~IsOverlay
            /\ Members(proc'.todo) \subseteq Members(proc.todo)
            /\ Members(proc.todo) \subseteq {Section} \cup Members(proc'.todo)
         \/ proc.phase \in Later /\ proc'.phase \in Later
  PROVE  KeyInv'
<1>1. RowsReadable'
  BY DEF KeyInv, RowsReadable
<1>2. \A p : HasKey(p)' <=> HasKey(p)
  BY DEF HasKey
<1>3. CASE proc'.phase \in {"options", "logging"} \cup Ended
  BY <1>1, <1>3 DEF KeyInv, Later, Creating, Ended
<1>4. CASE /\ proc.phase = "create" /\ proc'.phase = "create"
           /\ proc.todo # <<>> /\ ~IsOverlay
           /\ Members(proc'.todo) \subseteq Members(proc.todo)
           /\ Members(proc.todo) \subseteq {Section} \cup Members(proc'.todo)
  <2>1. HasKey(Section)
    BY <1>4 DEF HasKey, IsOverlay
  <2>2. \A p \in Members(config.sections) \ Members(proc'.todo) : HasKey(p)
    BY <1>4, <2>1 DEF KeyInv, Creating
  <2>3. Members(proc'.todo) \subseteq Members(config.sections)
    BY <1>4 DEF KeyInv, Creating
  <2> QED BY <1>1, <1>2, <1>4, <2>2, <2>3 DEF KeyInv, Later, Creating
<1>5. CASE proc.phase \in Later /\ proc'.phase \in Later
  BY <1>1, <1>2, <1>5 DEF KeyInv, Later, Creating
<1> QED BY <1>3, <1>4, <1>5

\* A process that has no keys yet.
LEMMA KeyFresh ==
  ASSUME NEW phase \in Ended \cup {"options"}, proc' = NewProcess(phase), RowsReadable'
  PROVE  KeyInv'
<1>1. proc'.phase = phase /\ proc'.mkey = [p \in Plugins |-> None]
  BY DEF NewProcess
<1>2. \A p \in Plugins : proc'.mkey[p] \notin Keys
  BY <1>1, StartupAssumption
<1> QED BY <1>1, <1>2 DEF KeyInv, Later, Creating, Ended

\* A file that holds no key may change: no row and no plugin depends on it.
LEMMA KeylessFile ==
  ASSUME StartupTypeOK, KeyInv, NEW STATE f, f \in Files, files[f] \in {"absent", "empty"},
         NEW value \in Keys \cup {"absent", "empty"},
         files' = [files EXCEPT ![f] = value], UNCHANGED <<config, rows>>
  PROVE  /\ RowsReadable' /\ files'[f] = value
         /\ \A p \in Plugins : proc.mkey[p] \in Keys =>
              config.key[p] \in Files /\ files'[config.key[p]] = proc.mkey[p]
<1>1. files \in [Files -> Keys \cup {"absent", "empty"}] /\ rows \in [Files -> SUBSET Keys]
  BY DEF StartupTypeOK
<1>2. files[f] \notin Keys
  BY StartupAssumption
<1>3. files'[f] = value /\ \A g \in Files \ {f} : files'[g] = files[g]
  BY <1>1
<1>4. RowsReadable'
  <2>1. rows[f] = {}
    BY <1>1, <1>2 DEF KeyInv, RowsReadable
  <2> QED BY <1>3, <2>1 DEF KeyInv, RowsReadable
<1>5. ASSUME NEW p \in Plugins, proc.mkey[p] \in Keys
      PROVE  config.key[p] \in Files /\ files'[config.key[p]] = proc.mkey[p]
  <2>1. config.key[p] \in Files /\ files[config.key[p]] = proc.mkey[p]
    BY <1>5 DEF KeyInv
  <2>2. config.key[p] # f
    BY <1>2, <1>5, <2>1
  <2> QED BY <1>3, <2>1, <2>2
<1> QED BY <1>3, <1>4, <1>5

\* The overlay whose turn it is.
LEMMA OverlayAtWork ==
  ASSUME StartupTypeOK, KeyInv, proc.phase \in {"generate", "write", "read"}
  PROVE  /\ proc.todo # <<>> /\ Section \in Members(config.sections)
         /\ Section \in Plugins /\ IsOverlay /\ KeyFile \in Files
         /\ Members(proc.todo) = {Section} \cup Members(Tail(proc.todo))
<1>1. proc.todo # <<>> /\ IsOverlay /\ Members(proc.todo) \subseteq Members(config.sections)
  BY DEF KeyInv, Creating
<1>2. /\ Section \in Plugins /\ Section \in Members(config.sections)
      /\ Members(proc.todo) = {Section} \cup Members(Tail(proc.todo))
  BY <1>1, TodoHead
<1>3. KeyFile \in Files
  BY <1>1, <1>2, ConfigTypes DEF StartupTypeOK, IsOverlay, KeyFile
<1> QED BY <1>1, <1>2, <1>3

LEMMA KeysInCreation ==
  ASSUME StartupTypeOK, KeyInv, CreatePlugin \/ CreateKeyFile \/ WriteKey \/ ReadKey \/ AllCreated
  PROVE  KeyInv'
<1>1. CASE CreatePlugin
  <2>1. /\ proc.phase = "create" /\ proc.todo # <<>> /\ UNCHANGED <<config, files, rows>>
    BY <1>1 DEF CreatePlugin, Disk
  <2>2. CASE Fail \/ IOError
    <3>1. proc'.phase = "failed" /\ proc'.mkey = proc.mkey
      BY <2>2, FailStep
    <3> QED BY <2>1, <3>1, KeyKept DEF Ended
  <2>3. CASE ~IsOverlay /\ proc' = [proc EXCEPT !.todo = Tail(@)]
    <3>1. proc'.phase = "create" /\ proc'.mkey = proc.mkey /\ proc'.todo = Tail(proc.todo)
      BY <2>1, <2>3 DEF StartupTypeOK, Process
    <3>2. Members(proc.todo) = {Section} \cup Members(proc'.todo)
      BY <2>1, <3>1, TodoHead
    <3> QED BY <2>1, <2>3, <3>1, <3>2, KeyKept
  <2>4. ASSUME NEW phase \in {"generate", "read"}, IsOverlay, Goto(phase),
               phase = "generate" => MustGenerate
        PROVE  KeyInv'
    <3>1. /\ proc'.phase = phase /\ proc'.mkey = proc.mkey /\ proc'.todo = proc.todo
      BY <2>4, PhaseStep DEF Phases
    <3>2. IsOverlay' /\ (phase = "generate" => files'[KeyFile'] = "absent")
      BY <2>1, <2>4, <3>1 DEF IsOverlay, KeyFile, Section, MustGenerate
    <3>3. RowsReadable' /\ \A p : HasKey(p)' <=> HasKey(p)
      BY <2>1, <3>1 DEF KeyInv, RowsReadable, HasKey
    <3> QED BY <2>1, <2>4, <3>1, <3>2, <3>3 DEF KeyInv, Creating, Later
  <2> QED BY <1>1, <2>2, <2>3, <2>4 DEF CreatePlugin
<1>2. CASE CreateKeyFile /\ Goto("write")
  <2>1. /\ proc.phase = "generate" /\ files[KeyFile] = "absent"
        /\ files' = [files EXCEPT ![KeyFile] = "empty"] /\ UNCHANGED <<config, rows>>
        /\ proc'.phase = "write" /\ proc'.mkey = proc.mkey /\ proc'.todo = proc.todo
    BY <1>2, PhaseStep, FailStep DEF CreateKeyFile, KeyInv, Phases
  <2>2. /\ proc.todo # <<>> /\ IsOverlay /\ KeyFile \in Files
    BY <2>1, OverlayAtWork
  <2>3. /\ RowsReadable' /\ files'[KeyFile] = "empty"
        /\ \A p \in Plugins : proc.mkey[p] \in Keys =>
              config.key[p] \in Files /\ files'[config.key[p]] = proc.mkey[p]
    BY <2>1, <2>2, KeylessFile
  <2>4. IsOverlay' /\ KeyFile' = KeyFile /\ \A p : HasKey(p)' <=> HasKey(p)
    BY <2>1, <2>2 DEF IsOverlay, KeyFile, Section, HasKey
  <2> QED BY <2>1, <2>2, <2>3, <2>4 DEF KeyInv, Creating, Later
<1>3. CASE WriteKey /\ Goto("read")
  <2>0. Goto("read") => proc'.phase = "read"
    BY PhaseStep DEF Phases
  <2>1. PICK k \in Keys : files' = [files EXCEPT ![KeyFile] = k]
    BY <1>3, <2>0, FailStep DEF WriteKey
  <2>2. /\ proc.phase = "write" /\ files[KeyFile] = "empty" /\ UNCHANGED <<config, rows>>
        /\ proc'.phase = "read" /\ proc'.mkey = proc.mkey /\ proc'.todo = proc.todo
    BY <1>3, PhaseStep DEF WriteKey, KeyInv, Phases
  <2>3. /\ proc.todo # <<>> /\ IsOverlay /\ KeyFile \in Files
    BY <2>2, OverlayAtWork
  <2>4. /\ RowsReadable'
        /\ \A p \in Plugins : proc.mkey[p] \in Keys =>
              config.key[p] \in Files /\ files'[config.key[p]] = proc.mkey[p]
    BY <2>1, <2>2, <2>3, KeylessFile
  <2>5. IsOverlay' /\ \A p : HasKey(p)' <=> HasKey(p)
    BY <2>2, <2>3 DEF IsOverlay, Section, HasKey
  <2> QED BY <2>2, <2>3, <2>4, <2>5 DEF KeyInv, Creating, Later
<1>4. CASE ReadKey
  <2>1. proc.phase = "read" /\ UNCHANGED <<config, files, rows>>
    BY <1>4 DEF ReadKey, Disk
  <2>2. CASE Fail \/ IOError
    <3>1. proc'.phase = "failed" /\ proc'.mkey = proc.mkey
      BY <2>2, FailStep
    <3> QED BY <2>1, <3>1, KeyKept DEF Ended
  <2>3. CASE /\ files[KeyFile] \in Keys
             /\ proc' = [proc EXCEPT !.mkey[Section] = files[KeyFile],
                                     !.phase = "create", !.todo = Tail(@)]
    <3>1. /\ proc.todo # <<>> /\ Section \in Plugins /\ KeyFile \in Files /\ IsOverlay
          /\ Members(proc.todo) = {Section} \cup Members(Tail(proc.todo))
      BY <2>1, OverlayAtWork
    <3>2. /\ proc'.phase = "create" /\ proc'.todo = Tail(proc.todo)
          /\ proc'.mkey = [proc.mkey EXCEPT ![Section] = files[KeyFile]]
      BY <2>3 DEF StartupTypeOK, Process
    <3>3. /\ proc'.mkey[Section] = files[KeyFile]
          /\ \A p \in Plugins \ {Section} : proc'.mkey[p] = proc.mkey[p]
      BY <3>1, <3>2, ProcessTypes
    <3>4. \A p \in Plugins : proc'.mkey[p] \in Keys =>
            config.key[p] \in Files /\ files[config.key[p]] = proc'.mkey[p]
      BY <3>1, <3>3 DEF KeyInv, KeyFile
    <3>5. Members(config.sections) \subseteq Plugins
      BY ConfigTypes DEF StartupTypeOK
    <3>6. ASSUME NEW p \in Members(config.sections) \ Members(proc'.todo)
          PROVE  HasKey(p)'
      BY <2>1, <2>3, <3>1, <3>2, <3>3, <3>5 DEF HasKey, KeyInv, Creating
    <3>7. Members(proc'.todo) \subseteq Members(config.sections)
      BY <2>1, <3>1, <3>2 DEF KeyInv, Creating
    <3>8. RowsReadable'
      BY <2>1 DEF KeyInv, RowsReadable
    <3> QED BY <2>1, <3>2, <3>4, <3>6, <3>7, <3>8 DEF KeyInv, Creating, Later
  <2> QED BY <1>4, <2>2, <2>3 DEF ReadKey
<1>5. CASE AllCreated
  <2>1. /\ proc.phase = "create" /\ proc.todo = <<>> /\ UNCHANGED <<config, files, rows>>
        /\ proc'.phase = "finalize" /\ proc'.mkey = proc.mkey
    BY <1>5 DEF AllCreated, Disk, StartupTypeOK, Process
  <2>2. \A p \in Members(config.sections) : HasKey(p)'
    BY <2>1, MembersOfNone DEF KeyInv, Creating, HasKey
  <2>3. RowsReadable'
    BY <2>1 DEF KeyInv, RowsReadable
  <2> QED BY <2>1, <2>2, <2>3 DEF KeyInv, Creating, Later
<1>6. CASE IOError /\ UNCHANGED <<config, files, rows>>
  <2>1. proc'.phase = "failed" /\ proc'.mkey = proc.mkey
    BY <1>6, FailStep
  <2> QED BY <1>6, <2>1, KeyKept DEF Ended
<1> QED BY <1>1, <1>2, <1>3, <1>4, <1>5, <1>6 DEF CreateKeyFile, WriteKey

LEMMA KeysInLife ==
  ASSUME StartupTypeOK, KeyInv, Start \/ Store \/ Stop \/ Kill \/ Repair
  PROVE  KeyInv'
<1>1. CASE Start
  <2>1. RowsReadable'
    BY <1>1 DEF Start, Disk, KeyInv, RowsReadable
  <2> QED BY <1>1, <2>1, KeyFresh DEF Start
<1>2. CASE Stop \/ Kill
  <2>1. RowsReadable'
    BY <1>2 DEF Stop, Kill, KeyInv, RowsReadable
  <2> QED BY <1>2, <2>1, KeyFresh DEF Stop, Kill, Ended
<1>3. CASE Repair
  <2>1. PICK f \in Files : files[f] = "empty" /\ files' = [files EXCEPT ![f] = "absent"]
    BY <1>3 DEF Repair
  <2>2. RowsReadable'
    BY <1>3, <2>1, KeylessFile DEF Repair
  <2> QED BY <1>3, <2>2, KeyFresh DEF Repair, Ended
<1>4. CASE Store
  <2>1. PICK p \in Members(config.sections) :
          /\ config.kind[p] = "overlay"
          /\ rows' = [rows EXCEPT ![config.key[p]] = @ \cup {proc.mkey[p]}]
    BY <1>4 DEF Store
  <2>2. /\ proc.phase = "serving" /\ UNCHANGED <<config, proc, files>>
    BY <1>4 DEF Store
  <2>3. p \in Plugins /\ proc.mkey[p] \in Keys
    BY <2>1, <2>2, ConfigTypes DEF KeyInv, Later, HasKey, StartupTypeOK
  <2>4. config.key[p] \in Files /\ files[config.key[p]] = proc.mkey[p]
    BY <2>3 DEF KeyInv
  <2>5. ASSUME NEW f \in Files
        PROVE  rows'[f] \subseteq {files[f]}
    <3>1. rows[f] \subseteq {files[f]}
      BY DEF KeyInv, RowsReadable
    <3>2. CASE f = config.key[p]
      BY <2>1, <2>4, <3>1, <3>2 DEF StartupTypeOK
    <3>3. CASE f # config.key[p]
      BY <2>1, <3>1, <3>3 DEF StartupTypeOK
    <3> QED BY <3>2, <3>3
  <2>6. RowsReadable'
    BY <2>2, <2>5 DEF RowsReadable
  <2>7. \A q : HasKey(q)' <=> HasKey(q)
    BY <2>2 DEF HasKey
  <2> QED BY <2>2, <2>6, <2>7 DEF KeyInv, Later, Creating
<1> QED BY <1>1, <1>2, <1>3, <1>4

LEMMA KeysStep ==
  ASSUME StartupTypeOK, KeyInv, [Next]_vars
  PROVE  KeyInv'
<1>1. CASE ReadConfig
  <2>1. proc'.phase \in {"failed", "logging"} /\ proc'.mkey = proc.mkey
    BY <1>1, PhaseStep, FailStep DEF ReadConfig, Phases
  <2> QED BY <1>1, <2>1, KeyKept DEF ReadConfig, Ended
<1>2. CASE SetupLogging
  <2>1. UNCHANGED <<config, files, rows>>
    BY <1>2 DEF SetupLogging, Disk
  <2>2. CASE Fail \/ IOError
    <3>1. proc'.phase = "failed" /\ proc'.mkey = proc.mkey
      BY <2>2, FailStep
    <3> QED BY <2>1, <3>1, KeyKept DEF Ended
  <2>3. CASE proc' = [proc EXCEPT !.phase = "create", !.todo = config.sections]
    <3>1. /\ proc'.phase = "create" /\ proc'.todo = config.sections
          /\ proc'.mkey = proc.mkey
      BY <2>3 DEF StartupTypeOK, Process
    <3>2. RowsReadable'
      BY <2>1 DEF KeyInv, RowsReadable
    <3> QED BY <2>1, <3>1, <3>2 DEF KeyInv, Creating, Later
  <2> QED BY <1>2, <2>2, <2>3 DEF SetupLogging
<1>3. CASE FinalizeCall
  <2>1. TopStep
    BY <1>3, FinalizeCallStep
  <2> QED BY <2>1, KeyKept DEF TopStep, Disk, Later, Ended
<1>4. CASE FinalizeNext
  <2>1. /\ proc.phase = "finalize" /\ proc'.phase \in {"finalize", "bind"}
        /\ proc'.mkey = proc.mkey /\ UNCHANGED <<config, files, rows>>
    BY <1>4, FinalizeNextStep DEF Disk
  <2> QED BY <2>1, KeyKept DEF Later
<1>5. CASE Unlink
  <2>1. proc'.phase = "listen" /\ proc'.mkey = proc.mkey
    BY <1>5, PhaseStep DEF Unlink, Phases
  <2> QED BY <1>5, <2>1, KeyKept DEF Unlink, Later
<1>6. CASE Listen
  <2>1. proc'.phase \in {"failed", "serving"} /\ proc'.mkey = proc.mkey
    BY <1>6, PhaseStep, FailStep DEF Listen, Phases
  <2> QED BY <1>6, <2>1, KeyKept DEF Listen, Later, Ended
<1>7. CASE UNCHANGED vars
  <2>1. RowsReadable' /\ \A p : HasKey(p)' <=> HasKey(p)
    BY <1>7 DEF vars, KeyInv, RowsReadable, HasKey
  <2> QED BY <1>7, <2>1 DEF vars, KeyInv, IsOverlay, KeyFile, Section
<1> QED
  BY <1>1, <1>2, <1>3, <1>4, <1>5, <1>6, <1>7, KeysInCreation, KeysInLife
  DEF Next, Proceed, FinalizeCall

LEMMA InitOK == Init => StartupTypeOK /\ KeyInv
<1> SUFFICES ASSUME Init PROVE StartupTypeOK /\ KeyInv
  OBVIOUS
<1>1. proc \in Process
  BY FreshProcess DEF Init, Phases, Ended
<1>2. StartupTypeOK
  BY <1>1 DEF Init, StartupTypeOK
<1>3. /\ proc.phase = "down" /\ proc.mkey = [p \in Plugins |-> None] /\ RowsReadable
  BY DEF Init, NewProcess, RowsReadable
<1>4. \A p \in Plugins : proc.mkey[p] \notin Keys
  BY <1>3, StartupAssumption
<1> QED BY <1>2, <1>3, <1>4 DEF KeyInv, Later, Creating

\* The process, the files and the rows are of their types, whatever is killed
\* and whichever configuration comes next.
THEOREM StartupTypeCorrect == Spec => [](StartupTypeOK /\ KeyInv)
<1>1. StartupTypeOK /\ KeyInv /\ [Next]_vars => StartupTypeOK' /\ KeyInv'
  BY TypesStep, KeysStep
<1> QED BY InitOK, <1>1, PTL DEF Spec

\* No master key that rows were encrypted with is ever replaced: __init__() of an
\* overlay generates a key only for a file that is not there, and such a file has
\* no rows.
THEOREM KeysAreKept == Spec => []RowsReadable
<1>1. KeyInv => RowsReadable
  BY DEF KeyInv
<1> QED BY <1>1, StartupTypeCorrect, PTL

--------------------------------------------------------------------------------
(* References.                                                             *)

\* What a step of a call does for the plugin of that call, and leaves of others.
Rewired ==
  /\ \A p \in Plugins : \/ proc'.store[p] = proc.store[p]
                        \/ p = Top.plugin /\ proc'.store[p] = config.store[p]
  /\ Top.at = "attach" => proc'.store[Top.plugin] = config.store[Top.plugin]
  /\ proc.ipa \subseteq proc'.ipa
  /\ proc'.ipa # {} => Ipa \in Members(config.sections)
  /\ proc.principal => proc'.principal
  /\ \A p \in Members(config.sections) :
       p = Top.plugin /\ Top.at \in {"attach", "own"} =>
         /\ config.kind[p] \in {"vault", "cert"} =>
              p \in proc'.ipa \/ InCall(p, {"attach", "own"})'
         /\ p = Ipa => proc'.principal \/ InCall(p, {"attach", "own"})'
  /\ proc'.principal => proc'.api = "ready" \/ InCall(Ipa, {"bootstrap"})'

LEMMA BootstrapKept ==
  ASSUME StartupTypeOK, WireInv, proc.phase = "finalize", proc.stack # <<>>, Below,
         Top.at # "bootstrap", proc'.principal = proc.principal, proc'.api = proc.api
  PROVE  proc'.principal => proc'.api = "ready" \/ InCall(Ipa, {"bootstrap"})'
<1>1. proc.principal => proc.api = "ready" \/ InCall(Ipa, {"bootstrap"})
  BY DEF WireInv, Later
<1>2. InCall(Ipa, {"bootstrap"}) => InCall(Ipa, {"bootstrap"})'
  <2>1. Top.at \notin {"bootstrap"}
    OBVIOUS
  <2> QED BY <2>1, InCallKept
<1> QED BY <1>1, <1>2

LEMMA RewiredByCall ==
  ASSUME StartupTypeOK, WireInv, FinalizeCall, proc'.phase # "failed"
  PROVE  Rewired
<1> DEFINE t == Top.plugin
<1>1. /\ proc.phase = "finalize" /\ proc.stack # <<>> /\ Below
  BY FinalizeCallStep DEF TopStep
<1>2. /\ t \in Plugins
      /\ \A p \in Members(config.sections) : config.kind[p] = "ipa" <=> p = Ipa
  BY <1>1, TopFrame, ConfigTypes DEF StartupTypeOK
<1>3. /\ \A p \in Plugins : proc.store[p] \in {None, config.store[p]}
      /\ proc.ipa # {} => Ipa \in Members(config.sections)
  BY <1>1 DEF WireInv, Later
<1>4. CASE AttachStore
  <2>1. /\ Top.at = "attach"
        /\ proc'.store[t] \in {config.store[t], proc.store[t]}
        /\ proc'.store[t] = None => config.store[t] = None
        /\ \A p \in Plugins \ {t} : proc'.store[p] = proc.store[p]
        /\ proc'.ipa = proc.ipa
        /\ proc'.principal = proc.principal /\ proc'.api = proc.api
        /\ Depth' \in Nat /\ Depth' >= Depth
        /\ proc'.stack[Depth] = [plugin |-> t, at |-> "own"]
    BY <1>4, AttachStoreStep
  <2>2. proc'.store[t] = config.store[t]
    BY <1>2, <1>3, <2>1
  <2>3. ASSUME NEW p, p = t
        PROVE  InCall(p, {"attach", "own"})'
    <3>1. Depth \in 1..Depth'
      BY <1>1, <2>1, TopFrame
    <3>2. proc'.stack[Depth].plugin = p /\ proc'.stack[Depth].at \in {"attach", "own"}
      BY <2>1, <2>3
    <3> QED BY <3>1, <3>2 DEF InCall
  <2>4. proc'.principal => proc'.api = "ready" \/ InCall(Ipa, {"bootstrap"})'
    BY <1>1, <2>1, BootstrapKept
  <2> QED BY <1>3, <2>1, <2>2, <2>3, <2>4 DEF Rewired
<1>5. CASE FinalizeInterface
  <2>1. /\ Top.at = "own" /\ t = Ipa
        /\ proc'.store = proc.store /\ proc'.ipa = proc.ipa
        /\ proc'.api = proc.api /\ proc'.principal
        /\ proc.principal \/ InCall(Ipa, {"bootstrap"})'
    BY <1>5, InterfaceStep
  <2>2. proc'.api = "ready" \/ InCall(Ipa, {"bootstrap"})'
    <3>1. CASE proc.principal
      BY <1>1, <2>1, <3>1, BootstrapKept
    <3> QED BY <2>1, <3>1
  <2>3. \A p \in Members(config.sections) : p = t => config.kind[p] \notin {"vault", "cert"}
    BY <1>2, <2>1
  <2> QED BY <1>3, <2>1, <2>2, <2>3 DEF Rewired
<1>6. CASE Bootstrap
  BY <1>3, <1>6, BootstrapStep DEF Rewired
<1>7. CASE FinalizeIpaStore
  <2>1. /\ Top.at = "own" /\ config.kind[t] \in {"vault", "cert"}
        /\ proc'.ipa = proc.ipa \cup {t}
        /\ proc'.ipa = proc.ipa \/ Ipa \in Members(config.sections)
        /\ proc'.store = proc.store
        /\ proc'.principal = proc.principal /\ proc'.api = proc.api
    BY <1>7, IpaStoreStep
  <2>2. proc'.principal => proc'.api = "ready" \/ InCall(Ipa, {"bootstrap"})'
    BY <1>1, <2>1, BootstrapKept
  <2>3. \A p \in Members(config.sections) : p = t => p # Ipa
    BY <1>2, <2>1
  <2> QED BY <1>3, <2>1, <2>2, <2>3 DEF Rewired
<1>8. CASE Connect \/ Return
  <2>1. /\ SameWires /\ Top.at # "attach" /\ Top.at # "bootstrap"
        /\ Top.at = "own" => config.kind[t] \in {"plain", "overlay"}
    BY <1>8, ConnectStep, ReturnStep
  <2>2. proc'.principal => proc'.api = "ready" \/ InCall(Ipa, {"bootstrap"})'
    BY <1>1, <2>1, BootstrapKept DEF SameWires
  <2>3. \A p \in Members(config.sections) : p = t /\ Top.at = "own" =>
          p # Ipa /\ config.kind[p] \notin {"vault", "cert"}
    BY <1>2, <2>1
  <2> QED BY <1>3, <2>1, <2>2, <2>3 DEF Rewired, SameWires
<1> QED BY <1>4, <1>5, <1>6, <1>7, <1>8 DEF FinalizeCall

LEMMA WiresOfCall ==
  ASSUME StartupTypeOK, WireInv, FinalizeCall
  PROVE  WireInv'
<1>1. /\ proc.phase = "finalize" /\ proc.stack # <<>> /\ UNCHANGED config
      /\ \/ proc'.phase = "failed"
         \/ proc'.phase = "finalize" /\ proc'.todo = proc.todo /\ Below
  BY FinalizeCallStep DEF TopStep, Disk
<1>2. CASE proc'.phase = "failed"
  BY <1>2 DEF WireInv, Later, Creating
<1>3. CASE proc'.phase = "finalize" /\ proc'.todo = proc.todo /\ Below
  <2>1. Rewired
    BY <1>3, RewiredByCall
  <2>2. /\ Members(proc.todo) \subseteq Members(config.sections)
        /\ \A p \in Plugins : proc.store[p] \in {None, config.store[p]}
        /\ \A p \in Members(config.sections) :
             /\ proc.store[p] = config.store[p] \/ ToCome(p, {"attach"})
             /\ config.kind[p] \in {"vault", "cert"} =>
                  p \in proc.ipa \/ ToCome(p, {"attach", "own"})
        /\ Ipa \in Members(config.sections) =>
             proc.principal \/ ToCome(Ipa, {"attach", "own"})
    BY <1>1 DEF WireInv, Later
  <2>3. ASSUME NEW p, NEW places, ToCome(p, places), Top.plugin # p \/ Top.at \notin places
        PROVE  ToCome(p, places)'
    BY <1>1, <1>3, <2>3, InCallKept DEF ToCome
  <2>4. Members(config.sections) \subseteq Plugins /\ Top.plugin \in Plugins
    BY <1>1, ConfigTypes, TopFrame DEF StartupTypeOK
  <2>5. ASSUME NEW p \in Members(config.sections)
        PROVE  proc'.store[p] = config.store[p] \/ ToCome(p, {"attach"})'
    <3>1. CASE proc.store[p] = config.store[p]
      BY <2>1, <2>4, <3>1 DEF Rewired
    <3>2. CASE ToCome(p, {"attach"}) /\ Top.plugin = p /\ Top.at = "attach"
      BY <2>1, <3>2 DEF Rewired
    <3>3. CASE ToCome(p, {"attach"}) /\ ~(Top.plugin = p /\ Top.at = "attach")
      BY <2>3, <3>3
    <3> QED BY <2>2, <3>1, <3>2, <3>3
  <2>6. ASSUME NEW p \in Members(config.sections), config.kind[p] \in {"vault", "cert"}
        PROVE  p \in proc'.ipa \/ ToCome(p, {"attach", "own"})'
    <3>1. CASE p \in proc.ipa
      BY <2>1, <3>1 DEF Rewired
    <3>2. CASE ToCome(p, {"attach", "own"}) /\ Top.plugin = p /\ Top.at \in {"attach", "own"}
      BY <2>1, <2>6, <3>2 DEF Rewired, ToCome
    <3>3. CASE ToCome(p, {"attach", "own"}) /\ ~(Top.plugin = p /\ Top.at \in {"attach", "own"})
      BY <2>3, <3>3
    <3> QED BY <2>2, <2>6, <3>1, <3>2, <3>3
  <2>7. ASSUME Ipa \in Members(config.sections)
        PROVE  proc'.principal \/ ToCome(Ipa, {"attach", "own"})'
    <3>1. CASE proc.principal
      BY <2>1, <3>1 DEF Rewired
    <3>2. CASE ToCome(Ipa, {"attach", "own"}) /\ Top.plugin = Ipa /\ Top.at \in {"attach", "own"}
      BY <2>1, <2>7, <3>2 DEF Rewired, ToCome
    <3>3. CASE /\ ToCome(Ipa, {"attach", "own"})
               /\ ~(Top.plugin = Ipa /\ Top.at \in {"attach", "own"})
      BY <2>3, <3>3
    <3> QED BY <2>2, <2>7, <3>1, <3>2, <3>3
  <2>8. \A p \in Plugins : proc'.store[p] \in {None, config.store[p]}
    BY <2>1, <2>2, <2>4 DEF Rewired
  <2>9. /\ proc'.ipa # {} => Ipa \in Members(config.sections)
        /\ proc'.principal => proc'.api = "ready" \/ InCall(Ipa, {"bootstrap"})'
    BY <2>1 DEF Rewired
  <2> QED
    BY <1>1, <1>3, <2>2, <2>5, <2>6, <2>7, <2>8, <2>9 DEF WireInv, Later, Creating
<1> QED BY <1>1, <1>2, <1>3

LEMMA NoCalls ==
  ASSUME proc.stack = <<>>, NEW p, NEW places
  PROVE  ~InCall(p, places)
  BY DEF InCall, Depth

LEMMA WiresOfNext ==
  ASSUME StartupTypeOK, WireInv, FinalizeNext
  PROVE  WireInv'
<1>1. /\ proc.phase = "finalize" /\ proc.stack = <<>> /\ UNCHANGED config /\ SameWires
      /\ \/ /\ proc.todo # <<>> /\ proc'.phase = "finalize"
            /\ proc'.todo = Tail(proc.todo)
            /\ Depth' = 1
            /\ proc'.stack[1].plugin = Section /\ proc'.stack[1].at = "attach"
         \/ /\ proc.todo = <<>> /\ proc'.todo = <<>> /\ proc'.stack = <<>>
            /\ proc'.phase = "bind"
  BY FinalizeNextStep
<1>2. /\ Members(proc.todo) \subseteq Members(config.sections)
      /\ \A p \in Plugins : proc.store[p] \in {None, config.store[p]}
      /\ \A p \in Members(config.sections) :
           /\ proc.store[p] = config.store[p] \/ p \in Members(proc.todo)
           /\ config.kind[p] \in {"vault", "cert"} =>
                p \in proc.ipa \/ p \in Members(proc.todo)
      /\ proc.ipa # {} => Ipa \in Members(config.sections)
      /\ Ipa \in Members(config.sections) => proc.principal \/ Ipa \in Members(proc.todo)
      /\ proc.principal => proc.api = "ready"
  BY <1>1, NoCalls DEF WireInv, Later, ToCome
<1>3. Members(proc'.todo) \subseteq Members(proc.todo)
  <2>1. CASE proc.todo # <<>>
    BY <1>1, <2>1, TodoHead
  <2>2. CASE proc.todo = <<>>
    BY <1>1, <2>2
  <2> QED BY <2>1, <2>2
<1>4. ASSUME NEW p \in Members(proc.todo), NEW places, "attach" \in places
      PROVE  ToCome(p, places)'
  <2>1. proc.todo # <<>>
    BY MembersOfNone
  <2>2. Depth' = 1 /\ proc'.stack[1].plugin = Section /\ proc'.stack[1].at = "attach"
        /\ proc'.todo = Tail(proc.todo)
    BY <1>1, <2>1
  <2>3. p = Section => InCall(p, places)'
    BY <1>4, <2>2 DEF InCall
  <2>4. p # Section => p \in Members(proc'.todo)
    BY <2>1, <2>2, TodoHead
  <2> QED BY <2>3, <2>4 DEF ToCome
<1>5. ASSUME NEW p \in Members(config.sections)
      PROVE  /\ proc'.store[p] = config.store[p] \/ ToCome(p, {"attach"})'
             /\ config.kind[p] \in {"vault", "cert"} =>
                  p \in proc'.ipa \/ ToCome(p, {"attach", "own"})'
  BY <1>1, <1>2, <1>4 DEF SameWires
<1>6. Ipa \in Members(config.sections) => proc'.principal \/ ToCome(Ipa, {"attach", "own"})'
  BY <1>1, <1>2, <1>4 DEF SameWires
<1>7. proc'.phase = "bind" => proc'.stack = <<>> /\ proc'.todo = <<>>
  BY <1>1
<1> QED
  BY <1>1, <1>2, <1>3, <1>5, <1>6, <1>7 DEF WireInv, Later, Creating, SameWires

\* A step of the first stage that does not end it.
LEMMA WiresUntouched ==
  ASSUME WireInv, proc.phase \in {"options", "logging"} \cup Creating,
         proc'.phase \in {"options", "logging", "failed"} \cup Creating,
         proc'.stack = proc.stack, SameWires
  PROVE  WireInv'
<1>1. Untouched'
  BY DEF WireInv, Untouched, SameWires
<1> QED BY <1>1 DEF WireInv, Later, Creating

LEMMA WiresOfCreation ==
  ASSUME StartupTypeOK, WireInv,
         ReadConfig \/ SetupLogging \/ CreatePlugin \/ CreateKeyFile \/ WriteKey \/ ReadKey
  PROVE  WireInv'
<1>1. proc.phase \in {"options", "logging"} \cup Creating
  BY DEF ReadConfig, SetupLogging, CreatePlugin, CreateKeyFile, WriteKey, ReadKey, Creating
<1>2. CASE \/ Fail \/ IOError
           \/ Goto("logging") \/ Goto("generate") \/ Goto("write") \/ Goto("read")
  <2>1. /\ proc'.phase \in {"failed", "logging", "generate", "write", "read"}
        /\ proc'.stack = proc.stack /\ SameWires
    BY <1>2, PhaseStep, FailStep DEF Phases, SameWires
  <2> QED BY <1>1, <2>1, WiresUntouched DEF Creating
<1>3. CASE \/ proc' = [proc EXCEPT !.phase = "create", !.todo = config.sections]
           \/ proc.phase = "create" /\ proc' = [proc EXCEPT !.todo = Tail(@)]
           \/ proc' = [proc EXCEPT !.mkey[Section] = files[KeyFile],
                                   !.phase = "create", !.todo = Tail(@)]
  <2>1. proc'.phase = "create" /\ proc'.stack = proc.stack /\ SameWires
    BY <1>3 DEF StartupTypeOK, Process, SameWires
  <2> QED BY <1>1, <2>1, WiresUntouched DEF Creating
<1> QED
  BY <1>2, <1>3 DEF ReadConfig, SetupLogging, CreatePlugin, CreateKeyFile, WriteKey, ReadKey

LEMMA WiresOfAllCreated ==
  ASSUME StartupTypeOK, WireInv, AllCreated
  PROVE  WireInv'
<1>1. /\ proc.phase = "create" /\ UNCHANGED config
      /\ proc'.phase = "finalize" /\ proc'.todo = config.menus
      /\ proc'.stack = proc.stack /\ SameWires
  BY DEF AllCreated, StartupTypeOK, Process, SameWires
<1>2. Untouched'
  BY <1>1 DEF WireInv, Creating, Untouched, SameWires
<1>3. Members(proc'.todo) = Members(config.sections)
  BY <1>1, ConfigTypes DEF StartupTypeOK
<1>4. \A p \in Plugins : proc'.store[p] = None
  BY <1>2 DEF Untouched
<1>5. \A p, places : p \in Members(config.sections) => ToCome(p, places)'
  BY <1>3 DEF ToCome
<1> QED BY <1>1, <1>2, <1>3, <1>4, <1>5 DEF WireInv, Untouched, Later, Creating

LEMMA WiresOfBinding ==
  ASSUME StartupTypeOK, WireInv, Unlink \/ Listen
  PROVE  WireInv'
<1>1. /\ proc.phase \in {"bind", "listen"} /\ UNCHANGED config
      /\ proc'.phase \in {"listen", "serving", "failed"}
      /\ proc'.todo = proc.todo /\ proc'.stack = proc.stack /\ SameWires
  BY PhaseStep, FailStep DEF Unlink, Listen, Phases, SameWires
<1>2. \A p, places : ToCome(p, places)' <=> ToCome(p, places)
  BY <1>1 DEF ToCome, InCall, Depth
<1>3. \A p, places : InCall(p, places)' <=> InCall(p, places)
  BY <1>1 DEF InCall, Depth
<1> QED BY <1>1, <1>2, <1>3 DEF WireInv, Later, Creating, SameWires

LEMMA WiresOfLife ==
  ASSUME StartupTypeOK, WireInv, Start \/ Store \/ Stop \/ Kill \/ Repair \/ UNCHANGED vars
  PROVE  WireInv'
<1>1. CASE Start
  <2>1. proc'.phase = "options" /\ Untouched'
    BY <1>1 DEF Start, NewProcess, Untouched
  <2> QED BY <2>1 DEF WireInv, Later, Creating
<1>2. CASE Stop \/ Kill \/ Repair
  <2>1. proc'.phase = "down"
    BY <1>2 DEF Stop, Kill, Repair, NewProcess
  <2> QED BY <2>1 DEF WireInv, Later, Creating
<1>3. CASE Store \/ UNCHANGED vars
  <2>1. UNCHANGED <<config, proc>>
    BY <1>3 DEF Store, vars
  <2> QED BY <2>1 DEF WireInv, Untouched, ToCome, InCall, Depth
<1> QED BY <1>1, <1>2, <1>3

LEMMA WiresStep ==
  ASSUME StartupTypeOK, WireInv, [Next]_vars
  PROVE  WireInv'
  BY WiresOfCall, WiresOfNext, WiresOfCreation, WiresOfAllCreated, WiresOfBinding, WiresOfLife
  DEF Next, Proceed, FinalizeCall

LEMMA WiresInit == Init => WireInv
  BY DEF Init, NewProcess, WireInv, Later, Creating

\* When the second stage is over nothing is to come.
LEMMA WiresServe ==
  ASSUME StartupTypeOK, KeyInv, WireInv
  PROVE  Wired
<1> SUFFICES ASSUME proc.phase = "serving", NEW p \in Members(config.sections)
             PROVE  /\ proc.store[p] = config.store[p]
                    /\ config.kind[p] = "overlay" => proc.mkey[p] \in Keys
                    /\ config.kind[p] \in {"vault", "cert"} => p \in proc.ipa
                    /\ config.kind[p] \in {"vault", "cert", "ipa"} =>
                         proc.principal /\ proc.api = "ready"
  BY DEF Wired
<1>1. proc.stack = <<>> /\ Members(proc.todo) = {}
  BY MembersOfNone DEF WireInv
<1>2. \A q, places : ~ToCome(q, places) /\ ~InCall(q, places)
  BY <1>1, NoCalls DEF ToCome
<1>3. /\ proc.store[p] = config.store[p]
      /\ config.kind[p] \in {"vault", "cert"} => p \in proc.ipa
      /\ proc.ipa # {} => Ipa \in Members(config.sections)
      /\ Ipa \in Members(config.sections) => proc.principal
      /\ proc.principal => proc.api = "ready"
  BY <1>2 DEF WireInv, Later
<1>4. config.kind[p] = "ipa" => p = Ipa
  BY ConfigTypes DEF StartupTypeOK
<1>5. config.kind[p] = "overlay" => proc.mkey[p] \in Keys
  BY DEF KeyInv, Later, HasKey
<1> QED BY <1>3, <1>4, <1>5

\* A server that serves has every plugin initialised, wherever the references of
\* its configuration lead: finalize_init() attaches a store before it calls the
\* store's own finalize_init(), and each call that it makes comes back first.
THEOREM ServesWired == Spec => []Wired
<1>1. StartupTypeOK /\ WireInv /\ [Next]_vars => WireInv'
  BY WiresStep
<1>2. StartupTypeOK /\ KeyInv /\ WireInv => Wired
  BY WiresServe
<1> QED BY <1>1, <1>2, WiresInit, StartupTypeCorrect, PTL DEF Spec

--------------------------------------------------------------------------------
(* Why a start fails.                                                      *)

\* A call that waits for one that it has made has attached its store before, or
\* has set its interface; only the interface is called by one that then asks IPA.
Waiting(i) ==
  \/ proc.stack[i].at = "own" /\ proc.store[proc.stack[i].plugin] # None
  \/ /\ proc.stack[i].at \in {"connect", "return"}
     /\ proc.stack[i].plugin \in proc.ipa
     /\ config.kind[proc.stack[i].plugin] \in {"vault", "cert"}
     /\ proc.stack[i].at = "connect" => proc.stack[i + 1].plugin = Ipa

\* A plugin's calls that wait do so in different ways: in _attach_store() or later.
Way(plugin, at) == <<plugin, IF at = "own" THEN "own" ELSE "later">>
WayOf(i) == Way(proc.stack[i].plugin, proc.stack[i].at)

StackInv ==
  /\ \A i \in 1..Depth : proc.stack[i].plugin \in Members(config.sections)
  /\ \A i \in 1..(Depth - 1) : Waiting(i)
  /\ \A i, j \in 1..(Depth - 1) : WayOf(i) = WayOf(j) => i = j

AtTop(at) == proc.stack # <<>> /\ Top.at = at

\* The interface is bootstrapped once, and ready for those who ask IPA.
IpaInv ==
  /\ proc.api = "ready" => proc.principal
  /\ proc.principal => proc.api = "ready" \/ AtTop("bootstrap")
  /\ AtTop("bootstrap") => proc.principal /\ proc.api = "new"
  /\ AtTop("connect") => proc.api = "ready"
  /\ AtTop("return") /\ Top.plugin = Ipa => proc.principal

ReasonInv ==
  /\ proc.phase = "read" /\ files[KeyFile] = "absent" => ~config.autogen
  /\ proc.phase = "listen" => socket = "none"
  /\ proc.phase \in {"options", "logging"} \cup Creating => proc.api = "new"
  /\ proc.phase = "finalize" => StackInv /\ IpaInv
  /\ StartFailsForAReason

\* As many as can wait, at most: each section twice.
ShallowEnough == IsFiniteSet(Plugins) /\ MaxDepth > 2 * Cardinality(Plugins)

LEMMA DifferentOnes ==
  ASSUME NEW S, IsFiniteSet(S), NEW n \in Nat, NEW f \in [1..n -> S],
         \A i, j \in 1..n : f[i] = f[j] => i = j
  PROVE  n <= Cardinality(S)
<1>1. IsFiniteSet(1..n) /\ Cardinality(1..n) = n
  BY FS_Interval
<1>2. Cardinality(S) \in Nat
  BY FS_CardinalityType
<1>3. CASE Cardinality(S) < n
  <2>1. PICK x, y \in 1..n : x # y /\ f[x] = f[y]
    BY <1>1, <1>3, FS_PigeonHole
  <2> QED BY <2>1
<1> QED BY <1>2, <1>3

LEMMA WaysCount ==
  ASSUME IsFiniteSet(Plugins)
  PROVE  /\ IsFiniteSet(Plugins \X {"own", "later"})
         /\ Cardinality(Plugins \X {"own", "later"}) = 2 * Cardinality(Plugins)
<1>1. IsFiniteSet({"own"}) /\ Cardinality({"own"}) = 1
  BY FS_Singleton
<1>2. {"own", "later"} = {"own"} \cup {"later"} /\ "later" \notin {"own"}
  OBVIOUS
<1>3. IsFiniteSet({"own", "later"}) /\ Cardinality({"own", "later"}) = 2
  BY <1>1, <1>2, FS_AddElement
<1>4. Cardinality(Plugins) \in Nat
  BY FS_CardinalityType
<1>5. /\ IsFiniteSet(Plugins \X {"own", "later"})
      /\ Cardinality(Plugins \X {"own", "later"})
           = Cardinality(Plugins) * Cardinality({"own", "later"})
  BY <1>3, FS_Product
<1> QED BY <1>3, <1>4, <1>5

\* The call at the top is about to wait, in a way that none of its plugin's does.
Fresh(at) == \A i \in 1..(Depth - 1) : WayOf(i) # Way(Top.plugin, at)

LEMMA RoomToCall ==
  ASSUME ShallowEnough, StartupTypeOK, StackInv, proc.stack # <<>>, NEW at, Fresh(at)
  PROVE  Depth # MaxDepth
<1> DEFINE f == [i \in 1..Depth |-> IF i = Depth THEN Way(Top.plugin, at) ELSE WayOf(i)]
<1> DEFINE S == Plugins \X {"own", "later"}
<1>1. /\ Depth \in Nat \ {0} /\ Top.plugin \in Plugins
      /\ \A i \in 1..Depth : proc.stack[i].plugin \in Plugins
  <2>1. \A i \in 1..Depth : proc.stack[i] \in Frames
    BY ProcessTypes DEF Depth
  <2> QED BY <2>1, TopFrame DEF Frames
<1>2. Way(Top.plugin, at) \in S /\ \A i \in 1..Depth : WayOf(i) \in S
  BY <1>1 DEF Way, WayOf
<1>3. f \in [1..Depth -> S]
  BY <1>2
<1>4. ASSUME NEW i \in 1..Depth, NEW j \in 1..Depth, f[i] = f[j]
      PROVE  i = j
  <2>1. i # Depth => i \in 1..(Depth - 1) /\ f[i] = WayOf(i)
    BY <1>1
  <2>2. j # Depth => j \in 1..(Depth - 1) /\ f[j] = WayOf(j)
    BY <1>1
  <2>3. f[Depth] = Way(Top.plugin, at)
    BY <1>1
  <2> HIDE DEF f
  <2> QED BY <1>4, <2>1, <2>2, <2>3 DEF StackInv, Fresh
<1> HIDE DEF f
<1>5. IsFiniteSet(S) /\ Cardinality(S) = 2 * Cardinality(Plugins)
  BY WaysCount DEF ShallowEnough
<1> HIDE DEF S
<1>6. Depth <= Cardinality(S)
  BY <1>1, <1>3, <1>4, <1>5, DifferentOnes
<1>7. MaxDepth \in Nat /\ MaxDepth > Cardinality(S) /\ Cardinality(S) \in Nat
  BY <1>5, StartupAssumption, FS_CardinalityType DEF ShallowEnough
<1> QED BY <1>1, <1>6, <1>7

\* What has been attached or set stays so.
Growing ==
  /\ UNCHANGED config
  /\ \A p \in Plugins : proc.store[p] # None => proc'.store[p] # None
  /\ proc.ipa \subseteq proc'.ipa

\* The call at the top goes on at another place; calls another and waits; is over.
Moved(at) ==
  /\ Below /\ Growing /\ proc.stack # <<>>
  /\ Depth' = Depth /\ proc'.stack[Depth] = [plugin |-> Top.plugin, at |-> at]

Nested(at, p) ==
  /\ Below /\ Growing /\ proc.stack # <<>>
  /\ Depth' = Depth + 1 /\ proc'.stack[Depth] = [plugin |-> Top.plugin, at |-> at]
  /\ proc'.stack[Depth + 1] = [plugin |-> p, at |-> "attach"]

Returned ==
  Below /\ Growing /\ proc.stack # <<>> /\ Depth' = Depth - 1

LEMMA WaitingKept ==
  ASSUME StartupTypeOK, proc.stack # <<>>, Below, Growing,
         NEW i \in 1..(Depth - 1), Waiting(i),
         i + 1 <= Depth - 1 \/ proc'.stack[Depth].plugin = Top.plugin
  PROVE  Waiting(i)' /\ WayOf(i)' = WayOf(i)
<1>1. Depth \in Nat \ {0} /\ i \in 1..Depth /\ proc.stack[i] \in Frames
  BY TopFrame, ProcessTypes DEF Depth
<1>2. proc.stack[i].plugin \in Plugins
  BY <1>1 DEF Frames
<1>3. proc'.stack[i] = proc.stack[i]
  BY DEF Below
<1>4. proc'.stack[i + 1].plugin = proc.stack[i + 1].plugin
  <2>1. CASE i + 1 <= Depth - 1
    BY <1>1, <2>1 DEF Below
  <2>2. CASE i + 1 = Depth
    BY <2>2, <1>1, <1>3 DEF Top, Below
  <2> QED BY <1>1, <2>1, <2>2
<1>5. Waiting(i)'
  BY <1>2, <1>3, <1>4 DEF Waiting, Growing
<1> QED BY <1>3, <1>5 DEF WayOf

LEMMA StackMoved ==
  ASSUME StartupTypeOK, StackInv, NEW at, Moved(at)
  PROVE  /\ StackInv' /\ proc'.stack # <<>>
         /\ Top'.plugin = Top.plugin /\ Top'.at = at
<1>1. /\ Depth \in Nat \ {0} /\ proc.stack # <<>> /\ Below /\ Growing /\ Depth' = Depth
      /\ proc'.stack[Depth] = [plugin |-> Top.plugin, at |-> at]
  BY TopFrame DEF Moved
<1>2. \A i \in 1..(Depth - 1) : Waiting(i)' /\ WayOf(i)' = WayOf(i)
  <2> TAKE i \in 1..(Depth - 1)
  <2> QED BY <1>1, WaitingKept DEF StackInv
<1>3. \A i \in 1..Depth : proc'.stack[i].plugin = proc.stack[i].plugin
  BY <1>1 DEF Below, Top
<1>4. UNCHANGED config /\ Top' = proc'.stack[Depth]
  BY <1>1 DEF Growing, Top
<1>5. proc'.stack # <<>>
  BY <1>1 DEF Depth
<1>6. StackInv'
  BY <1>1, <1>2, <1>3, <1>4 DEF StackInv
<1> QED BY <1>1, <1>4, <1>5, <1>6

LEMMA StackNested ==
  ASSUME StartupTypeOK, StackInv, NEW at, NEW STATE p, Nested(at, p), Fresh(at),
         p \in Members(config.sections),
         \/ at = "own" /\ proc'.store[Top.plugin] # None
         \/ /\ at \in {"connect", "return"} /\ Top.plugin \in proc'.ipa
            /\ config.kind[Top.plugin] \in {"vault", "cert"}
            /\ p = Ipa
  PROVE  /\ StackInv' /\ proc'.stack # <<>> /\ Top'.at = "attach"
<1> PICK d : d = Depth
  OBVIOUS
<1>1. /\ d \in Nat \ {0} /\ proc.stack # <<>> /\ Below /\ Growing /\ Depth' = d + 1 /\ Depth = d
      /\ proc'.stack[d] = [plugin |-> Top.plugin, at |-> at]
      /\ proc'.stack[d + 1] = [plugin |-> p, at |-> "attach"]
  BY TopFrame DEF Nested
<1>2. \A i \in 1..(d - 1) : Waiting(i)' /\ WayOf(i)' = WayOf(i)
  <2> TAKE i \in 1..(d - 1)
  <2> QED BY <1>1, WaitingKept DEF StackInv
<1>3. \A i \in 1..d : proc'.stack[i].plugin = proc.stack[i].plugin
  BY <1>1 DEF Below, Top
<1>4. UNCHANGED config /\ Top' = proc'.stack[d + 1]
  BY <1>1 DEF Growing, Top
<1>5. proc'.stack # <<>>
  BY <1>1 DEF Depth
<1>6. Waiting(d)'
  <2>1. /\ proc'.stack[d].plugin = Top.plugin /\ proc'.stack[d].at = at
        /\ proc'.stack[d + 1].plugin = p
    BY <1>1
  <2> QED BY <1>1, <1>4, <2>1 DEF Waiting
<1>7. WayOf(d)' = Way(Top.plugin, at)
  BY <1>1 DEF WayOf
<1>8. \A i \in 1..d : Waiting(i)'
  BY <1>1, <1>2, <1>6
<1>9. \A i \in 1..(d + 1) : proc'.stack[i].plugin \in Members(config.sections)
  BY <1>1, <1>3 DEF StackInv
<1>10. ASSUME NEW i \in 1..d, NEW j \in 1..d, WayOf(i)' = WayOf(j)'
       PROVE  i = j
  <2>1. CASE i # d /\ j # d
    BY <1>1, <1>2, <1>10, <2>1 DEF StackInv
  <2>2. CASE i # d /\ j = d
    BY <1>1, <1>2, <1>7, <1>10, <2>2 DEF Fresh
  <2>3. CASE i = d /\ j # d
    BY <1>1, <1>2, <1>7, <1>10, <2>3 DEF Fresh
  <2> QED BY <2>1, <2>2, <2>3
<1>11. StackInv'
  BY <1>1, <1>4, <1>8, <1>9, <1>10 DEF StackInv
<1> QED BY <1>1, <1>4, <1>5, <1>11

LEMMA StackPopped ==
  ASSUME StartupTypeOK, StackInv, Returned
  PROVE  /\ StackInv'
         /\ \/ proc'.stack = <<>>
            \/ /\ proc'.stack # <<>> /\ Depth - 1 \in 1..Depth
               /\ Waiting(Depth - 1) /\ Top' = proc.stack[Depth - 1]
<1>1. /\ Depth \in Nat \ {0} /\ proc.stack # <<>> /\ Below /\ Growing /\ Depth' = Depth - 1
  BY TopFrame DEF Returned
<1>2. \A i \in 1..(Depth - 2) : Waiting(i)' /\ WayOf(i)' = WayOf(i)
  <2> TAKE i \in 1..(Depth - 2)
  <2>1. i \in 1..(Depth - 1) /\ i + 1 <= Depth - 1
    BY <1>1
  <2> QED BY <1>1, <2>1, WaitingKept DEF StackInv
<1>3. \A i \in 1..(Depth - 1) : proc'.stack[i] = proc.stack[i]
  BY <1>1 DEF Below
<1>4. UNCHANGED config
  BY <1>1 DEF Growing
<1>5. StackInv'
  BY <1>1, <1>2, <1>3, <1>4 DEF StackInv
<1>6. CASE Depth = 1
  <2>1. proc'.stack \in Seq(Frames) /\ Len(proc'.stack) = 0
    BY <1>1, <1>6 DEF Below, Depth
  <2> QED BY <1>5, <2>1
<1>7. CASE Depth # 1
  <2>1. Depth - 1 \in 1..(Depth - 1) /\ Depth - 1 \in 1..Depth
    BY <1>1, <1>7
  <2>2. Waiting(Depth - 1) /\ Top' = proc.stack[Depth - 1]
    BY <1>1, <1>3, <2>1 DEF StackInv, Top
  <2>3. Depth' \in Nat \ {0}
    BY <1>1, <1>7
  <2>4. proc'.stack # <<>>
    BY <2>3 DEF Depth
  <2> QED BY <1>5, <2>1, <2>2, <2>4
<1> QED BY <1>6, <1>7

LEMMA Moving ==
  ASSUME StartupTypeOK, NEW at \in Places, At(at),
         proc.phase = "finalize", proc.stack # <<>>, UNCHANGED <<config, Disk>>
  PROVE  Moved(at) /\ SameWires /\ proc'.phase = "finalize"
<1>1. /\ TopStep /\ SameWires /\ Depth' = Depth /\ proc'.phase = "finalize"
      /\ proc'.stack[Depth] = [plugin |-> Top.plugin, at |-> at]
  BY Placing
<1> QED BY <1>1 DEF TopStep, SameWires, Moved, Growing

LEMMA Nesting ==
  ASSUME StartupTypeOK, NEW STATE process, process \in Process,
         process.stack = proc.stack, process.phase = "finalize",
         process.todo = proc.todo, process.mkey = proc.mkey,
         \A p \in Plugins : proc.store[p] # None => process.store[p] # None,
         proc.ipa \subseteq process.ipa,
         NEW at \in Places, NEW STATE p, p \in Plugins, proc' = Call(process, at, p),
         proc.phase = "finalize", proc.stack # <<>>, UNCHANGED <<config, Disk>>,
         Depth # MaxDepth
  PROVE  Nested(at, p) /\ SameButStack(proc', process) /\ proc'.phase = "finalize"
<1>1. /\ TopStep /\ SameButStack(proc', process) /\ proc'.phase # "failed"
      /\ Depth' = Depth + 1
      /\ proc'.stack[Depth] = [plugin |-> Top.plugin, at |-> at]
      /\ proc'.stack[Depth + 1] = [plugin |-> p, at |-> "attach"]
  BY Calling
<1>2. Below /\ UNCHANGED config /\ proc'.phase = "finalize"
  BY <1>1 DEF TopStep
<1>3. proc'.store = process.store /\ proc'.ipa = process.ipa
  BY <1>1 DEF SameButStack
<1> QED BY <1>1, <1>2, <1>3 DEF Nested, Growing

LEMMA TopSection ==
  ASSUME StartupTypeOK, StackInv, proc.stack # <<>>
  PROVE  /\ Top.plugin \in Members(config.sections) /\ Top.plugin \in Plugins
         /\ config.kind[Top.plugin] = "ipa" <=> Top.plugin = Ipa
<1>1. Depth \in 1..Depth /\ Top.plugin \in Plugins
  BY TopFrame
<1>2. Top.plugin \in Members(config.sections)
  BY <1>1 DEF StackInv, Top
<1> QED BY <1>1, <1>2, ConfigTypes DEF StartupTypeOK

\* Of a start that has failed.
Reason ==
  \/ config.flaw # None \/ config.bad \in Members(config.sections)
  \/ ~dirs \/ proc.remote \/ proc.io
  \/ \E p \in Members(config.sections) :
       \/ config.store[p] # None /\ config.store[p] \notin config.stores
       \/ config.kind[p] \in {"vault", "cert"} /\ Ipa \notin Members(config.sections)
       \/ /\ config.kind[p] = "overlay"
          /\ \/ files[config.key[p]] = "empty"
             \/ files[config.key[p]] = "absent" /\ ~config.autogen

\* A step of finalize_init() that fails for a reason, or goes on.
Reasoned ==
  \/ proc'.phase = "failed" /\ Reason'
  \/ proc'.phase = "finalize" /\ StackInv' /\ IpaInv'

LEMMA ReasonsOfFlaw ==
  ASSUME config.flaw \in Flaws, UNCHANGED config
  PROVE  Reason'
<1>1. config'.flaw # None
  BY StartupAssumption
<1> QED BY <1>1 DEF Reason

LEMMA ReasonsOfAttachStore ==
  ASSUME ShallowEnough, StartupTypeOK, StackInv, IpaInv, AttachStore
  PROVE  Reasoned
<1> DEFINE p == Top.plugin
<1> DEFINE s == config.store[p]
<1>1. /\ proc.phase = "finalize" /\ proc.stack # <<>> /\ Top.at = "attach"
      /\ UNCHANGED <<config, Disk>>
  BY DEF AttachStore, Running
<1>2. /\ p \in Plugins /\ p \in Members(config.sections)
      /\ config.stores \subseteq Members(config.sections) /\ config.stores \subseteq Plugins
      /\ config \in Configs
  <2>1. config \in Configs
    BY DEF StartupTypeOK
  <2> QED BY <1>1, <2>1, TopSection, ConfigTypes, StartupAssumption
<1>3. CASE At("own")
  <2>1. Moved("own") /\ SameWires /\ proc'.phase = "finalize"
    BY <1>1, <1>3, Moving DEF Places
  <2>2. StackInv' /\ proc'.stack # <<>> /\ Top'.at = "own"
    BY <2>1, StackMoved
  <2>3. IpaInv'
    BY <1>1, <2>1, <2>2 DEF IpaInv, AtTop, SameWires
  <2> QED BY <2>1, <2>2, <2>3 DEF Reasoned
<1>4. CASE s # None /\ s \notin config.stores /\ Fail
  <2>1. proc'.phase = "failed"
    BY <1>4, PhaseStep DEF Fail, Phases, Ended
  <2>2. Reason'
    BY <1>1, <1>2, <1>4 DEF Reason
  <2> QED BY <2>1, <2>2 DEF Reasoned
<1>5. CASE /\ s \in config.stores /\ proc.store[p] = None
           /\ proc' = Call([proc EXCEPT !.store[p] = s], "own", s)
  <2> DEFINE process == [proc EXCEPT !.store[p] = s]
  <2>1. Fresh("own")
    <3> SUFFICES ASSUME NEW i \in 1..(Depth - 1)
                 PROVE  WayOf(i) # Way(Top.plugin, "own")
      BY DEF Fresh
    <3>1. Waiting(i)
      BY DEF StackInv
    <3> QED BY <1>5, <3>1 DEF Waiting, WayOf, Way
  <2>2. Depth # MaxDepth
    BY <1>1, <2>1, RoomToCall
  <2>3. /\ process \in Process /\ process.stack = proc.stack /\ process.phase = "finalize"
        /\ process.todo = proc.todo /\ process.mkey = proc.mkey /\ process.ipa = proc.ipa
        /\ process.principal = proc.principal /\ process.api = proc.api
        /\ process.store = [proc.store EXCEPT ![p] = s]
    BY <1>1, <1>2, <1>5 DEF StartupTypeOK, Process
  <2>4. s \in Plugins /\ "own" \in Places /\ s # None /\ s \in Members(config.sections)
    BY <1>2, <1>5, StartupAssumption DEF Places
  <2>5. proc' = Call(process, "own", s)
    BY <1>5
  <2> HIDE DEF process, s
  <2>6. /\ process.store[p] = s
        /\ \A q \in Plugins : proc.store[q] # None => process.store[q] # None
    BY <1>2, <2>3, <2>4, ProcessTypes
  <2>7. Nested("own", s) /\ SameButStack(proc', process) /\ proc'.phase = "finalize"
    BY <1>1, <2>2, <2>3, <2>4, <2>5, <2>6, Nesting
  <2>8. /\ proc'.principal = proc.principal /\ proc'.api = proc.api
        /\ proc'.store[p] # None
    BY <2>3, <2>4, <2>6, <2>7 DEF SameButStack
  <2>9. StackInv' /\ proc'.stack # <<>> /\ Top'.at = "attach"
    BY <2>1, <2>4, <2>7, <2>8, StackNested
  <2>10. IpaInv'
    BY <1>1, <2>8, <2>9 DEF IpaInv, AtTop
  <2> QED BY <2>7, <2>9, <2>10 DEF Reasoned
<1> QED BY <1>3, <1>4, <1>5 DEF AttachStore, Dangling

LEMMA ReasonsOfInterface ==
  ASSUME StartupTypeOK, StackInv, IpaInv, FinalizeInterface
  PROVE  Reasoned
<1>1. /\ proc.phase = "finalize" /\ proc.stack # <<>> /\ Top.at = "own" /\ Top.plugin = Ipa
      /\ UNCHANGED <<config, Disk>>
  BY DEF FinalizeInterface, Running
<1>2. CASE proc.principal /\ At("return")
  <2>1. Moved("return") /\ SameWires /\ proc'.phase = "finalize"
    BY <1>1, <1>2, Moving DEF Places
  <2>2. StackInv' /\ proc'.stack # <<>> /\ Top'.at = "return"
    BY <2>1, StackMoved
  <2>3. IpaInv'
    BY <1>1, <1>2, <2>1, <2>2 DEF IpaInv, AtTop, SameWires
  <2> QED BY <2>1, <2>2, <2>3 DEF Reasoned
<1>3. CASE /\ ~proc.principal
           /\ proc' = [proc EXCEPT !.principal = TRUE, !.stack[Depth].at = "bootstrap"]
  <2> DEFINE s == SetAt(proc.stack, "bootstrap")
  <2>1. /\ s \in Seq(Frames) /\ Len(s) = Depth
        /\ \A i \in 1..(Depth - 1) : s[i] = proc.stack[i]
        /\ s[Depth] = [plugin |-> Top.plugin, at |-> "bootstrap"]
    BY <1>1, ProcessTypes, TopSet DEF Depth, Top, Places
  <2>2. proc' = [proc EXCEPT !.principal = TRUE, !.stack = s]
    BY <1>3 DEF SetAt, Depth
  <2> HIDE DEF s
  <2>3. /\ proc'.stack = s /\ proc'.phase = "finalize"
        /\ proc'.store = proc.store /\ proc'.ipa = proc.ipa
        /\ proc'.api = proc.api /\ proc'.principal
    BY <1>1, <2>2 DEF StartupTypeOK, Process
  <2>4. Below
    BY <2>1, <2>3, <1>1, TopFrame DEF Below
  <2>5. Moved("bootstrap")
    BY <1>1, <2>1, <2>3, <2>4 DEF Moved, Growing, Depth
  <2>6. StackInv' /\ proc'.stack # <<>> /\ Top'.at = "bootstrap"
    BY <2>5, StackMoved
  <2>7. proc.api = "new"
    BY <1>3, ProcessTypes DEF IpaInv
  <2>8. IpaInv'
    BY <2>3, <2>6, <2>7 DEF IpaInv, AtTop
  <2> QED BY <2>3, <2>6, <2>8 DEF Reasoned
<1>4. CASE proc' = [proc EXCEPT !.phase = "failed", !.remote = TRUE]
  <2>1. proc'.phase = "failed" /\ proc'.remote
    BY <1>4 DEF StartupTypeOK, Process
  <2> QED BY <2>1 DEF Reasoned, Reason
<1> QED BY <1>2, <1>3, <1>4 DEF FinalizeInterface

LEMMA ReasonsOfBootstrap ==
  ASSUME StartupTypeOK, StackInv, IpaInv, Bootstrap
  PROVE  Reasoned
<1>1. /\ proc.phase = "finalize" /\ proc.stack # <<>> /\ Top.at = "bootstrap"
      /\ UNCHANGED <<config, Disk>>
  BY DEF Bootstrap, Running
<1>2. proc.principal /\ proc.api = "new"
  BY <1>1 DEF IpaInv, AtTop
<1>3. proc' = [proc EXCEPT !.api = "ready", !.stack[Depth].at = "connect"]
  BY <1>2 DEF Bootstrap
<1> DEFINE s == SetAt(proc.stack, "connect")
<1>4. /\ s \in Seq(Frames) /\ Len(s) = Depth
      /\ \A i \in 1..(Depth - 1) : s[i] = proc.stack[i]
      /\ s[Depth] = [plugin |-> Top.plugin, at |-> "connect"]
  BY <1>1, ProcessTypes, TopSet DEF Depth, Top, Places
<1>5. proc' = [proc EXCEPT !.api = "ready", !.stack = s]
  BY <1>3 DEF SetAt, Depth
<1> HIDE DEF s
<1>6. /\ proc'.stack = s /\ proc'.phase = "finalize"
      /\ proc'.store = proc.store /\ proc'.ipa = proc.ipa
      /\ proc'.api = "ready" /\ proc'.principal = proc.principal
  BY <1>1, <1>5 DEF StartupTypeOK, Process
<1>7. Below
  BY <1>4, <1>6, <1>1, TopFrame DEF Below
<1>8. Moved("connect")
  BY <1>1, <1>4, <1>6, <1>7 DEF Moved, Growing, Depth
<1>9. StackInv' /\ proc'.stack # <<>> /\ Top'.at = "connect"
  BY <1>8, StackMoved
<1>10. IpaInv'
  BY <1>2, <1>6, <1>9 DEF IpaInv, AtTop
<1> QED BY <1>6, <1>9, <1>10 DEF Reasoned

LEMMA ReasonsOfIpaStore ==
  ASSUME ShallowEnough, StartupTypeOK, StackInv, IpaInv, FinalizeIpaStore
  PROVE  Reasoned
<1> DEFINE p == Top.plugin
<1> DEFINE at == IF config.kind[p] = "vault" THEN "connect" ELSE "return"
<1>1. /\ proc.phase = "finalize" /\ proc.stack # <<>> /\ Top.at = "own"
      /\ config.kind[p] \in {"vault", "cert"} /\ UNCHANGED <<config, Disk>>
  BY DEF FinalizeIpaStore, Running
<1>2. /\ p \in Plugins /\ p \in Members(config.sections)
      /\ config.kind[p] = "ipa" <=> p = Ipa
  BY <1>1, TopSection
<1>3. CASE p \in proc.ipa /\ At("return")
  <2>1. Moved("return") /\ SameWires /\ proc'.phase = "finalize"
    BY <1>1, <1>3, Moving DEF Places
  <2>2. /\ StackInv' /\ proc'.stack # <<>> /\ Top'.at = "return"
        /\ Top'.plugin = p
    BY <2>1, StackMoved
  <2>3. p # Ipa
    BY <1>1, <1>2
  <2>4. IpaInv'
    BY <1>1, <2>1, <2>2, <2>3 DEF IpaInv, AtTop, SameWires
  <2> QED BY <2>1, <2>2, <2>4 DEF Reasoned
<1>4. CASE Ipa \notin Members(config.sections) /\ Fail
  <2>1. proc'.phase = "failed"
    BY <1>4, PhaseStep DEF Fail, Phases, Ended
  <2>2. Reason'
    BY <1>1, <1>2, <1>4 DEF Reason
  <2> QED BY <2>1, <2>2 DEF Reasoned
<1>5. CASE p \notin proc.ipa /\ Ipa \in Members(config.sections) /\ proc' = Initialized(p, at)
  <2> DEFINE process == [proc EXCEPT !.ipa = @ \cup {p}]
  <2>1. PICK place \in {"connect", "return"} : place = at
    OBVIOUS
  <2>2. Fresh(place)
    <3> SUFFICES ASSUME NEW i \in 1..(Depth - 1)
                 PROVE  WayOf(i) # Way(Top.plugin, place)
      BY DEF Fresh
    <3>1. Waiting(i)
      BY DEF StackInv
    <3>2. place # "own"
      BY <2>1
    <3> QED BY <1>5, <3>1, <3>2 DEF Waiting, WayOf, Way
  <2>3. Depth # MaxDepth
    BY <1>1, <2>2, RoomToCall
  <2>4. /\ process \in Process /\ process.stack = proc.stack /\ process.phase = "finalize"
        /\ process.todo = proc.todo /\ process.mkey = proc.mkey
        /\ process.ipa = proc.ipa \cup {p} /\ process.store = proc.store
        /\ process.principal = proc.principal /\ process.api = proc.api
    BY <1>1, <1>2 DEF StartupTypeOK, Process
  <2>5. proc' = Call(process, place, Ipa)
    BY <1>5, <2>1 DEF Initialized
  <2>6. Ipa \in Plugins /\ place \in Places
    BY <1>5, ConfigTypes DEF StartupTypeOK, Places
  <2> HIDE DEF process, at
  <2>7. Nested(place, Ipa) /\ SameButStack(proc', process) /\ proc'.phase = "finalize"
    BY <1>1, <2>3, <2>4, <2>5, <2>6, Nesting
  <2>8. /\ proc'.principal = proc.principal /\ proc'.api = proc.api /\ p \in proc'.ipa
    BY <2>4, <2>7 DEF SameButStack
  <2>9. StackInv' /\ proc'.stack # <<>> /\ Top'.at = "attach"
    BY <1>1, <1>5, <2>2, <2>7, <2>8, StackNested
  <2>10. IpaInv'
    BY <1>1, <2>8, <2>9 DEF IpaInv, AtTop
  <2> QED BY <2>7, <2>9, <2>10 DEF Reasoned
<1> QED BY <1>3, <1>4, <1>5 DEF FinalizeIpaStore

LEMMA ReasonsOfConnect ==
  ASSUME StartupTypeOK, StackInv, IpaInv, Connect
  PROVE  Reasoned
<1>1. /\ proc.phase = "finalize" /\ proc.stack # <<>> /\ Top.at = "connect"
      /\ UNCHANGED <<config, Disk>>
  BY DEF Connect, Running
<1>2. proc.api = "ready" /\ proc.principal
  BY <1>1 DEF IpaInv, AtTop
<1>3. CASE Unreachable
  <2>1. proc'.phase = "failed" /\ proc'.remote
    BY <1>3 DEF Unreachable, StartupTypeOK, Process
  <2> QED BY <2>1 DEF Reasoned, Reason
<1>4. CASE config.flaw = "vault arguments" /\ Fail
  <2>1. proc'.phase = "failed"
    BY <1>4, PhaseStep DEF Fail, Phases, Ended
  <2>2. Reason'
    BY <1>1, <1>4, ReasonsOfFlaw DEF Flaws
  <2> QED BY <2>1, <2>2 DEF Reasoned
<1>5. CASE At("return")
  <2>1. Moved("return") /\ SameWires /\ proc'.phase = "finalize"
    BY <1>1, <1>5, Moving DEF Places
  <2>2. StackInv' /\ proc'.stack # <<>> /\ Top'.at = "return"
    BY <2>1, StackMoved
  <2>3. IpaInv'
    BY <1>2, <2>1, <2>2 DEF IpaInv, AtTop, SameWires
  <2> QED BY <2>1, <2>2, <2>3 DEF Reasoned
<1> QED BY <1>2, <1>3, <1>4, <1>5 DEF Connect

LEMMA ReasonsOfReturn ==
  ASSUME StartupTypeOK, StackInv, IpaInv, Return
  PROVE  Reasoned
<1>1. /\ proc.phase = "finalize" /\ proc.stack # <<>>
      /\ \/ Top.at = "return"
         \/ Top.at = "own" /\ config.kind[Top.plugin] \in {"plain", "overlay"}
      /\ proc' = [proc EXCEPT !.stack = SubSeq(@, 1, Depth - 1)]
      /\ UNCHANGED <<config, Disk>>
  BY DEF Return, Running
<1>2. /\ TopStep /\ SameWires
  BY ReturnStep
<1> DEFINE s == SubSeq(proc.stack, 1, Depth - 1)
<1>3. Len(s) = Depth - 1
  BY <1>1, ProcessTypes, Popped DEF Depth
<1>4. proc' = [proc EXCEPT !.stack = s]
  BY <1>1
<1> HIDE DEF s
<1>5. proc'.phase = "finalize" /\ proc'.stack = s
  BY <1>1, <1>4 DEF StartupTypeOK, Process
<1>6. Returned
  BY <1>1, <1>2, <1>3, <1>5 DEF Returned, TopStep, SameWires, Growing, Depth
<1>7. /\ StackInv'
      /\ \/ proc'.stack = <<>>
         \/ /\ proc'.stack # <<>> /\ Depth - 1 \in 1..Depth
            /\ Waiting(Depth - 1) /\ Top' = proc.stack[Depth - 1]
  BY <1>6, StackPopped
<1>8. proc.principal => proc.api = "ready"
  BY <1>1 DEF IpaInv, AtTop
<1>9. CASE proc'.stack = <<>>
  BY <1>2, <1>5, <1>7, <1>8, <1>9 DEF IpaInv, AtTop, SameWires, Reasoned
<1>10. CASE /\ proc'.stack # <<>> /\ Depth - 1 \in 1..Depth
            /\ Waiting(Depth - 1) /\ Top' = proc.stack[Depth - 1]
  <2> DEFINE f == proc.stack[Depth - 1]
  <2>1. Depth \in Nat /\ proc.stack[(Depth - 1) + 1] = Top
    BY <1>1, TopFrame DEF Top
  <2>2. \/ f.at = "own"
        \/ f.at = "return" /\ config.kind[f.plugin] \in {"vault", "cert"}
        \/ f.at = "connect" /\ Top.plugin = Ipa
    BY <1>10, <2>1 DEF Waiting
  <2>3. f.plugin \in Members(config.sections)
    BY <1>10 DEF StackInv
  <2>4. config.kind[f.plugin] = "ipa" <=> f.plugin = Ipa
    BY <2>3, ConfigTypes DEF StartupTypeOK
  <2>5. Top.plugin = Ipa => proc.principal
    <3>1. Top.plugin = Ipa => config.kind[Top.plugin] = "ipa"
      BY <1>1, TopSection
    <3>2. Top.plugin = Ipa => Top.at = "return"
      BY <1>1, <3>1
    <3> QED BY <1>1, <3>2 DEF IpaInv, AtTop
  <2>6. f.at # "bootstrap" /\ (f.at = "connect" => proc.api = "ready")
    BY <1>8, <2>2, <2>5
  <2>7. f.at = "return" => f.plugin # Ipa
    BY <2>2, <2>4
  <2>8. Top' = f
    BY <1>10
  <2> HIDE DEF f
  <2>9. IpaInv'
    BY <1>2, <1>8, <2>6, <2>7, <2>8 DEF IpaInv, AtTop, SameWires
  <2> QED BY <1>5, <1>7, <2>9 DEF Reasoned
<1> QED BY <1>7, <1>9, <1>10

LEMMA ReasonsOfCall ==
  ASSUME ShallowEnough, StartupTypeOK, StackInv, IpaInv, FinalizeCall
  PROVE  Reasoned
  BY ReasonsOfAttachStore, ReasonsOfInterface, ReasonsOfBootstrap, ReasonsOfIpaStore,
     ReasonsOfConnect, ReasonsOfReturn
  DEF FinalizeCall

\* A phase of which the invariant says nothing but for the interface.
LEMMA ReasonEasy ==
  ASSUME proc'.phase \notin {"failed", "finalize", "listen"},
         proc'.phase = "read" => (files[KeyFile] = "absent" => ~config.autogen)',
         proc'.phase \in {"options", "logging"} \cup Creating => proc'.api = "new"
  PROVE  ReasonInv'
  BY DEF ReasonInv, StartFailsForAReason

LEMMA ReasonFailed ==
  ASSUME proc'.phase = "failed", Reason'
  PROVE  ReasonInv'
<1>1. StartFailsForAReason'
  BY DEF StartFailsForAReason, Reason
<1> QED BY <1>1 DEF ReasonInv, Creating

LEMMA ReasonsOfCreation ==
  ASSUME StartupTypeOK, KeyInv, WireInv, ReasonInv,
         ReadConfig \/ SetupLogging \/ CreatePlugin \/ CreateKeyFile \/ WriteKey \/ ReadKey
  PROVE  ReasonInv'
<1>1. /\ proc.phase \in {"options", "logging"} \cup Creating /\ UNCHANGED config
      /\ proc.api = "new"
  BY DEF ReadConfig, SetupLogging, CreatePlugin, CreateKeyFile, WriteKey, ReadKey, Creating,
         ReasonInv
<1>2. ASSUME Fail, config.flaw \in Flaws
      PROVE  ReasonInv'
  BY <1>1, <1>2, FailStep, ReasonsOfFlaw, ReasonFailed
<1>9. ASSUME IOError
      PROVE  ReasonInv'
  BY <1>9, FailStep, ReasonFailed DEF Reason
<1>3. CASE ReadConfig
  <2>1. CASE Goto("logging")
    <3>1. proc'.phase = "logging" /\ proc'.api = "new"
      BY <1>1, <2>1, PhaseStep DEF Phases
    <3> QED BY <3>1, ReasonEasy
  <2> QED BY <1>2, <1>3, <1>9, <2>1 DEF ReadConfig, Flaws
<1>4. CASE SetupLogging
  <2>1. CASE ~dirs /\ Fail
    <3>1. proc'.phase = "failed"
      BY <2>1, PhaseStep DEF Fail, Phases, Ended
    <3>2. Reason'
      BY <1>4, <2>1 DEF SetupLogging, Disk, Reason
    <3> QED BY <3>1, <3>2, ReasonFailed
  <2>2. CASE proc' = [proc EXCEPT !.phase = "create", !.todo = config.sections]
    <3>1. proc'.phase = "create" /\ proc'.api = "new"
      BY <1>1, <2>2 DEF StartupTypeOK, Process
    <3> QED BY <3>1, ReasonEasy
  <2> QED BY <1>4, <1>9, <2>1, <2>2 DEF SetupLogging
<1>5. CASE CreatePlugin
  <2>1. CASE proc' = [proc EXCEPT !.todo = Tail(@)]
    <3>1. proc'.phase = "create" /\ proc'.api = "new"
      BY <1>1, <1>5, <2>1 DEF StartupTypeOK, Process, CreatePlugin
    <3> QED BY <3>1, ReasonEasy
  <2>2. CASE MustGenerate /\ Goto("generate")
    <3>1. proc'.phase = "generate" /\ proc'.api = "new"
      BY <1>1, <2>2, PhaseStep DEF Phases
    <3> QED BY <3>1, ReasonEasy
  <2>3. CASE ~MustGenerate /\ Goto("read")
    <3>1. proc'.phase = "read" /\ proc'.api = "new" /\ proc'.todo = proc.todo
      BY <1>1, <2>3, PhaseStep DEF Phases
    <3>2. (files[KeyFile] = "absent" => ~config.autogen)'
      BY <1>5, <2>3, <3>1 DEF CreatePlugin, Disk, MustGenerate, KeyFile, Section
    <3> QED BY <3>1, <3>2, ReasonEasy
  <2>4. CASE Section = config.bad /\ Fail
    <3>1. /\ proc.phase = "create" /\ proc.todo # <<>>
          /\ Members(proc.todo) \subseteq Members(config.sections)
      BY <1>5 DEF CreatePlugin, KeyInv, Creating
    <3>2. config.bad \in Members(config.sections)
      BY <2>4, <3>1, TodoHead
    <3>3. proc'.phase = "failed" /\ Reason'
      BY <1>1, <2>4, <3>2, FailStep DEF Reason
    <3> QED BY <3>3, ReasonFailed
  <2> QED BY <1>5, <1>9, <2>1, <2>2, <2>3, <2>4 DEF CreatePlugin
<1>6. CASE CreateKeyFile /\ Goto("write")
  <2>1. proc'.phase = "write" /\ proc'.api = "new"
    BY <1>1, <1>6, PhaseStep DEF Phases
  <2> QED BY <2>1, ReasonEasy
<1>7. CASE WriteKey /\ Goto("read")
  <2>1. proc'.phase = "read" /\ proc'.api = "new" /\ proc'.todo = proc.todo
    BY <1>1, <1>7, PhaseStep DEF Phases
  <2>2. PICK k \in Keys : files' = [files EXCEPT ![KeyFile] = k]
    BY <1>7, <2>1, FailStep DEF WriteKey
  <2>3. KeyFile' = KeyFile /\ KeyFile \in Files
    <3>1. KeyFile' = KeyFile
      BY <1>1, <2>1 DEF KeyFile, Section
    <3>2. proc.todo # <<>> /\ IsOverlay /\ Members(proc.todo) \subseteq Members(config.sections)
      BY <1>7 DEF WriteKey, KeyInv, Creating
    <3>3. config.key[Section] \in Files
      BY <3>2, TodoHead, ConfigTypes DEF StartupTypeOK, IsOverlay
    <3> QED BY <3>1, <3>3 DEF KeyFile
  <2>4. files'[KeyFile] = k /\ k # "absent"
    BY <2>2, <2>3, StartupAssumption DEF StartupTypeOK
  <2>5. (files[KeyFile] = "absent" => ~config.autogen)'
    BY <2>3, <2>4
  <2> QED BY <2>1, <2>5, ReasonEasy
<1>8. CASE ReadKey
  <2>1. CASE files[KeyFile] \in {"absent", "empty"} /\ Fail
    <3>1. proc'.phase = "failed"
      BY <2>1, PhaseStep DEF Fail, Phases, Ended
    <3>2. proc.todo # <<>> /\ IsOverlay /\ Members(proc.todo) \subseteq Members(config.sections)
      BY <1>8 DEF ReadKey, KeyInv, Creating
    <3>3. Section \in Members(config.sections) /\ config.kind[Section] = "overlay"
      BY <3>2, TodoHead DEF IsOverlay
    <3>4. files[KeyFile] = "absent" => ~config.autogen
      BY <1>8 DEF ReadKey, ReasonInv
    <3>5. Reason'
      BY <1>8, <2>1, <3>3, <3>4 DEF ReadKey, Disk, Reason, KeyFile
    <3> QED BY <3>1, <3>5, ReasonFailed
  <2>2. CASE proc' = [proc EXCEPT !.mkey[Section] = files[KeyFile],
                                  !.phase = "create", !.todo = Tail(@)]
    <3>1. proc'.phase = "create" /\ proc'.api = "new"
      BY <1>1, <2>2 DEF StartupTypeOK, Process
    <3> QED BY <3>1, ReasonEasy
  <2> QED BY <1>8, <1>9, <2>1, <2>2 DEF ReadKey
<1> QED BY <1>3, <1>4, <1>5, <1>6, <1>7, <1>8, <1>9 DEF CreateKeyFile, WriteKey

LEMMA ReasonsOfAllCreated ==
  ASSUME StartupTypeOK, WireInv, ReasonInv, AllCreated
  PROVE  ReasonInv'
<1>1. /\ proc.phase = "create" /\ proc'.phase = "finalize" /\ proc'.stack = proc.stack
      /\ proc'.api = proc.api /\ proc'.principal = proc.principal
      /\ UNCHANGED <<config, Disk>>
  BY DEF AllCreated, StartupTypeOK, Process
<1>2. proc.stack = <<>> /\ ~proc.principal /\ proc.api = "new"
  BY <1>1 DEF WireInv, ReasonInv, Creating, Untouched
<1>3. Depth' = 0
  BY <1>1, <1>2 DEF Depth
<1>4. StackInv'
  BY <1>3 DEF StackInv
<1>5. IpaInv'
  BY <1>1, <1>2 DEF IpaInv, AtTop
<1> QED BY <1>1, <1>4, <1>5 DEF ReasonInv, StartFailsForAReason, Creating

LEMMA ReasonsOfNext ==
  ASSUME StartupTypeOK, WireInv, ReasonInv, FinalizeNext
  PROVE  ReasonInv'
<1>1. /\ proc.phase = "finalize" /\ proc.stack = <<>> /\ UNCHANGED config /\ SameWires
      /\ \/ /\ proc.todo # <<>> /\ proc'.phase = "finalize" /\ Depth' = 1
            /\ proc'.stack[1].plugin = Section /\ proc'.stack[1].at = "attach"
         \/ proc'.phase = "bind"
  BY FinalizeNextStep
<1>2. proc'.phase = "bind" => ReasonInv'
  BY ReasonEasy DEF Creating
<1>3. CASE /\ proc.todo # <<>> /\ proc'.phase = "finalize" /\ Depth' = 1
           /\ proc'.stack[1].plugin = Section /\ proc'.stack[1].at = "attach"
  <2>1. Section \in Members(config.sections)
    BY <1>1, <1>3, TodoHead DEF WireInv, Later
  <2>2. StackInv'
    BY <1>1, <1>3, <2>1 DEF StackInv
  <2>3. Top'.at = "attach"
    BY <1>3 DEF Top
  <2>4. IpaInv'
    BY <1>1, <2>3 DEF ReasonInv, IpaInv, AtTop, SameWires
  <2> QED BY <1>3, <2>2, <2>4 DEF ReasonInv, StartFailsForAReason, Creating
<1> QED BY <1>1, <1>2, <1>3

LEMMA ReasonsOfBinding ==
  ASSUME StartupTypeOK, ReasonInv, Unlink \/ Listen
  PROVE  ReasonInv'
<1>1. CASE Unlink
  <2>1. proc'.phase = "listen" /\ socket' = "none"
    BY <1>1, PhaseStep DEF Unlink, Phases
  <2> QED BY <2>1 DEF ReasonInv, StartFailsForAReason, Creating
<1>2. CASE Listen
  <2>1. socket = "none"
    BY <1>2 DEF Listen, ReasonInv
  <2>2. CASE config.flaw = "no certificate" /\ Fail
    BY <1>2, <2>2, FailStep, ReasonsOfFlaw, ReasonFailed DEF Listen, Flaws
  <2>3. CASE Goto("serving")
    <3>1. proc'.phase = "serving"
      BY <2>3, PhaseStep DEF Phases, Ended
    <3> QED BY <3>1, ReasonEasy DEF Creating
  <2>4. CASE IOError
    BY <2>4, FailStep, ReasonFailed DEF Reason
  <2> QED BY <1>2, <2>1, <2>2, <2>3, <2>4 DEF Listen
<1> QED BY <1>1, <1>2

LEMMA ReasonsOfLife ==
  ASSUME StartupTypeOK, ReasonInv,
         Start \/ Store \/ Stop \/ Kill \/ Repair \/ UNCHANGED vars
  PROVE  ReasonInv'
<1>1. CASE Start
  <2>1. proc'.phase = "options" /\ proc'.api = "new"
    BY <1>1 DEF Start, NewProcess
  <2> QED BY <2>1, ReasonEasy
<1>2. CASE Stop \/ Kill \/ Repair
  <2>1. proc'.phase = "down"
    BY <1>2 DEF Stop, Kill, Repair, NewProcess
  <2> QED BY <2>1, ReasonEasy DEF Creating
<1>3. CASE Store
  <2>1. proc'.phase = "serving"
    BY <1>3 DEF Store
  <2> QED BY <2>1, ReasonEasy DEF Creating
<1>4. CASE UNCHANGED vars
  <2>1. UNCHANGED <<config, proc, files, dirs, socket>>
    BY <1>4 DEF vars, Disk
  <2>2. StackInv => StackInv'
    <3>1. Depth' = Depth
      BY <2>1 DEF Depth
    <3>2. ASSUME NEW i
          PROVE  (Waiting(i) => Waiting(i)') /\ WayOf(i)' = WayOf(i)
      BY <2>1 DEF Waiting, WayOf
    <3> QED BY <2>1, <3>1, <3>2 DEF StackInv
  <2>3. IpaInv => IpaInv'
    <3>1. Depth' = Depth
      BY <2>1 DEF Depth
    <3>2. Top' = Top
      BY <2>1, <3>1 DEF Top
    <3>3. ASSUME NEW at
          PROVE  AtTop(at)' <=> AtTop(at)
      BY <2>1, <3>2 DEF AtTop
    <3> QED BY <2>1, <3>2, <3>3 DEF IpaInv
  <2>4. StartFailsForAReason => StartFailsForAReason'
    BY <2>1 DEF StartFailsForAReason
  <2>5. KeyFile' = KeyFile
    BY <2>1 DEF KeyFile, Section
  <2> QED BY <2>1, <2>2, <2>3, <2>4, <2>5 DEF ReasonInv
<1> QED BY <1>1, <1>2, <1>3, <1>4

LEMMA ReasonsStep ==
  ASSUME ShallowEnough, StartupTypeOK, KeyInv, WireInv, ReasonInv, [Next]_vars
  PROVE  ReasonInv'
<1>1. CASE FinalizeCall
  <2>1. proc.phase = "finalize"
    BY <1>1, FinalizeCallStep DEF TopStep
  <2>2. Reasoned
    BY <1>1, <2>1, ReasonsOfCall DEF ReasonInv
  <2>3. CASE proc'.phase = "finalize" /\ StackInv' /\ IpaInv'
    BY <2>3 DEF ReasonInv, StartFailsForAReason, Creating
  <2> QED BY <2>2, <2>3, ReasonFailed DEF Reasoned
<1> QED
  BY <1>1, ReasonsOfCreation, ReasonsOfAllCreated, ReasonsOfNext, ReasonsOfBinding,
     ReasonsOfLife
  DEF Next, Proceed, FinalizeCall

\* A start fails only for a flaw that the operator can see, a failure of IPA or of
\* the operating system (SqliteStore.__init__(), EncryptedOverlay.__init__()), or a
\* key file without a key, wherever references lead and whatever was killed before:
\* a plugin waits in _attach_store() at most once, and at most once for the
\* interface, so that calls nest no deeper than twice the number of sections; and
\* the interface is bootstrapped once, before anybody asks IPA.
THEOREM FailsForAReason ==
  ASSUME ShallowEnough
  PROVE  Spec => []StartFailsForAReason
<1>1. Init => ReasonInv
  BY DEF Init, NewProcess, ReasonInv, StartFailsForAReason, Creating
<1>2. StartupTypeOK /\ KeyInv /\ WireInv /\ ReasonInv /\ [Next]_vars => ReasonInv'
  BY ReasonsStep
<1>3. StartupTypeOK /\ WireInv /\ [Next]_vars => WireInv'
  BY WiresStep
<1>4. ReasonInv => StartFailsForAReason
  BY DEF ReasonInv
<1> QED
  BY <1>1, <1>2, <1>3, <1>4, WiresInit, StartupTypeCorrect, PTL DEF Spec
================================================================================
