-------------------------------- MODULE Startup --------------------------------
(***************************************************************************)
(* The start of a server (server/__init__.py): its plugins are created     *)
(* section by section and then initialised by finalize_init(), which       *)
(* follows the references from plugin to store and from store to the IPA   *)
(* interface wherever they lead, before the socket is bound.  The process  *)
(* may be killed between any two steps and is then started again, perhaps  *)
(* with another configuration; its files, the rows that were encrypted     *)
(* with the keys in them, and a socket that was bound stay behind.         *)
(*                                                                         *)
(* One process runs at a time.                                             *)
(***************************************************************************)
EXTENDS Naturals, Sequences

CONSTANTS
  Plugins,    \* the names of sections
  Ipa,        \* of these, 'auth:ipa', the one section IPAInterface accepts
  Files,      \* where master keys are kept
  Keys,
  Configs,    \* what the server is configured with from time to time
  MaxDepth,   \* how deep calls may be nested (a bound on Python's limit)
  None

Kinds == {"plain", "ipa", "vault", "cert", "overlay"}

\* What a configuration may get wrong, but for references and key files.
Flaws == {"two sockets", "vault arguments", "no certificate"}

\* sections is the order of the file; menus is that of the second stage, sorted
\* within authenticators, authorizers, consumers and stores.  Of a plugin, store
\* is its store_name and key the file of its master key; EncryptedStore is an
\* overlay without autogen.  bad is the section, if any, whose name, handler or
\* options are not accepted.
Config ==
  [sections : Seq(Plugins), menus : Seq(Plugins), kind : [Plugins -> Kinds],
   stores : SUBSET Plugins, store : [Plugins -> Plugins \cup {None}],
   key : [Plugins -> Files \cup {None}], autogen : BOOLEAN, makedirs : BOOLEAN,
   bad : Plugins \cup {None}, flaw : Flaws \cup {None}]

Members(seq) == {seq[i] : i \in 1..Len(seq)}

ASSUME StartupAssumption ==
  /\ None \notin Plugins \cup Files \cup Keys \cup Flaws
  /\ {"absent", "empty"} \cap Keys = {}
  /\ MaxDepth \in Nat
  /\ \A c \in Configs :
       /\ c \in Config
       /\ Members(c.menus) = Members(c.sections) /\ c.stores \subseteq Members(c.sections)
       /\ \A p \in Members(c.sections) :
            /\ c.kind[p] = "ipa" <=> p = Ipa
            /\ c.kind[p] = "overlay" => c.key[p] # None

VARIABLES
  config,
  proc,      \* the process
  files,     \* what each key file holds: "empty" has no key, or a part of one
  rows,      \* the keys that rows have been encrypted with, by the key's file
  dirs,      \* the directories are there
  socket     \* in the file system: "none", "bound" or, of an earlier process, "stale"

vars == <<config, proc, files, rows, dirs, socket>>

Ended == {"down", "failed"}

Phases == Ended \cup {"options", "logging", "create", "generate", "write", "read",
                      "finalize", "bind", "listen", "serving"}

\* Where a call of finalize_init() is: in the base class, in the plugin's own
\* class, in _bootstrap(), about to ask IPA, or about to return.
Frames == [plugin : Plugins, at : {"attach", "own", "bootstrap", "connect", "return"}]

\* store and ipa are the plugins' attributes of these names, principal and api
\* those of the interface; remote says that Kerberos or IPA failed, and io that a
\* file, a database or the socket could not be opened, made or written.
NewProcess(phase) ==
  [phase |-> phase, todo |-> <<>>, stack |-> <<>>, store |-> [p \in Plugins |-> None],
   mkey |-> [p \in Plugins |-> None], ipa |-> {}, principal |-> FALSE, api |-> "new",
   remote |-> FALSE, io |-> FALSE]

Process ==
  [phase : Phases, todo : Seq(Plugins), stack : Seq(Frames),
   store : [Plugins -> Plugins \cup {None}], mkey : [Plugins -> Keys \cup {None}],
   ipa : SUBSET Plugins, principal : BOOLEAN, api : {"new", "ready"}, remote : BOOLEAN,
   io : BOOLEAN]

StartupTypeOK ==
  /\ config \in Configs /\ proc \in Process
  /\ files \in [Files -> Keys \cup {"absent", "empty"}]
  /\ rows \in [Files -> SUBSET Keys]
  /\ dirs \in BOOLEAN /\ socket \in {"none", "bound", "stale"}

Init ==
  /\ config \in Configs
  /\ proc = NewProcess("down")
  /\ files = [f \in Files |-> "absent"]
  /\ rows = [f \in Files |-> {}]
  /\ dirs = FALSE /\ socket = "none"

--------------------------------------------------------------------------------
Disk == <<files, rows, dirs, socket>>

Goto(phase) == proc' = [proc EXCEPT !.phase = phase]

\* main() raises.
Fail == Goto("failed")

\* main() raises what the operating system, or SQLite, did.
IOError == proc' = [proc EXCEPT !.phase = "failed", !.io = TRUE]

Start ==
  /\ proc.phase \in Ended
  /\ config' \in Configs
  /\ proc' = NewProcess("options")
  /\ UNCHANGED Disk

\* parse_config(): directories are made if the option says so.
ReadConfig ==
  /\ proc.phase = "options"
  /\ \/ IOError /\ UNCHANGED dirs
     \/ config.flaw = "two sockets" /\ Fail /\ UNCHANGED dirs
     \/ config.flaw # "two sockets" /\ Goto("logging") /\ dirs' = (dirs \/ config.makedirs)
  /\ UNCHANGED <<config, files, rows, socket>>

\* setup_logging() opens the audit log.
SetupLogging ==
  /\ proc.phase = "logging"
  /\ \/ ~dirs /\ Fail
     \/ IOError
     \/ dirs /\ proc' = [proc EXCEPT !.phase = "create", !.todo = config.sections]
  /\ UNCHANGED <<config, Disk>>

--------------------------------------------------------------------------------
\* The first stage of _load_plugins(): __init__() of each plugin.
Section == Head(proc.todo)
KeyFile == config.key[Section]
IsOverlay == config.kind[Section] = "overlay"

\* Broken: a file that is there is not looked for.
MustGenerateAlways == config.autogen

MustGenerate == files[KeyFile] = "absent" /\ config.autogen

\* Of the plugins the stores open their databases.
CreatePlugin ==
  /\ proc.phase = "create" /\ proc.todo # <<>>
  /\ \/ Section = config.bad /\ Fail
     \/ /\ Section # config.bad
        /\ \/ config.kind[Section] \in {"plain", "overlay"} /\ IOError
           \/ ~IsOverlay /\ proc' = [proc EXCEPT !.todo = Tail(@)]
           \/ IsOverlay /\ Goto(IF MustGenerate THEN "generate" ELSE "read")
  /\ UNCHANGED <<config, Disk>>

\* open() for writing leaves an empty file, or none.
CreateKeyFile ==
  /\ proc.phase = "generate"
  /\ \/ files' = [files EXCEPT ![KeyFile] = "empty"] /\ Goto("write")
     \/ IOError /\ UNCHANGED files
  /\ UNCHANGED <<config, rows, dirs, socket>>

\* A fresh key is unlike those of all files.
WriteKey ==
  /\ proc.phase = "write"
  /\ \/ /\ \E k \in Keys \ {files[f] : f \in Files} : files' = [files EXCEPT ![KeyFile] = k]
        /\ Goto("read")
     \/ IOError /\ UNCHANGED files
  /\ UNCHANGED <<config, rows, dirs, socket>>

\* Broken: whatever the file holds is taken.
ReadKeyUnchecked ==
  /\ proc.phase = "read"
  /\ proc' = [proc EXCEPT !.mkey[Section] = files[KeyFile],
                          !.phase = "create", !.todo = Tail(@)]
  /\ UNCHANGED <<config, Disk>>

ReadKey ==
  /\ proc.phase = "read"
  /\ \/ files[KeyFile] \in {"absent", "empty"} /\ Fail
     \/ IOError
     \/ /\ files[KeyFile] \in Keys
        /\ proc' = [proc EXCEPT !.mkey[Section] = files[KeyFile],
                                !.phase = "create", !.todo = Tail(@)]
  /\ UNCHANGED <<config, Disk>>

AllCreated ==
  /\ proc.phase = "create" /\ proc.todo = <<>>
  /\ proc' = [proc EXCEPT !.phase = "finalize", !.todo = config.menus]
  /\ UNCHANGED <<config, Disk>>

--------------------------------------------------------------------------------
\* The second stage: the stack of finalize_init().
Depth == Len(proc.stack)
Top == proc.stack[Depth]
Running(at) == proc.phase = "finalize" /\ proc.stack # <<>> /\ Top.at = at

\* The caller is about to go on at the place given, and calls that of p.
Call(process, at, p) ==
  IF Depth = MaxDepth
  THEN [process EXCEPT !.phase = "failed"]
  ELSE [process EXCEPT !.stack = Append([@ EXCEPT ![Depth].at = at],
                                        [plugin |-> p, at |-> "attach"])]

At(at) == proc' = [proc EXCEPT !.stack[Depth].at = at]

FinalizeNext ==
  /\ proc.phase = "finalize" /\ proc.stack = <<>>
  /\ \/ /\ proc.todo # <<>>
        /\ proc' = [proc EXCEPT !.stack = <<[plugin |-> Section, at |-> "attach"]>>,
                                !.todo = Tail(@)]
     \/ proc.todo = <<>> /\ Goto("bind")
  /\ UNCHANGED <<config, Disk>>

\* Broken: a plugin does without a store that is not there.
DanglingIgnored == At("own")

Dangling == Fail

\* CustodiaPlugin.finalize_init() and _attach_store().
AttachStore ==
  LET p == Top.plugin
      s == config.store[p]
  IN
  /\ Running("attach")
  /\ \/ (s = None \/ proc.store[p] # None) /\ At("own")
     \/ s # None /\ proc.store[p] = None /\ s \notin config.stores /\ Dangling
     \/ /\ s \in config.stores /\ proc.store[p] = None
        /\ proc' = Call([proc EXCEPT !.store[p] = s], "own", s)
  /\ UNCHANGED <<config, Disk>>

\* IPAInterface.finalize_init() up to the principal.
FinalizeInterface ==
  /\ Running("own") /\ Top.plugin = Ipa
  /\ \/ proc.principal /\ At("return")
     \/ ~proc.principal /\ proc' = [proc EXCEPT !.principal = TRUE,
                                                !.stack[Depth].at = "bootstrap"]
     \/ ~proc.principal /\ proc' = [proc EXCEPT !.phase = "failed", !.remote = TRUE]
  /\ UNCHANGED <<config, Disk>>

\* ipalib refuses a second bootstrap.
Bootstrap ==
  /\ Running("bootstrap")
  /\ proc' = IF proc.api = "ready" THEN [proc EXCEPT !.phase = "failed"]
              ELSE [proc EXCEPT !.api = "ready", !.stack[Depth].at = "connect"]
  /\ UNCHANGED <<config, Disk>>

\* Broken: the interface is taken for one that is ready.
InitializedTrusting(p, at) == [proc EXCEPT !.ipa = @ \cup {p}, !.stack[Depth].at = at]

\* self.ipa is set first and then asked to initialise itself.
Initialized(p, at) == Call([proc EXCEPT !.ipa = @ \cup {p}], at, Ipa)

\* IPAVault.finalize_init() and IPACertRequest.finalize_init().
FinalizeIpaStore ==
  LET p == Top.plugin IN
  /\ Running("own") /\ config.kind[p] \in {"vault", "cert"}
  /\ \/ p \in proc.ipa /\ At("return")
     \/ p \notin proc.ipa /\ Ipa \notin Members(config.sections) /\ Fail
     \/ /\ p \notin proc.ipa /\ Ipa \in Members(config.sections)
        /\ proc' = Initialized(p, IF config.kind[p] = "vault" THEN "connect" ELSE "return")
  /\ UNCHANGED <<config, Disk>>

\* Broken: the interface is made anew until IPA can be reached.
UnreachableRetries ==
  proc' = [proc EXCEPT !.principal = FALSE, !.api = "new", !.stack[Depth].at = "own"]

Unreachable == proc' = [proc EXCEPT !.phase = "failed", !.remote = TRUE]

\* ping() or vaultconfig_show(), and then _init_vault_args().
Connect ==
  /\ Running("connect")
  /\ \/ Unreachable
     \/ IF \/ proc.api = "new"
           \/ Top.plugin # Ipa /\ config.flaw = "vault arguments"
        THEN Fail ELSE At("return")
  /\ UNCHANGED <<config, Disk>>

Return ==
  /\ \/ Running("return")
     \/ Running("own") /\ config.kind[Top.plugin] \in {"plain", "overlay"}
  /\ proc' = [proc EXCEPT !.stack = SubSeq(@, 1, Depth - 1)]
  /\ UNCHANGED <<config, Disk>>

--------------------------------------------------------------------------------
\* Broken: a name that is there is left alone.
UnlinkNothing ==
  /\ proc.phase = "bind"
  /\ Goto("listen")
  /\ UNCHANGED <<config, Disk>>

\* ForkingUnixHTTPServer.server_bind() removes what an earlier process left; if
\* it cannot, Listen fails.
Unlink ==
  /\ proc.phase = "bind"
  /\ Goto("listen")
  /\ socket' = "none"
  /\ UNCHANGED <<config, files, rows, dirs>>

\* A name that exists cannot be bound to.
Listen ==
  /\ proc.phase = "listen"
  /\ IF config.flaw = "no certificate" \/ socket # "none"
     THEN Fail /\ UNCHANGED socket
     ELSE \/ Goto("serving") /\ socket' = "bound"
          \/ IOError /\ UNCHANGED socket
  /\ UNCHANGED <<config, files, rows, dirs>>

\* A child stores a row through an overlay.
Store ==
  /\ proc.phase = "serving"
  /\ \E p \in Members(config.sections) :
       /\ config.kind[p] = "overlay"
       /\ rows' = [rows EXCEPT ![config.key[p]] = @ \cup {proc.mkey[p]}]
  /\ UNCHANGED <<config, proc, files, dirs, socket>>

\* The server is stopped: the socket is removed on exit.
Stop ==
  /\ proc.phase = "serving"
  /\ proc' = NewProcess("down")
  /\ socket' = "none"
  /\ UNCHANGED <<config, files, rows, dirs>>

Kill ==
  /\ proc.phase \notin Ended
  /\ proc' = NewProcess("down")
  /\ socket' = IF socket = "bound" THEN "stale" ELSE socket
  /\ UNCHANGED <<config, files, rows, dirs>>

\* The operator removes a key file that holds no key.
Repair ==
  /\ proc.phase \in Ended
  /\ \E f \in Files : files[f] = "empty" /\ files' = [files EXCEPT ![f] = "absent"]
  /\ proc' = NewProcess("down")
  /\ UNCHANGED <<config, rows, dirs, socket>>

Proceed ==
  \/ ReadConfig \/ SetupLogging
  \/ CreatePlugin \/ CreateKeyFile \/ WriteKey \/ ReadKey \/ AllCreated
  \/ FinalizeNext \/ AttachStore \/ FinalizeInterface \/ Bootstrap \/ FinalizeIpaStore
  \/ Connect \/ Return \/ Unlink \/ Listen

Next == Proceed \/ Start \/ Store \/ Stop \/ Kill \/ Repair

Spec == Init /\ [][Next]_vars

\* The kernel schedules the process; nobody has to start it.
FairSpec == Spec /\ WF_vars(Proceed)

--------------------------------------------------------------------------------
\* A server that serves has every plugin initialised: its store is the one it
\* names, an overlay has a key, and the stores that need it have an interface
\* that is ready, whatever the order of the sections and wherever references
\* lead, in a circle too (_attach_store() attaches before it goes on).
Wired ==
  proc.phase = "serving" =>
    \A p \in Members(config.sections) :
      /\ proc.store[p] = config.store[p]
      /\ config.kind[p] = "overlay" => proc.mkey[p] \in Keys
      /\ config.kind[p] \in {"vault", "cert"} => p \in proc.ipa
      /\ config.kind[p] \in {"vault", "cert", "ipa"} => proc.principal /\ proc.api = "ready"

\* A start fails only for what the operator can see: a flaw or a missing section
\* or file of the configuration, a failure of IPA or of the operating system, or
\* a key file that a start has left empty, which was killed or could not write
\* it.  Neither circles of references, nor a second call of
\* finalize_init(), nor what a killed server has left is a reason.
StartFailsForAReason ==
  proc.phase = "failed" =>
    \/ config.flaw # None \/ config.bad \in Members(config.sections)
    \/ ~dirs \/ proc.remote \/ proc.io
    \/ \E p \in Members(config.sections) :
         \/ config.store[p] # None /\ config.store[p] \notin config.stores
         \/ config.kind[p] \in {"vault", "cert"} /\ Ipa \notin Members(config.sections)
         \/ /\ config.kind[p] = "overlay"
            /\ \/ files[config.key[p]] = "empty"
               \/ files[config.key[p]] = "absent" /\ ~config.autogen

\* Every row was encrypted with the key that is in its file now: a server that
\* is started again, after a kill at any point too, can read what earlier ones
\* stored (EncryptedOverlay.__init__() generates a key for no file that is there).
RowsReadable == \A f \in Files : rows[f] \subseteq {files[f]}

\* A start comes to an end.
StartsEnd == proc.phase \notin Ended \cup {"serving"} ~> proc.phase \in Ended \cup {"serving"}
================================================================================
