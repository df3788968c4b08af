------------------------------- MODULE MCStartup -------------------------------
(***************************************************************************)
(* Configurations in which a server has to find its way: references that   *)
(* lead through overlays to IPA before its own section is reached, in a    *)
(* circle, or to nothing.                                                  *)
(***************************************************************************)
EXTENDS Startup

MCPlugins == {"auth:a", "auth:ipa", "/", "store:e", "store:f", "store:s"}

\* Two overlays with one key file over a store of the kind given.
Stack(kind, store) ==
  [sections |-> <<"store:e", "/", "store:s", "store:f", "auth:a", "auth:ipa">>,
   menus |-> <<"auth:a", "auth:ipa", "/", "store:e", "store:f", "store:s">>,
   kind |-> [p \in MCPlugins |->
               IF p \in {"store:e", "store:f"} THEN "overlay"
               ELSE IF p = "auth:ipa" THEN "ipa"
               ELSE IF p = "store:s" THEN kind
               ELSE "plain"],
   stores |-> {"store:e", "store:f", "store:s"},
   store |-> store,
   key |-> [p \in MCPlugins |-> IF p \in {"store:e", "store:f"} THEN "x.key" ELSE None],
   autogen |-> TRUE, makedirs |-> TRUE, bad |-> None, flaw |-> None]

\* The names of the stores of e, f and s; auth:a and / refer to e.
References(e, f, s) ==
  [p \in MCPlugins |-> CASE p \in {"auth:a", "/"} -> "store:e"
                         [] p = "store:e" -> e
                         [] p = "store:f" -> f
                         [] p = "store:s" -> s
                         [] OTHER -> None]

Vault == Stack("vault", References("store:s", "store:s", None))
Nested == Stack("cert", References("store:f", "store:s", "store:e"))
Circle == Stack("plain", References("store:e", "store:e", None))
Broken == Stack("plain", References("store:s", "auth:a", None))

Without(c, p) ==
  [c EXCEPT !.sections = SelectSeq(@, LAMBDA x : x # p),
            !.menus = SelectSeq(@, LAMBDA x : x # p)]

\* The second overlay has a file of its own.
TwoKeys == [Vault EXCEPT !.key["store:f"] = "y.key"]

MCConfigs ==
  { Vault, Nested, Circle, Broken, TwoKeys,
    Without(Vault, "auth:ipa"),
    [Circle EXCEPT !.autogen = FALSE], [TwoKeys EXCEPT !.makedirs = FALSE],
    [Vault EXCEPT !.bad = "store:s"] }
  \cup {[Vault EXCEPT !.flaw = f] : f \in Flaws}
================================================================================
