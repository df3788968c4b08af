-------------------------------- MODULE KeyStore -------------------------------
(***************************************************************************)
(* What the consumers take a store for (CSStore in plugin.py): a table of  *)
(* secrets and containers on which each call takes effect at once or       *)
(* fails without effect, and which no call that is not told so changes.    *)
(* Rows may be exchanged behind the back of the store.                     *)
(***************************************************************************)
CONSTANTS
  Clients, Keys,
  Secrets,     \* the values that are set
  Container,   \* a key that was spanned
  Absent,      \* a key that is not there
  None         \* a client without a call

VARIABLES table, call

vars == <<table, call>>

Kinds == {"get", "set", "span", "cut"}

Init == table = [k \in Keys |-> Absent] /\ call = [c \in Clients |-> None]

Begin(c) ==
  /\ call[c] = None
  /\ \E kind \in Kinds, k \in Keys, s \in Secrets :
       call' = [call EXCEPT ![c] = [kind |-> kind, key |-> k, secret |-> s, result |-> "pending"]]
  /\ UNCHANGED table

Pending(c, kind) == call[c] # None /\ call[c].result = "pending" /\ call[c].kind = kind

Result(c, result) == call' = [call EXCEPT ![c].result = result]

Get(c) ==
  /\ Pending(c, "get")
  /\ \/ table[call[c].key] \in Secrets /\ Result(c, table[call[c].key])
     \/ table[call[c].key] = Absent /\ Result(c, "none")
  /\ UNCHANGED table

Add(c, kind, value) ==
  /\ Pending(c, kind)
  /\ \/ /\ table[call[c].key] = Absent
        /\ table' = [table EXCEPT ![call[c].key] = value]
        /\ Result(c, "done")
     \/ /\ table[call[c].key] # Absent
        /\ Result(c, "exists")
        /\ UNCHANGED table

Cut(c) ==
  /\ Pending(c, "cut")
  /\ Result(c, IF table[call[c].key] = Absent THEN "none" ELSE "done")
  /\ table' = [table EXCEPT ![call[c].key] = Absent]

Fail(c) == \E kind \in Kinds : Pending(c, kind) /\ Result(c, "error") /\ UNCHANGED table

\* Clients leave with their answer, or are stopped before they got one.
End(gone) ==
  /\ call' = [c \in Clients |-> IF c \in gone THEN None ELSE call[c]]
  /\ UNCHANGED table

Exchange(k, l) ==
  /\ table' = [table EXCEPT ![k] = table[l], ![l] = table[k]]
  /\ UNCHANGED call

Next ==
  \/ \E c \in Clients :
       \/ Begin(c) \/ Get(c) \/ Add(c, "set", call[c].secret) \/ Add(c, "span", Container)
       \/ Cut(c) \/ Fail(c)
  \/ \E gone \in SUBSET Clients : End(gone)
  \/ \E k, l \in Keys : Exchange(k, l)

Spec == Init /\ [][Next]_vars
================================================================================
