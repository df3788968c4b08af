------------------------------ MODULE SqliteStore ------------------------------
(***************************************************************************)
(* The store every secret ends in: store/sqlite.py.  The table is one      *)
(* function from paths to the value column.  A path is the key without the *)
(* constant 'keys' component, as the sequence of its components:           *)
(* 'keys/u/c/k' is <<"u", "c", "k">>.  A key that is not below 'keys' is   *)
(* an absolute one and begins with "": '/x' is <<"", "x">>.                *)
(*                                                                         *)
(* Containers have no flag of their own: span() inserts the row with the   *)
(* value '' and list() shows every row with a falsy value as a container,  *)
(* so a secret whose value is '' or null cannot be told from a container.  *)
(*                                                                         *)
(* Every method of the class is one SQLite transaction, therefore each is  *)
(* one operator on the table here and one atomic step of the modules that  *)
(* use it; a transaction that fails changes nothing.                       *)
(***************************************************************************)
EXTENDS Integers, Sequences

CONSTANTS
  Paths,      \* the keys that requests can name
  Values,     \* non-empty payloads of secrets
  Empty,      \* the value ''
  Null,       \* the SQL NULL that a payload of None is stored as
  Absent      \* there is no row for the key

Parent(p) == SubSeq(p, 1, Len(p) - 1)

\* Keys are never the bare 'keys'.
ASSUME PathsAssumption == \A p \in Paths : p \in Seq(STRING) /\ p # <<>>

ASSUME ValuesAssumption ==
  /\ {Empty, Null, Absent} \cap Values = {}
  /\ Empty # Null /\ Empty # Absent /\ Null # Absent

Payloads == Values \cup {Empty, Null}

\* The value column is falsy: list() takes the row for a container.
Falsy == {Empty, Null}

Table == [Paths -> Payloads \cup {Absent}]

NoRows == [p \in Paths |-> Absent]

--------------------------------------------------------------------------------
\* q is under the container p: its key starts with 'p/'.
Below(p, q) == /\ Len(p) < Len(q)
               /\ p = SubSeq(q, 1, Len(p))

Present(rows, p) == rows[p] # Absent

\* SELECT value ... WHERE key=?; no row and a row that holds NULL are both None.
IsNone(rows, p) == rows[p] \in {Absent, Null}

\* Broken: the table has no primary key.
ConflictsNever(rows, p, replace) == FALSE

\* INSERT: the primary key refuses a second row (CSStoreExists).
\* INSERT OR REPLACE never conflicts.
Conflicts(rows, p, replace) == ~replace /\ Present(rows, p)

Stored(rows, p, value) == [rows EXCEPT ![p] = value]

Spanned(rows, p) == Stored(rows, p, Empty)

\* DELETE ... WHERE key=?: the row itself, whatever is under it.
CutFrom(rows, p) == [rows EXCEPT ![p] = Absent]

\* What list() returns when it does not return None: every row under p, at any
\* depth, with its name relative to p and whether it is shown as a container.
Entries(rows, p) ==
  {[name |-> SubSeq(q, Len(p) + 1, Len(q)), container |-> rows[q] \in Falsy] :
     q \in {x \in Paths : Below(p, x) /\ Present(rows, x)}}

\* list() does not return None: there is a row for the path or under it.
Exists(rows, p) == \E q \in Paths : (q = p \/ Below(p, q)) /\ Present(rows, q)
================================================================================
