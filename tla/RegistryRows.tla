---------------------------- MODULE RegistryRows ----------------------------
(***************************************************************************)
(* The rows of the instance registry (src/beetroot/registry.py) and what   *)
(* each registry operation does to an already parsed table of rows.  The   *)
(* module has no state: Registry (the file, its lock and its crashes) and  *)
(* RegistryAbs (what callers may rely on) are both built from it.          *)
(*                                                                         *)
(* A row is the JSON object stored under one instance name.  "shape" says  *)
(* what validation makes of the object:                                    *)
(*   none    there is no object under this name                            *)
(*   valid   the backend kind is known and its payload validates           *)
(*   opaque  unknown kind, or known kind with a rejected payload: kept     *)
(*           byte for byte as an UnresolvedBackendConfig                   *)
(*   nodict  the row, or its "backend" member, is not a JSON object        *)
(*   broken  no usable index or created_at                                 *)
(* Payload fields other than the stealth-path blob are left out.           *)
(***************************************************************************)
EXTENDS Integers

CONSTANTS
  Names,     \* instance names
  Blobs,     \* stealth-path mappings (path_layout of a snapshot manifest)
  NoBlob,    \* the empty mapping, the default of RedroidBackendConfig
  MaxIndex   \* ports._MAX_PORT_INDEX

ASSUME RowsAssumption ==
  /\ NoBlob \in Blobs
  /\ MaxIndex \in Nat

Kinds  == {"redroid", "vm", "adb"}
Shapes == {"none", "valid", "opaque", "nodict", "broken"}

Row == [shape : Shapes, kind : Kinds, index : Nat, stealth : Blobs]

NoRow == [shape |-> "none", kind |-> "redroid", index |-> 0, stealth |-> NoBlob]

\* A parsed table; EmptyRows is RegistryFile().
Table     == [Names -> Row]
EmptyRows == [n \in Names |-> NoRow]

\* The row is in the mapping that _read returns.
Present(r) == r.shape \in {"valid", "opaque"}

\* isinstance(meta.backend, RedroidBackendConfig) and friends: an opaque row
\* is an instance of neither, whatever its kind string says.
IsKind(r, k) == r.shape = "valid" /\ r.kind = k

\* Mutant: an opaque row's index is not reserved.
BugUsedIndices(t) == {t[n].index : n \in {m \in Names : t[m].shape = "valid"}}

UsedIndices(t) == {t[n].index : n \in {m \in Names : Present(t[m])}}

\* ports.lowest_free_index as a relation: i is what the loop returns.
IsLowestFree(used, i) ==
  /\ i \notin used
  /\ \A j \in 0..(i - 1) : j \in used

\* No two registered instances hold the same port index.
UniqueIndices(t) ==
  \A m, n \in Names :
    (Present(t[m]) /\ Present(t[n]) /\ t[m].index = t[n].index) => m = n

-----------------------------------------------------------------------------
(* What each operation computes from a table, and when it refuses.         *)

\* add_allocating: the name is free and the lowest free index is in range.
CanAdd(t, n, i) ==
  /\ ~Present(t[n])
  /\ i \in 0..MaxIndex
  /\ IsLowestFree(UsedIndices(t), i)

AddRow(t, n, k, i) ==
  [t EXCEPT ![n] = [shape |-> "valid", kind |-> k, index |-> i, stealth |-> NoBlob]]

\* remove: pop the name, absent or not.
RemoveRow(t, n) == [t EXCEPT ![n] = NoRow]

\* set_stealth_paths: a redroid row only.
CanSetStealth(t, n) == IsKind(t[n], "redroid")

SetStealth(t, n, b) == [t EXCEPT ![n].stealth = b]

\* reconcile_backend_kind: flips redroid <-> vm, keeps the index, and builds
\* the new backend from absolute_path alone (the stealth blob is not carried).
CanReconcile(t, n, k) ==
  /\ k \in {"redroid", "vm"}
  /\ \E old \in {"redroid", "vm"} : IsKind(t[n], old) /\ old # k

Reconcile(t, n, k) == [t EXCEPT ![n].kind = k, ![n].stealth = NoBlob]

=============================================================================
