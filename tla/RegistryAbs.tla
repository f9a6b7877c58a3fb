---------------------------- MODULE RegistryAbs -----------------------------
(***************************************************************************)
(* What the registry promises its callers: a table from names to rows that *)
(* changes by one whole operation at a time, each computed from the table  *)
(* as it is at that instant, and that a power loss can only take back to a *)
(* table that has not yet been superseded on disk.                         *)
(***************************************************************************)
EXTENDS RegistryRows

VARIABLES
  reg,      \* the table a reader would be given now
  durable   \* the tables a power loss may leave behind

absVars == <<reg, durable>>

AbsInit == durable = {reg} /\ UniqueIndices(reg)

Becomes(t) == reg' = t /\ durable' = durable \cup {t}

AbsAdd(n)       == \E k \in Kinds, i \in 0..MaxIndex :
                     CanAdd(reg, n, i) /\ Becomes(AddRow(reg, n, k, i))
AbsRemove(n)    == Becomes(RemoveRow(reg, n))
AbsStealth(n)   == \E b \in Blobs : CanSetStealth(reg, n) /\ Becomes(SetStealth(reg, n, b))
AbsReconcile(n) == \E k \in Kinds : CanReconcile(reg, n, k) /\ Becomes(Reconcile(reg, n, k))

\* The directory fsync: nothing older can come back.
AbsSync == durable' = {reg} /\ reg' = reg

AbsPowerLoss == \E t \in durable : reg' = t /\ durable' = {t}

AbsNext ==
  \/ \E n \in Names : AbsAdd(n) \/ AbsRemove(n) \/ AbsStealth(n) \/ AbsReconcile(n)
  \/ AbsSync
  \/ AbsPowerLoss

AbsSpec == AbsInit /\ [][AbsNext]_absVars

=============================================================================
