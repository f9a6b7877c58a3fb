--------------------------- MODULE RegistryProofs ---------------------------
(***************************************************************************)
(* Proofs about Registry, for any number of processes, names, calls and    *)
(* faults and any initial file whose readable rows hold distinct indices.  *)
(***************************************************************************)
EXTENDS Registry, TLAPS

\* What _read and every mutator leave: a row is there or it is not.
Clean(t) == \A n \in Names : Present(t[n]) \/ t[n] = NoRow

-----------------------------------------------------------------------------
(* The inductive invariant.                                                *)

\* A running call is one of the entry points; only a list holds LOCK_SH.
CallInv ==
  \A p \in Procs :
    /\ pc[p] # "idle" => call[p] \in Calls
    /\ pc[p] \in {"exists", "lockSh", "migExists", "migRead"} => call[p].verb = "list"
    /\ p \in sh => call[p].verb = "list"

ShOnly == {"migExists", "migRead"}
ExOnly == {"initCheck", "initWrite", "writeTmp", "fsyncTmp", "replace", "fsyncDir"}
Either == {"readExists", "readText", "rename", "decide"}

\* The flock: one exclusive holder and no reader, or readers only; and the
\* step a process is at tells which lock it holds.
LockInv ==
  /\ \A p, q \in ex : p = q
  /\ ex # {} => sh = {}
  /\ \A p \in Procs :
       /\ pc[p] \in ShOnly => p \in sh
       /\ pc[p] \in ExOnly => p \in ex
       /\ pc[p] \in Either => p \in sh \cup ex
       /\ pc[p] \in {"idle", "exists", "lockSh", "lockEx"} => p \notin sh \cup ex

\* What a process remembers is still true of the file when it acts on it.
Remembers(p) ==
  /\ pc[p] = "initWrite" => ~Readable(file)
  /\ pc[p] = "rename" => ~Readable(file)
  /\ pc[p] = "decide" => data[p] = View(file)
  /\ pc[p] \in {"writeTmp", "fsyncTmp", "replace"} => data[p] \in Outcomes(call[p], View(file))
  /\ pc[p] = "fsyncDir" => data[p] = View(file)

MemoryInv == \A p \in Procs : Remembers(p)

\* Every state a power loss may leave has distinct indices, and the current
\* file is one of them.
DiskInv ==
  /\ <<file, bak>> \in disk
  /\ \A s \in disk : UniqueIndices(View(s[1]))

IInv == TypeOK /\ CallInv /\ LockInv /\ MemoryInv /\ DiskInv

-----------------------------------------------------------------------------
(* The operators on tables.                                                *)

\* An empty registry is a table, is clean and has no two equal indices.
LEMMA EmptyFacts ==
  NoRow \in Row /\ EmptyRows \in Table /\ Clean(EmptyRows) /\ UniqueIndices(EmptyRows)
<1>1. NoRow \in Row
  BY RowsAssumption DEF NoRow, Row, Shapes, Kinds
<1> QED
  BY <1>1 DEF EmptyRows, Table, Clean, UniqueIndices, Present, NoRow

\* _read returns a clean table whatever the bytes are.
LEMMA ViewFacts ==
  ASSUME NEW f \in File
  PROVE  View(f) \in Table /\ Clean(View(f))
<1>1. f.rows \in Table
  BY DEF File
<1>2. CASE Readable(f)
  <2> DEFINE v == [n \in Names |-> IF Present(f.rows[n]) THEN f.rows[n] ELSE NoRow]
  <2>1. v \in Table
    BY <1>1, EmptyFacts DEF Table
  <2>2. Clean(v)
    BY DEF Clean
  <2> QED
    BY <1>2, <2>1, <2>2 DEF View
<1>3. CASE ~Readable(f)
  BY <1>3, EmptyFacts DEF View
<1> QED
  BY <1>2, <1>3

\* _write then _read gives the table back: serialisation loses no row.
LEMMA ViewDoc ==
  ASSUME NEW t \in Table, Clean(t)
  PROVE  Doc(t) \in File /\ View(Doc(t)) = t
<1>1. Doc(t) \in File
  BY DEF Doc, File, Envelopes
<1>2. Readable(Doc(t))
  BY DEF Readable, Doc, Clean, Present, NoRow
<1>3. View(Doc(t)) = [n \in Names |-> IF Present(t[n]) THEN t[n] ELSE NoRow]
  BY <1>2 DEF View, Doc
<1>4. \A n \in Names : (IF Present(t[n]) THEN t[n] ELSE NoRow) = t[n]
  BY DEF Clean
<1>5. t = [n \in Names |-> t[n]]
  BY DEF Table
<1> QED
  BY <1>1, <1>3, <1>4, <1>5

\* A file that is absent, torn or legacy reads as the empty registry.
LEMMA ViewEmpty ==
  /\ Absent \in File /\ View(Absent) = EmptyRows
  /\ Torn \in File /\ View(Torn) = EmptyRows
<1> QED
  BY EmptyFacts DEF Absent, Torn, File, Envelopes, View, Readable

\* Every mutator computes a clean table in which only the named row differs and
\* no two rows share an index.
LEMMA OutcomeFacts ==
  ASSUME NEW c \in Calls, NEW t \in Table, Clean(t), NEW u \in Outcomes(c, t)
  PROVE  /\ c.name \in Names /\ c.verb \in Mutators
         /\ u \in Table /\ Clean(u)
         /\ \A n \in Names \ {c.name} : u[n] = t[n]
         /\ UniqueIndices(t) => UniqueIndices(u)
<1>0. c.name \in Names /\ c.kind \in Kinds /\ c.blob \in Blobs
  BY RowsAssumption DEF Calls, Kinds
<1>1. CASE c.verb = "add"
  <2>1. PICK i \in 0..MaxIndex : CanAdd(t, c.name, i) /\ u = AddRow(t, c.name, c.kind, i)
    BY <1>1 DEF Outcomes
  <2>2. i \in Nat
    BY <2>1, RowsAssumption
  <2> DEFINE r == [shape |-> "valid", kind |-> c.kind, index |-> i, stealth |-> NoBlob]
  <2>3. r \in Row /\ Present(r) /\ r.index = i
    BY <1>0, <2>2, RowsAssumption DEF Row, Shapes, Present
  <2>4. u = [t EXCEPT ![c.name] = r]
    BY <2>1 DEF AddRow
  <2> HIDE DEF r
  <2>5. u \in Table /\ \A n \in Names : u[n] = IF n = c.name THEN r ELSE t[n]
    BY <1>0, <2>3, <2>4 DEF Table
  <2>6. \A n \in Names : Present(t[n]) => t[n].index # i
    BY <2>1 DEF CanAdd, IsLowestFree, UsedIndices
  <2>7. Clean(u)
    BY <2>3, <2>5 DEF Clean
  <2>8. UniqueIndices(t) => UniqueIndices(u)
    BY <2>3, <2>5, <2>6 DEF UniqueIndices
  <2> QED
    BY <1>0, <1>1, <2>5, <2>7, <2>8 DEF Mutators
<1>2. CASE c.verb = "remove"
  <2>1. u = [t EXCEPT ![c.name] = NoRow]
    BY <1>2 DEF Outcomes, RemoveRow
  <2>2. u \in Table /\ \A n \in Names : u[n] = IF n = c.name THEN NoRow ELSE t[n]
    BY <1>0, <2>1, EmptyFacts DEF Table
  <2>3. Clean(u)
    BY <2>2 DEF Clean
  <2>4. ~Present(NoRow)
    BY DEF Present, NoRow
  <2>5. UniqueIndices(t) => UniqueIndices(u)
    BY <2>2, <2>4 DEF UniqueIndices
  <2> QED
    BY <1>0, <1>2, <2>2, <2>3, <2>5 DEF Mutators
<1>3. CASE c.verb = "stealth"
  <2>1. CanSetStealth(t, c.name) /\ u = SetStealth(t, c.name, c.blob)
    BY <1>3 DEF Outcomes
  <2> DEFINE r == [t[c.name] EXCEPT !.stealth = c.blob]
  <2>2. t[c.name] \in Row
    BY <1>0 DEF Table
  <2>3. r \in Row /\ r.shape = t[c.name].shape /\ r.index = t[c.name].index
    BY <1>0, <2>2 DEF Row
  <2>4. u = [t EXCEPT ![c.name] = r]
    BY <2>1 DEF SetStealth
  <2> HIDE DEF r
  <2>5. u \in Table /\ \A n \in Names : u[n] = IF n = c.name THEN r ELSE t[n]
    BY <1>0, <2>3, <2>4 DEF Table
  <2>6. Present(r) /\ Present(t[c.name])
    BY <2>1, <2>3 DEF CanSetStealth, IsKind, Present
  <2>7. Clean(u)
    BY <2>5, <2>6 DEF Clean
  <2>8. UniqueIndices(t) => UniqueIndices(u)
    BY <2>3, <2>5, <2>6 DEF UniqueIndices
  <2> QED
    BY <1>0, <1>3, <2>5, <2>7, <2>8 DEF Mutators
<1>4. CASE c.verb = "reconcile"
  <2>1. CanReconcile(t, c.name, c.kind) /\ u = Reconcile(t, c.name, c.kind)
    BY <1>4 DEF Outcomes
  <2> DEFINE r == [t[c.name] EXCEPT !.kind = c.kind, !.stealth = NoBlob]
  <2>2. t[c.name] \in Row
    BY <1>0 DEF Table
  <2>3. r \in Row /\ r.shape = t[c.name].shape /\ r.index = t[c.name].index
    BY <1>0, <2>2, RowsAssumption DEF Row
  <2>4. u = [t EXCEPT ![c.name] = r]
    BY <1>0, <2>1, <2>2 DEF Reconcile, Row, Table
  <2> HIDE DEF r
  <2>5. u \in Table /\ \A n \in Names : u[n] = IF n = c.name THEN r ELSE t[n]
    BY <1>0, <2>3, <2>4 DEF Table
  <2>6. Present(r) /\ Present(t[c.name])
    BY <2>1, <2>3 DEF CanReconcile, IsKind, Present
  <2>7. Clean(u)
    BY <2>5, <2>6 DEF Clean
  <2>8. UniqueIndices(t) => UniqueIndices(u)
    BY <2>3, <2>5, <2>6 DEF UniqueIndices
  <2> QED
    BY <1>0, <1>4, <2>5, <2>7, <2>8 DEF Mutators
<1>5. c.verb \in {"add", "remove", "stealth", "reconcile"}
  BY DEF Outcomes, Calls
<1> QED
  BY <1>1, <1>2, <1>3, <1>4, <1>5

-----------------------------------------------------------------------------
(* Typing.                                                                 *)

\* Leaving a call keeps the types of what it resets.
LEMMA LeaveType ==
  ASSUME TypeOK, NEW p \in Procs, NEW how \in {"none", "ok", "refused", "crash"}, Leave(p, how)
  PROVE  /\ pc' \in [Procs -> Steps] /\ call' \in [Procs -> Calls \cup {NoCall}]
         /\ data' \in [Procs -> Table] /\ synced' \in [Procs -> BOOLEAN]
         /\ out' \in [Procs -> {"none", "ok", "refused", "crash"}]
         /\ sh' \subseteq Procs /\ ex' \subseteq Procs
BY EmptyFacts DEF TypeOK, Leave, Goto, Steps

\* Every step keeps the types.
LEMMA TypeStep ==
  ASSUME IInv, [Next]_vars
  PROVE  TypeOK'
<1> USE DEF IInv
<1> DEFINE Local == /\ pc' \in [Procs -> Steps] /\ call' \in [Procs -> Calls \cup {NoCall}]
                    /\ data' \in [Procs -> Table] /\ synced' \in [Procs -> BOOLEAN]
                    /\ out' \in [Procs -> {"none", "ok", "refused", "crash"}]
                    /\ sh' \subseteq Procs /\ ex' \subseteq Procs
           Files == file' \in File /\ bak' \in File /\ disk' \subseteq File \X File
           Hist == allowed' \in [Names -> SUBSET Row]
           Bounds == ops' \in 0..MaxOps /\ faults' \in 0..MaxFaults
<1>0. SUFFICES Local /\ Files /\ Hist /\ Bounds
  BY DEF TypeOK
<1>a. ASSUME UNCHANGED shared PROVE Files /\ Hist
  BY <1>a DEF TypeOK, shared
<1>b. ASSUME UNCHANGED budget PROVE Bounds
  BY <1>b DEF TypeOK, budget
<1>c. ASSUME NEW f \in File, NEW b \in File, FileBecomes(f, b) PROVE Files
  BY <1>c DEF TypeOK, FileBecomes
<1>d. ASSUME NEW p \in Procs, NEW s \in Steps, Goto(p, s) PROVE pc' \in [Procs -> Steps]
  BY <1>d DEF TypeOK, Goto
<1>e. \A s \in {"idle", "exists", "lockSh", "migExists", "migRead", "lockEx",
          "initCheck", "initWrite", "readExists", "readText", "rename",
          "decide", "writeTmp", "fsyncTmp", "replace", "fsyncDir"} : s \in Steps
  BY DEF Steps
<1>f. Fault => faults' \in 0..MaxFaults
  BY RegistryAssumption DEF Fault, TypeOK
<1> HIDE DEF IInv
<1>1. ASSUME NEW p \in Procs, Start(p) PROVE Local /\ Files /\ Hist /\ Bounds
  BY <1>1, <1>a, <1>d, <1>e, RegistryAssumption DEF Start, TypeOK, IInv, shared
<1>2. ASSUME NEW p \in Procs, ListExists(p) PROVE Local /\ Files /\ Hist /\ Bounds
  BY <1>2, <1>a, <1>b, <1>d, <1>e, LeaveType DEF ListExists, TypeOK, IInv
<1>3. ASSUME NEW p \in Procs, LockShared(p) PROVE Local /\ Files /\ Hist /\ Bounds
  BY <1>3, <1>a, <1>b, <1>d, <1>e DEF LockShared, TypeOK, IInv
<1>4. ASSUME NEW p \in Procs, MigExists(p) PROVE Local /\ Files /\ Hist /\ Bounds
  BY <1>4, <1>a, <1>b, <1>d, <1>e DEF MigExists, TypeOK, IInv
<1>5. ASSUME NEW p \in Procs, MigRead(p) PROVE Local /\ Files /\ Hist /\ Bounds
  BY <1>5, <1>a, <1>b, <1>d, <1>e, LeaveType DEF MigRead, TypeOK, IInv
<1>6. ASSUME NEW p \in Procs, LockExclusive(p) PROVE Local /\ Files /\ Hist /\ Bounds
  BY <1>6, <1>a, <1>b, <1>d, <1>e DEF LockExclusive, TypeOK, IInv
<1>7. ASSUME NEW p \in Procs, InitCheck(p) PROVE Local /\ Files /\ Hist /\ Bounds
  BY <1>7, <1>b, <1>c, <1>d, <1>e, ViewEmpty DEF InitCheck, TypeOK, IInv
<1>8. ASSUME NEW p \in Procs, InitWrite(p) PROVE Local /\ Files /\ Hist /\ Bounds
  BY <1>8, <1>b, <1>c, <1>d, <1>e, EmptyFacts, ViewDoc DEF InitWrite, TypeOK, IInv
<1>9. ASSUME NEW p \in Procs, ReadExists(p) PROVE Local /\ Files /\ Hist /\ Bounds
  BY <1>9, <1>a, <1>b, <1>d, <1>e, EmptyFacts DEF ReadExists, TypeOK, IInv
<1>10. ASSUME NEW p \in Procs, ReadText(p) PROVE Local /\ Files /\ Hist /\ Bounds
  BY <1>10, <1>a, <1>b, <1>d, <1>e, LeaveType, ViewFacts DEF ReadText, TypeOK, IInv
<1>11. ASSUME NEW p \in Procs, Rename(p) PROVE Local /\ Files /\ Hist /\ Bounds
  BY <1>11, <1>b, <1>c, <1>d, <1>e, ViewEmpty, EmptyFacts DEF Rename, TypeOK, IInv
<1>12. ASSUME NEW p \in Procs, Decide(p) PROVE Local /\ Files /\ Hist /\ Bounds
  <2>1. Files /\ Hist /\ Bounds
    BY <1>12, <1>a, <1>b DEF Decide
  <2>2. CASE Leave(p, IF call[p].verb \in {"add", "stealth"} THEN "refused" ELSE "ok")
    <3>1. (IF call[p].verb \in {"add", "stealth"} THEN "refused" ELSE "ok")
            \in {"none", "ok", "refused", "crash"}
      OBVIOUS
    <3> QED
      BY <2>1, <2>2, <3>1, LeaveType DEF IInv
  <2>3. CASE /\ \E t \in Outcomes(call[p], data[p]) : data' = [data EXCEPT ![p] = t]
             /\ Goto(p, "writeTmp")
             /\ UNCHANGED <<sh, ex, call, synced, out>>
    <3>1. call[p] \in Calls /\ data[p] \in Table /\ Clean(data[p])
      BY <1>12, ViewFacts DEF Decide, IInv, TypeOK, CallInv, MemoryInv, Remembers
    <3>2. \A t \in Outcomes(call[p], data[p]) : t \in Table
      BY <3>1, OutcomeFacts
    <3> QED
      BY <2>1, <2>3, <3>2, <1>d, <1>e DEF IInv, TypeOK
  <2> QED
    BY <1>12, <2>1, <2>2, <2>3 DEF Decide
<1>13. ASSUME NEW p \in Procs, WriteTmp(p) PROVE Local /\ Files /\ Hist /\ Bounds
  BY <1>13, <1>a, <1>b, <1>d, <1>e DEF WriteTmp, TypeOK, IInv
<1>14. ASSUME NEW p \in Procs, FsyncTmp(p) PROVE Local /\ Files /\ Hist /\ Bounds
  BY <1>14, <1>a, <1>b, <1>d, <1>e DEF FsyncTmp, TypeOK, IInv
<1>15. ASSUME NEW p \in Procs, Replace(p) PROVE Local /\ Files /\ Hist /\ Bounds
  <2>1. call[p] \in Calls /\ data[p] \in Outcomes(call[p], View(file))
    BY <1>15 DEF Replace, IInv, CallInv, MemoryInv, Remembers
  <2>2. data[p] \in Table /\ Clean(data[p]) /\ call[p].name \in Names
    BY <2>1, ViewFacts, OutcomeFacts DEF IInv, TypeOK
  <2>3. Doc(data[p]) \in File
    BY <2>2, ViewDoc
  <2>4. Files
    BY <1>15, <2>3, ViewEmpty DEF Replace, IInv, TypeOK
  <2>5. data[p][call[p].name] \in Row
    BY <2>2 DEF Table
  <2>6. Hist
    BY <1>15, <2>2, <2>5 DEF Replace, IInv, TypeOK
  <2> QED
    BY <1>15, <2>4, <2>6, <1>b, <1>d, <1>e DEF Replace, IInv, TypeOK
<1>16. ASSUME NEW p \in Procs, FsyncDir(p) PROVE Local /\ Files /\ Hist /\ Bounds
  <2>1. call[p] \in Calls /\ data[p] \in Table
    BY <1>16 DEF FsyncDir, IInv, CallInv, TypeOK
  <2>2. call[p].name \in Names
    BY <2>1 DEF Calls
  <2>3. Files
    BY <1>16, ViewEmpty DEF FsyncDir, IInv, TypeOK
  <2>4. data[p][call[p].name] \in Row
    BY <2>1, <2>2 DEF Table
  <2>5. Hist
    BY <1>16, <2>2, <2>4 DEF FsyncDir, IInv, TypeOK
  <2> QED
    BY <1>16, <2>3, <2>5, <1>b, LeaveType DEF FsyncDir, IInv
<1>17. ASSUME NEW p \in Procs, WriteError(p) \/ Kill(p) PROVE Local /\ Files /\ Hist /\ Bounds
  BY <1>17, <1>a, <1>f, LeaveType DEF WriteError, Kill, IInv, TypeOK
<1>18. ASSUME PowerLoss PROVE Local /\ Files /\ Hist /\ Bounds
  <2>1. Files
    BY <1>18 DEF PowerLoss, IInv, TypeOK
  <2>2. View(file') \in Table
    BY <2>1, ViewFacts
  <2>3. \A n \in Names : View(file')[n] \in Row
    BY <2>2 DEF Table
  <2>4. Hist
    BY <1>18, <2>3 DEF PowerLoss
  <2> QED
    BY <1>18, <2>1, <2>4, <1>f, EmptyFacts DEF PowerLoss, IInv, TypeOK, Steps
<1>19. ASSUME UNCHANGED vars PROVE Local /\ Files /\ Hist /\ Bounds
  BY <1>19 DEF vars, IInv, TypeOK
<1> QED
  BY <1>1, <1>2, <1>3, <1>4, <1>5, <1>6, <1>7, <1>8, <1>9, <1>10, <1>11, <1>12,
     <1>13, <1>14, <1>15, <1>16, <1>17, <1>18, <1>19 DEF Next, Step

-----------------------------------------------------------------------------
(* Calls and locks.                                                        *)

\* The call a process is making, and who may hold the shared lock, persist.
LEMMA CallStep ==
  ASSUME IInv, [Next]_vars
  PROVE  CallInv'
<1> USE DEF IInv, TypeOK, CallInv, LockInv, ShOnly, ExOnly, Either, Goto
<1>1. ASSUME NEW p \in Procs, Start(p) PROVE CallInv'
  BY <1>1 DEF Start, Calls
<1>2. ASSUME NEW p \in Procs, ListExists(p) PROVE CallInv'
  BY <1>2 DEF ListExists, Leave
<1>3. ASSUME NEW p \in Procs, LockShared(p) PROVE CallInv'
  BY <1>3 DEF LockShared
<1>4. ASSUME NEW p \in Procs, MigExists(p) PROVE CallInv'
  BY <1>4 DEF MigExists
<1>5. ASSUME NEW p \in Procs, MigRead(p) PROVE CallInv'
  BY <1>5 DEF MigRead, Leave
<1>6. ASSUME NEW p \in Procs, LockExclusive(p) PROVE CallInv'
  BY <1>6 DEF LockExclusive
<1>7. ASSUME NEW p \in Procs, InitCheck(p) PROVE CallInv'
  BY <1>7 DEF InitCheck
<1>8. ASSUME NEW p \in Procs, InitWrite(p) PROVE CallInv'
  BY <1>8 DEF InitWrite
<1>9. ASSUME NEW p \in Procs, ReadExists(p) PROVE CallInv'
  BY <1>9 DEF ReadExists
<1>10. ASSUME NEW p \in Procs, ReadText(p) PROVE CallInv'
  BY <1>10 DEF ReadText, Leave
<1>11. ASSUME NEW p \in Procs, Rename(p) PROVE CallInv'
  BY <1>11 DEF Rename
<1>12. ASSUME NEW p \in Procs, Decide(p) PROVE CallInv'
  BY <1>12 DEF Decide, Leave
<1>13. ASSUME NEW p \in Procs, WriteTmp(p) PROVE CallInv'
  BY <1>13 DEF WriteTmp
<1>14. ASSUME NEW p \in Procs, FsyncTmp(p) PROVE CallInv'
  BY <1>14 DEF FsyncTmp
<1>15. ASSUME NEW p \in Procs, Replace(p) PROVE CallInv'
  BY <1>15 DEF Replace
<1>16. ASSUME NEW p \in Procs, FsyncDir(p) PROVE CallInv'
  BY <1>16 DEF FsyncDir, Leave
<1>17. ASSUME NEW p \in Procs, WriteError(p) \/ Kill(p) PROVE CallInv'
  BY <1>17 DEF WriteError, Kill, Leave
<1>18. ASSUME PowerLoss PROVE CallInv'
  BY <1>18 DEF PowerLoss
<1>19. ASSUME UNCHANGED vars PROVE CallInv'
  BY <1>19 DEF vars
<1> QED
  BY <1>1, <1>2, <1>3, <1>4, <1>5, <1>6, <1>7, <1>8, <1>9, <1>10, <1>11, <1>12,
     <1>13, <1>14, <1>15, <1>16, <1>17, <1>18, <1>19 DEF Next, Step

\* The flock excludes: at most one writer, and no reader beside it.
LEMMA LockStep ==
  ASSUME IInv, [Next]_vars
  PROVE  LockInv'
<1> USE DEF IInv, TypeOK, CallInv, LockInv, ShOnly, ExOnly, Either, Goto
<1>1. ASSUME NEW p \in Procs, Start(p) PROVE LockInv'
  BY <1>1 DEF Start
<1>2. ASSUME NEW p \in Procs, ListExists(p) PROVE LockInv'
  BY <1>2 DEF ListExists, Leave
<1>3. ASSUME NEW p \in Procs, LockShared(p) PROVE LockInv'
  BY <1>3 DEF LockShared
<1>4. ASSUME NEW p \in Procs, MigExists(p) PROVE LockInv'
  BY <1>4 DEF MigExists
<1>5. ASSUME NEW p \in Procs, MigRead(p) PROVE LockInv'
  BY <1>5 DEF MigRead, Leave
<1>6. ASSUME NEW p \in Procs, LockExclusive(p) PROVE LockInv'
  BY <1>6 DEF LockExclusive
<1>7. ASSUME NEW p \in Procs, InitCheck(p) PROVE LockInv'
  BY <1>7 DEF InitCheck
<1>8. ASSUME NEW p \in Procs, InitWrite(p) PROVE LockInv'
  BY <1>8 DEF InitWrite
<1>9. ASSUME NEW p \in Procs, ReadExists(p) PROVE LockInv'
  BY <1>9 DEF ReadExists
<1>10. ASSUME NEW p \in Procs, ReadText(p) PROVE LockInv'
  BY <1>10 DEF ReadText, Leave
<1>11. ASSUME NEW p \in Procs, Rename(p) PROVE LockInv'
  BY <1>11 DEF Rename
<1>12. ASSUME NEW p \in Procs, Decide(p) PROVE LockInv'
  <2>1. CASE Leave(p, IF call[p].verb \in {"add", "stealth"} THEN "refused" ELSE "ok")
    BY <2>1 DEF Leave
  <2>2. CASE /\ Outcomes(call[p], data[p]) # {}
             /\ Goto(p, "writeTmp")
             /\ UNCHANGED <<sh, ex, call, synced, out>>
    <3>1. call[p] \in Calls /\ data[p] \in Table /\ Clean(data[p])
      BY <1>12, ViewFacts DEF Decide, MemoryInv, Remembers
    <3>2. call[p].verb \in Mutators
      BY <2>2, <3>1, OutcomeFacts
    <3>3. p \in ex
      BY <1>12, <3>2 DEF Decide, Mutators
    <3> QED
      BY <2>2, <3>3
  <2> QED
    BY <1>12, <2>1, <2>2 DEF Decide
<1>13. ASSUME NEW p \in Procs, WriteTmp(p) PROVE LockInv'
  BY <1>13 DEF WriteTmp
<1>14. ASSUME NEW p \in Procs, FsyncTmp(p) PROVE LockInv'
  BY <1>14 DEF FsyncTmp
<1>15. ASSUME NEW p \in Procs, Replace(p) PROVE LockInv'
  BY <1>15 DEF Replace
<1>16. ASSUME NEW p \in Procs, FsyncDir(p) PROVE LockInv'
  BY <1>16 DEF FsyncDir, Leave
<1>17. ASSUME NEW p \in Procs, WriteError(p) \/ Kill(p) PROVE LockInv'
  BY <1>17 DEF WriteError, Kill, Leave
<1>18. ASSUME PowerLoss PROVE LockInv'
  BY <1>18 DEF PowerLoss
<1>19. ASSUME UNCHANGED vars PROVE LockInv'
  BY <1>19 DEF vars
<1> QED
  BY <1>1, <1>2, <1>3, <1>4, <1>5, <1>6, <1>7, <1>8, <1>9, <1>10, <1>11, <1>12,
     <1>13, <1>14, <1>15, <1>16, <1>17, <1>18, <1>19 DEF Next, Step

-----------------------------------------------------------------------------
(* What a process remembers of the file.                                   *)

\* What Replace publishes reads back as the table that was computed, whose
\* indices are distinct if those of the file it was computed from are.
LEMMA ReplaceFacts ==
  ASSUME IInv, NEW p \in Procs, Replace(p)
  PROVE  /\ call[p] \in Calls /\ call[p].name \in Names
         /\ data[p] \in Outcomes(call[p], View(file))
         /\ View(file') = data[p]
         /\ \A n \in Names \ {call[p].name} : data[p][n] = View(file)[n]
         /\ UniqueIndices(View(file'))
<1>1. call[p] \in Calls /\ data[p] \in Outcomes(call[p], View(file))
  BY DEF Replace, IInv, CallInv, MemoryInv, Remembers
<1>2. View(file) \in Table /\ Clean(View(file)) /\ UniqueIndices(View(file))
  BY ViewFacts DEF IInv, TypeOK, DiskInv
<1>3. /\ call[p].name \in Names
      /\ data[p] \in Table /\ Clean(data[p]) /\ UniqueIndices(data[p])
      /\ \A n \in Names \ {call[p].name} : data[p][n] = View(file)[n]
  BY <1>1, <1>2, OutcomeFacts
<1>4. View(file') = data[p]
  BY <1>3, ViewDoc DEF Replace
<1> QED
  BY <1>1, <1>3, <1>4

\* While one process holds LOCK_EX every other one is outside the lock.
LEMMA Alone ==
  ASSUME TypeOK, LockInv, NEW p \in ex, NEW q \in Procs \ {p}
  PROVE  pc[q] \in {"idle", "exists", "lockSh", "lockEx"}
BY DEF TypeOK, LockInv, ShOnly, ExOnly, Either, Steps

\* While one process holds LOCK_SH nobody is where only LOCK_EX can be.
LEMMA ReadersOnly ==
  ASSUME TypeOK, LockInv, NEW p \in sh, NEW q \in Procs
  PROVE  pc[q] \notin ExOnly
BY DEF TypeOK, LockInv

\* A step by the lock holder p can only disturb what p itself remembers.
LEMMA OthersForget ==
  ASSUME IInv, NEW p \in ex, Remembers(p)',
         \A q \in Procs \ {p} : pc'[q] = pc[q]
  PROVE  MemoryInv'
<1>1. \A q \in Procs \ {p} : Remembers(q)'
  BY Alone DEF IInv, Remembers
<1> QED
  BY <1>1 DEF MemoryInv

\* A step that leaves the file alone can only disturb what its own process
\* remembers.
LEMMA FileSame ==
  ASSUME IInv, NEW p \in Procs, file' = file, Remembers(p)',
         \A q \in Procs \ {p} : pc'[q] = pc[q] /\ data'[q] = data[q] /\ call'[q] = call[q]
  PROVE  MemoryInv'
<1>1. \A q \in Procs \ {p} : Remembers(q)'
  BY DEF IInv, MemoryInv, Remembers
<1> QED
  BY <1>1 DEF MemoryInv

\* Every step keeps what the processes remember true of the file.
LEMMA MemoryStep ==
  ASSUME IInv, [Next]_vars
  PROVE  MemoryInv'
<1> DEFINE Frame(p) == \A q \in Procs \ {p} :
                         pc'[q] = pc[q] /\ data'[q] = data[q] /\ call'[q] = call[q]
<1>a. ASSUME NEW p \in Procs, NEW how, Leave(p, how) PROVE Frame(p) /\ Remembers(p)'
  BY <1>a DEF Leave, Goto, IInv, TypeOK, Remembers
<1>1. ASSUME NEW p \in Procs, Start(p) PROVE MemoryInv'
  <2>1. file' = file /\ Frame(p) /\ Remembers(p)'
    BY <1>1 DEF Start, Goto, IInv, TypeOK, MemoryInv, Remembers, shared
  <2> QED
    BY <2>1, FileSame
<1>2. ASSUME NEW p \in Procs, ListExists(p) PROVE MemoryInv'
  <2>1. file' = file /\ Frame(p) /\ Remembers(p)'
    BY <1>2, <1>a DEF ListExists, Goto, IInv, TypeOK, Remembers, shared
  <2> QED
    BY <2>1, FileSame
<1>3. ASSUME NEW p \in Procs, LockShared(p) PROVE MemoryInv'
  <2>1. file' = file /\ Frame(p) /\ Remembers(p)'
    BY <1>3 DEF LockShared, Goto, IInv, TypeOK, MemoryInv, Remembers, shared
  <2> QED
    BY <2>1, FileSame
<1>4. ASSUME NEW p \in Procs, MigExists(p) PROVE MemoryInv'
  <2>1. file' = file /\ Frame(p) /\ Remembers(p)'
    BY <1>4 DEF MigExists, Goto, IInv, TypeOK, MemoryInv, Remembers, shared
  <2> QED
    BY <2>1, FileSame
<1>5. ASSUME NEW p \in Procs, MigRead(p) PROVE MemoryInv'
  <2>1. file' = file /\ Frame(p) /\ Remembers(p)'
    BY <1>5, <1>a DEF MigRead, Goto, IInv, TypeOK, Remembers, shared
  <2> QED
    BY <2>1, FileSame
<1>6. ASSUME NEW p \in Procs, LockExclusive(p) PROVE MemoryInv'
  <2>1. file' = file /\ Frame(p) /\ Remembers(p)'
    BY <1>6 DEF LockExclusive, Goto, IInv, TypeOK, MemoryInv, Remembers, shared
  <2> QED
    BY <2>1, FileSame
<1>7. ASSUME NEW p \in Procs, InitCheck(p) PROVE MemoryInv'
  <2>1. p \in ex
    BY <1>7 DEF InitCheck, IInv, LockInv, ExOnly
  <2>2. Remembers(p)' /\ \A q \in Procs \ {p} : pc'[q] = pc[q]
    BY <1>7 DEF InitCheck, FileBecomes, Goto, IInv, TypeOK, Remembers, Torn, Readable
  <2> QED
    BY <2>1, <2>2, OthersForget
<1>8. ASSUME NEW p \in Procs, InitWrite(p) PROVE MemoryInv'
  <2>1. p \in ex
    BY <1>8 DEF InitWrite, IInv, LockInv, ExOnly
  <2>2. Remembers(p)' /\ \A q \in Procs \ {p} : pc'[q] = pc[q]
    BY <1>8 DEF InitWrite, Goto, IInv, TypeOK, Remembers
  <2> QED
    BY <2>1, <2>2, OthersForget
<1>9. ASSUME NEW p \in Procs, ReadExists(p) PROVE MemoryInv'
  <2>1. file.env = "absent" => View(file) = EmptyRows
    BY DEF View, Readable
  <2>2. file' = file /\ Frame(p) /\ Remembers(p)'
    BY <1>9, <2>1 DEF ReadExists, Goto, IInv, TypeOK, Remembers, shared
  <2> QED
    BY <2>2, FileSame
<1>10. ASSUME NEW p \in Procs, ReadText(p) PROVE MemoryInv'
  <2>1. file' = file /\ Frame(p) /\ Remembers(p)'
    BY <1>10, <1>a DEF ReadText, Goto, IInv, TypeOK, Remembers, shared
  <2> QED
    BY <2>1, FileSame
<1>11. ASSUME NEW p \in Procs, Rename(p) PROVE MemoryInv'
  <2>1. ~Readable(file) /\ ~Readable(file')
    BY <1>11 DEF Rename, FileBecomes, Absent, Readable, IInv, MemoryInv, Remembers
  <2>2. View(file) = EmptyRows /\ View(file') = EmptyRows
    BY <2>1 DEF View
  <2>3. Frame(p) /\ pc'[p] = "decide" /\ data'[p] = EmptyRows
    BY <1>11 DEF Rename, Goto, IInv, TypeOK
  <2>4. Remembers(p)'
    BY <2>2, <2>3 DEF Remembers
  <2>5. CASE p \in ex
    BY <2>3, <2>4, <2>5, OthersForget
  <2>6. CASE p \in sh
    <3>1. \A q \in Procs : pc[q] \notin ExOnly
      BY <2>6, ReadersOnly DEF IInv
    <3>2. \A q \in Procs \ {p} : Remembers(q)'
      BY <2>1, <2>2, <2>3, <3>1 DEF IInv, MemoryInv, Remembers, ExOnly
    <3> QED
      BY <2>4, <3>2 DEF MemoryInv
  <2> QED
    BY <1>11, <2>5, <2>6 DEF Rename, IInv, LockInv, Either
<1>12. ASSUME NEW p \in Procs, Decide(p) PROVE MemoryInv'
  <2>1. data[p] = View(file) /\ file' = file
    BY <1>12 DEF Decide, IInv, MemoryInv, Remembers, shared
  <2>2. CASE Leave(p, IF call[p].verb \in {"add", "stealth"} THEN "refused" ELSE "ok")
    BY <2>1, <2>2, <1>a, FileSame
  <2>3. CASE /\ \E t \in Outcomes(call[p], data[p]) : data' = [data EXCEPT ![p] = t]
             /\ Goto(p, "writeTmp")
             /\ UNCHANGED <<sh, ex, call, synced, out>>
    <3>1. Frame(p) /\ Remembers(p)'
      BY <2>1, <2>3 DEF Goto, IInv, TypeOK, Remembers
    <3> QED
      BY <2>1, <3>1, FileSame
  <2> QED
    BY <1>12, <2>2, <2>3 DEF Decide
<1>13. ASSUME NEW p \in Procs, WriteTmp(p) PROVE MemoryInv'
  <2>1. file' = file /\ Frame(p) /\ Remembers(p)'
    BY <1>13 DEF WriteTmp, Goto, IInv, TypeOK, MemoryInv, Remembers, shared
  <2> QED
    BY <2>1, FileSame
<1>14. ASSUME NEW p \in Procs, FsyncTmp(p) PROVE MemoryInv'
  <2>1. file' = file /\ Frame(p) /\ Remembers(p)'
    BY <1>14 DEF FsyncTmp, Goto, IInv, TypeOK, MemoryInv, Remembers, shared
  <2> QED
    BY <2>1, FileSame
<1>15. ASSUME NEW p \in Procs, Replace(p) PROVE MemoryInv'
  <2>1. p \in ex
    BY <1>15 DEF Replace, IInv, LockInv, ExOnly
  <2>2. Remembers(p)' /\ \A q \in Procs \ {p} : pc'[q] = pc[q]
    BY <1>15, ReplaceFacts DEF Replace, Goto, IInv, TypeOK, Remembers
  <2> QED
    BY <2>1, <2>2, OthersForget
<1>16. ASSUME NEW p \in Procs, FsyncDir(p) PROVE MemoryInv'
  <2>1. file' = file /\ Frame(p) /\ Remembers(p)'
    BY <1>16, <1>a DEF FsyncDir, Goto, IInv, TypeOK, Remembers, shared
  <2> QED
    BY <2>1, FileSame
<1>17. ASSUME NEW p \in Procs, WriteError(p) \/ Kill(p) PROVE MemoryInv'
  <2>1. file' = file /\ Frame(p) /\ Remembers(p)'
    BY <1>17, <1>a DEF WriteError, Kill, shared
  <2> QED
    BY <2>1, FileSame
<1>18. ASSUME PowerLoss PROVE MemoryInv'
  BY <1>18 DEF PowerLoss, MemoryInv, Remembers
<1>19. ASSUME UNCHANGED vars PROVE MemoryInv'
  BY <1>19 DEF vars, IInv, MemoryInv, Remembers
<1> QED
  BY <1>1, <1>2, <1>3, <1>4, <1>5, <1>6, <1>7, <1>8, <1>9, <1>10, <1>11, <1>12,
     <1>13, <1>14, <1>15, <1>16, <1>17, <1>18, <1>19 DEF Next, Step

-----------------------------------------------------------------------------
(* What is, or may be, on disk.                                            *)

\* Every step keeps the on-disk states sound.
LEMMA DiskStep ==
  ASSUME IInv, [Next]_vars
  PROVE  DiskInv'
<1>a. ASSUME UNCHANGED shared PROVE DiskInv'
  BY <1>a DEF IInv, DiskInv, shared
<1>b. ASSUME NEW f, NEW b, FileBecomes(f, b), UniqueIndices(View(f)) PROVE DiskInv'
  BY <1>b DEF IInv, DiskInv, FileBecomes
<1>c. ASSUME UNCHANGED <<file, bak, disk>> PROVE DiskInv'
  BY <1>c DEF IInv, DiskInv
<1>d. View(<<Torn, bak>>[1]) = EmptyRows
  BY ViewEmpty
<1>1. ASSUME NEW p \in Procs, InitCheck(p) PROVE DiskInv'
  BY <1>1, <1>b, <1>c, ViewEmpty, EmptyFacts DEF InitCheck
<1>2. ASSUME NEW p \in Procs, InitWrite(p) PROVE DiskInv'
  BY <1>2, <1>b, ViewDoc, EmptyFacts DEF InitWrite
<1>3. ASSUME NEW p \in Procs, Rename(p) PROVE DiskInv'
  BY <1>3, <1>b, <1>c, ViewEmpty, EmptyFacts DEF Rename
<1>4. ASSUME NEW p \in Procs, Replace(p) PROVE DiskInv'
  <2>1. UniqueIndices(View(file'))
    BY <1>4, ReplaceFacts
  <2>2. \A s \in disk' : s \in disk \/ s = <<file', bak>> \/ s = <<Torn, bak>>
    BY <1>4 DEF Replace
  <2>3. <<file', bak'>> \in disk'
    BY <1>4 DEF Replace
  <2> QED
    BY <2>1, <2>2, <2>3, <1>d, EmptyFacts DEF IInv, DiskInv
<1>5. ASSUME NEW p \in Procs, FsyncDir(p) PROVE DiskInv'
  <2>1. \A s \in disk' : s = <<file, bak>> \/ s = <<Torn, bak>>
    BY <1>5 DEF FsyncDir
  <2>2. <<file', bak'>> \in disk'
    BY <1>5 DEF FsyncDir
  <2>3. UniqueIndices(View(file))
    BY DEF IInv, DiskInv
  <2> QED
    BY <2>1, <2>2, <2>3, <1>d, EmptyFacts DEF DiskInv
<1>6. ASSUME PowerLoss PROVE DiskInv'
  BY <1>6 DEF PowerLoss, IInv, DiskInv
<1>7. ASSUME NEW p \in Procs,
             Start(p) \/ ListExists(p) \/ LockShared(p) \/ MigExists(p) \/ MigRead(p)
               \/ LockExclusive(p) \/ ReadExists(p) \/ ReadText(p) \/ Decide(p)
               \/ WriteTmp(p) \/ FsyncTmp(p) \/ WriteError(p) \/ Kill(p)
      PROVE  DiskInv'
  <2>1. UNCHANGED shared
    BY <1>7 DEF Start, ListExists, LockShared, MigExists, MigRead, LockExclusive,
                ReadExists, ReadText, Decide, WriteTmp, FsyncTmp, WriteError, Kill
  <2> QED
    BY <2>1, <1>a
<1>8. ASSUME UNCHANGED vars PROVE DiskInv'
  BY <1>8, <1>a DEF vars, shared
<1> QED
  BY <1>1, <1>2, <1>3, <1>4, <1>5, <1>6, <1>7, <1>8 DEF Next, Step

-----------------------------------------------------------------------------
(* The theorems.                                                           *)

\* The invariant holds at the start ...
LEMMA InitInv == Init => IInv
<1> SUFFICES ASSUME Init PROVE IInv
  OBVIOUS
<1>1. file \in File /\ UniqueIndices(View(file))
  BY RegistryAssumption DEF Init
<1>2. View(file) \in Table
  BY <1>1, ViewFacts
<1>3. \A n \in Names : View(file)[n] \in Row
  BY <1>2 DEF Table
<1>4. TypeOK
  BY <1>1, <1>3, EmptyFacts, ViewEmpty, RegistryAssumption DEF Init, TypeOK, Steps
<1>5. CallInv /\ LockInv /\ MemoryInv
  BY DEF Init, CallInv, LockInv, ShOnly, ExOnly, Either, MemoryInv, Remembers
<1>6. DiskInv
  BY <1>1 DEF Init, DiskInv
<1> QED
  BY <1>4, <1>5, <1>6 DEF IInv

\* ... and is inductive.
LEMMA Inductive == Spec => []IInv
<1>1. IInv /\ [Next]_vars => IInv'
  BY TypeStep, CallStep, LockStep, MemoryStep, DiskStep DEF IInv
<1> QED
  BY InitInv, <1>1, PTL DEF Spec

\* The registry's variables keep their types, through crashes too.
THEOREM Typing == Spec => []TypeOK
<1>1. IInv => TypeOK
  BY DEF IInv
<1> QED
  BY <1>1, Inductive, PTL

\* However many commands run, are killed or lose power, no two registered
\* instances ever hold the same port index.
THEOREM IndexUniqueness == Spec => []UniqueIndex
<1>1. IInv => UniqueIndex
  BY DEF IInv, DiskInv, UniqueIndex
<1> QED
  BY <1>1, Inductive, PTL

-----------------------------------------------------------------------------
(* Durability and refinement.                                              *)

\* The tmp file is on disk before the rename that publishes it.
SyncInv == \A p \in Procs : pc[p] \in {"replace", "fsyncDir"} => synced[p]

\* No step lets a rename overtake the fsync of the tmp file.
LEMMA SyncStep ==
  ASSUME IInv, SyncInv, [Next]_vars
  PROVE  SyncInv'
<1> USE DEF IInv, TypeOK, SyncInv, Goto
<1>1. ASSUME NEW p \in Procs, Start(p) \/ ListExists(p) \/ LockShared(p) \/ MigExists(p)
                                \/ MigRead(p) \/ LockExclusive(p)
      PROVE  SyncInv'
  BY <1>1 DEF Start, ListExists, LockShared, MigExists, MigRead, LockExclusive, Leave
<1>2. ASSUME NEW p \in Procs, InitCheck(p) \/ InitWrite(p) \/ ReadExists(p) \/ ReadText(p)
                                \/ Rename(p) \/ Decide(p)
      PROVE  SyncInv'
  BY <1>2 DEF InitCheck, InitWrite, ReadExists, ReadText, Rename, Decide, Leave
<1>3. ASSUME NEW p \in Procs, WriteTmp(p) \/ FsyncTmp(p) \/ Replace(p) \/ FsyncDir(p)
                                \/ WriteError(p) \/ Kill(p)
      PROVE  SyncInv'
  BY <1>3 DEF WriteTmp, FsyncTmp, Replace, FsyncDir, WriteError, Kill, Leave
<1>4. ASSUME PowerLoss PROVE SyncInv'
  BY <1>4 DEF PowerLoss
<1>5. ASSUME UNCHANGED vars PROVE SyncInv'
  BY <1>5 DEF vars
<1> QED
  BY <1>1, <1>2, <1>3, <1>4, <1>5 DEF Next, Step

\* First-time initialisation and quarantine do not change what a reader of the
\* file is given.
LEMMA Invisible ==
  ASSUME IInv, NEW p \in Procs, InitCheck(p) \/ InitWrite(p) \/ Rename(p)
  PROVE  /\ View(file') = View(file) /\ allowed' = allowed
         /\ <<file', bak'>> \in disk'
         /\ \A s \in disk' : s \in disk \/ s = <<file', bak'>>
         /\ disk \subseteq disk'
<1>1. ASSUME InitCheck(p) PROVE View(file') = View(file)
  BY <1>1, ViewEmpty DEF InitCheck, FileBecomes, View, Readable
<1>2. ASSUME InitWrite(p) PROVE View(file') = View(file)
  <2>1. View(file) = EmptyRows
    BY <1>2 DEF InitWrite, IInv, MemoryInv, Remembers, View
  <2> QED
    BY <1>2, <2>1, EmptyFacts, ViewDoc DEF InitWrite, FileBecomes
<1>3. ASSUME Rename(p) PROVE View(file') = View(file)
  <2>1. View(file) = EmptyRows
    BY <1>3 DEF Rename, IInv, MemoryInv, Remembers, View
  <2> QED
    BY <1>3, <2>1, ViewEmpty DEF Rename, FileBecomes
<1>4. <<file, bak>> \in disk
  BY DEF IInv, DiskInv
<1> QED
  BY <1>1, <1>2, <1>3, <1>4 DEF InitCheck, InitWrite, Rename, FileBecomes

\* No step breaks durability.
LEMMA DurableStep ==
  ASSUME IInv, SyncInv, AckedDurable, [Next]_vars
  PROVE  AckedDurable'
<1>a. ASSUME UNCHANGED shared PROVE AckedDurable'
  BY <1>a DEF AckedDurable, shared
<1>b. \A n \in Names : View(file)[n] \in allowed[n]
  BY DEF IInv, DiskInv, AckedDurable
<1>1. ASSUME NEW p \in Procs, InitCheck(p) \/ InitWrite(p) \/ Rename(p) PROVE AckedDurable'
  BY <1>1, <1>b, Invisible DEF AckedDurable
<1>2. ASSUME NEW p \in Procs, Replace(p) PROVE AckedDurable'
  <2>1. \A s \in disk' : s \in disk \/ s = <<file', bak>>
    BY <1>2 DEF Replace, SyncInv
  <2>2. \A n \in Names : allowed[n] \subseteq allowed'[n]
    BY <1>2 DEF Replace, IInv, TypeOK
  <2>3. /\ call[p].name \in Names
        /\ View(file') = data[p]
        /\ \A n \in Names \ {call[p].name} : data[p][n] = View(file)[n]
    BY <1>2, ReplaceFacts
  <2>4. data[p][call[p].name] \in allowed'[call[p].name]
    BY <1>2, <2>3 DEF Replace, IInv, TypeOK
  <2>5. \A n \in Names : View(file')[n] \in allowed'[n]
    BY <1>b, <2>2, <2>3, <2>4
  <2> QED
    BY <2>1, <2>2, <2>5 DEF AckedDurable
<1>3. ASSUME NEW p \in Procs, FsyncDir(p) PROVE AckedDurable'
  <2>1. disk' = {<<file, bak>>}
    BY <1>3 DEF FsyncDir, SyncInv
  <2>2. data[p] = View(file)
    BY <1>3 DEF FsyncDir, IInv, MemoryInv, Remembers
  <2>3. \A n \in Names : View(file)[n] \in allowed'[n]
    BY <1>3, <1>b, <2>2 DEF FsyncDir, IInv, TypeOK
  <2> QED
    BY <2>1, <2>3 DEF AckedDurable
<1>4. ASSUME PowerLoss PROVE AckedDurable'
  BY <1>4 DEF PowerLoss, AckedDurable
<1>5. ASSUME NEW p \in Procs,
             Start(p) \/ ListExists(p) \/ LockShared(p) \/ MigExists(p) \/ MigRead(p)
               \/ LockExclusive(p) \/ ReadExists(p) \/ ReadText(p) \/ Decide(p)
               \/ WriteTmp(p) \/ FsyncTmp(p) \/ WriteError(p) \/ Kill(p)
      PROVE  AckedDurable'
  <2>1. UNCHANGED shared
    BY <1>5 DEF Start, ListExists, LockShared, MigExists, MigRead, LockExclusive,
                ReadExists, ReadText, Decide, WriteTmp, FsyncTmp, WriteError, Kill
  <2> QED
    BY <2>1, <1>a
<1>6. ASSUME UNCHANGED vars PROVE AckedDurable'
  BY <1>6, <1>a DEF vars, shared
<1> QED
  BY <1>1, <1>2, <1>3, <1>4, <1>5, <1>6 DEF Next, Step

\* The durability invariant, in the form the refinement uses too.
LEMMA InductiveDurable == Spec => [](IInv /\ SyncInv /\ AckedDurable)
<1>1. Init => SyncInv /\ AckedDurable
  BY DEF Init, SyncInv, AckedDurable
<1>2. IInv /\ SyncInv /\ AckedDurable /\ [Next]_vars => (SyncInv /\ AckedDurable)'
  BY SyncStep, DurableStep
<1> QED
  BY Inductive, <1>1, <1>2, PTL DEF Spec

\* A registry call that returned survives a power loss at any later moment.
THEOREM Durability == Spec => []AckedDurable
BY InductiveDurable, PTL

\* A mutator's outcome is one abstract operation on the abstract table.
LEMMA AbsOutcome ==
  ASSUME NEW c \in Calls, c.name \in Names, NEW t \in Outcomes(c, View(file)),
         View(file') = t,
         {View(s[1]) : s \in disk'} = {View(s[1]) : s \in disk} \cup {t}
  PROVE  Abs!AbsNext
<1>0. c.kind \in Kinds /\ c.blob \in Blobs
  BY RowsAssumption DEF Calls, Kinds
<1>b. Abs!Becomes(t)
  BY DEF Abs!Becomes
<1>1. CASE c.verb = "add"
  <2>1. PICK i \in 0..MaxIndex :
          CanAdd(View(file), c.name, i) /\ t = AddRow(View(file), c.name, c.kind, i)
    BY <1>1 DEF Outcomes
  <2>2. Abs!CanAdd(View(file), c.name, i)
    BY <2>1 DEF Abs!CanAdd, CanAdd, Abs!Present, Present, Abs!IsLowestFree, IsLowestFree,
       Abs!UsedIndices, UsedIndices
  <2>3. Abs!AddRow(View(file), c.name, c.kind, i) = t
    BY <2>1 DEF Abs!AddRow, AddRow
  <2>4. c.kind \in Abs!Kinds
    BY <1>0 DEF Abs!Kinds, Kinds
  <2>5. Abs!AbsAdd(c.name)
    BY <1>b, <2>1, <2>2, <2>3, <2>4 DEF Abs!AbsAdd
  <2> QED
    BY <2>5 DEF Abs!AbsNext
<1>2. CASE c.verb = "remove"
  <2>1. t = RemoveRow(View(file), c.name)
    BY <1>2 DEF Outcomes
  <2>2. Abs!AbsRemove(c.name)
    BY <1>b, <2>1 DEF Abs!AbsRemove, Abs!RemoveRow, RemoveRow, Abs!NoRow, NoRow
  <2> QED
    BY <2>2 DEF Abs!AbsNext
<1>3. CASE c.verb = "stealth"
  <2>1. CanSetStealth(View(file), c.name) /\ t = SetStealth(View(file), c.name, c.blob)
    BY <1>3 DEF Outcomes
  <2>2. Abs!AbsStealth(c.name)
    BY <1>0, <1>b, <2>1 DEF Abs!AbsStealth, Abs!CanSetStealth, CanSetStealth, Abs!IsKind, IsKind,
       Abs!SetStealth, SetStealth
  <2> QED
    BY <2>2 DEF Abs!AbsNext
<1>4. CASE c.verb = "reconcile"
  <2>1. CanReconcile(View(file), c.name, c.kind) /\ t = Reconcile(View(file), c.name, c.kind)
    BY <1>4 DEF Outcomes
  <2>2. Abs!AbsReconcile(c.name)
    BY <1>0, <1>b, <2>1 DEF Abs!AbsReconcile, Abs!CanReconcile, CanReconcile, Abs!IsKind, IsKind,
       Abs!Reconcile, Reconcile, Abs!Kinds, Kinds
  <2> QED
    BY <2>2 DEF Abs!AbsNext
<1>5. c.verb \in {"add", "remove", "stealth", "reconcile"}
  BY DEF Outcomes, Calls
<1> QED
  BY <1>1, <1>2, <1>3, <1>4, <1>5

\* Every step of the file protocol is an abstract step or changes nothing that
\* the abstract table shows.
LEMMA AbsStep ==
  ASSUME IInv, SyncInv, [Next]_vars
  PROVE  [Abs!AbsNext]_(Abs!absVars)
<1> DEFINE reg == View(file)
           durable == {View(s[1]) : s \in disk}
           Same == reg' = reg /\ durable' = durable
<1>a. Same => [Abs!AbsNext]_(Abs!absVars)
  BY DEF Abs!absVars
<1>b. <<file, bak>> \in disk
  BY DEF IInv, DiskInv
<1>1. ASSUME NEW p \in Procs, InitCheck(p) \/ InitWrite(p) \/ Rename(p) PROVE Same
  <2>1. View(file') = View(file)
    BY <1>1, Invisible
  <2>2. \A s \in disk' : s \in disk \/ s = <<file', bak'>>
    BY <1>1, Invisible
  <2>3. disk \subseteq disk'
    BY <1>1, Invisible
  <2>4. {View(s[1]) : s \in disk'} = {View(s[1]) : s \in disk}
    BY <1>b, <2>1, <2>2, <2>3
  <2> QED
    BY <2>1, <2>4
<1>2. ASSUME NEW p \in Procs, Replace(p) PROVE Abs!AbsNext
  <2>1. disk' = disk \cup {<<file', bak>>}
    BY <1>2 DEF Replace, SyncInv
  <2>2. {View(s[1]) : s \in disk'} = {View(s[1]) : s \in disk} \cup {View(file')}
    <3>1. <<file', bak>>[1] = file'
      OBVIOUS
    <3>2. \A x : x \in {View(s[1]) : s \in disk'}
                 <=> x \in {View(s[1]) : s \in disk} \/ x = View(file')
      BY <2>1, <3>1
    <3> QED
      BY <3>2
  <2> QED
    BY <1>2, <2>2, ReplaceFacts, AbsOutcome
<1>3. ASSUME NEW p \in Procs, FsyncDir(p) PROVE Abs!AbsNext
  <2>1. disk' = {<<file, bak>>} /\ file' = file
    BY <1>3 DEF FsyncDir, SyncInv
  <2>2. {View(s[1]) : s \in disk'} = {View(file)}
    BY <2>1
  <2> QED
    BY <2>1, <2>2 DEF Abs!AbsNext, Abs!AbsSync
<1>4. ASSUME PowerLoss PROVE Abs!AbsNext
  <2>1. PICK s \in disk : file' = s[1]
    BY <1>4 DEF PowerLoss
  <2>2. {View(z[1]) : z \in disk'} = {View(file')}
    BY <1>4 DEF PowerLoss
  <2>3. View(file') \in {View(z[1]) : z \in disk}
    BY <2>1
  <2> QED
    BY <2>2, <2>3 DEF Abs!AbsNext, Abs!AbsPowerLoss
<1>5. ASSUME NEW p \in Procs,
             Start(p) \/ ListExists(p) \/ LockShared(p) \/ MigExists(p) \/ MigRead(p)
               \/ LockExclusive(p) \/ ReadExists(p) \/ ReadText(p) \/ Decide(p)
               \/ WriteTmp(p) \/ FsyncTmp(p) \/ WriteError(p) \/ Kill(p)
      PROVE  Same
  <2>1. UNCHANGED shared
    BY <1>5 DEF Start, ListExists, LockShared, MigExists, MigRead, LockExclusive,
                ReadExists, ReadText, Decide, WriteTmp, FsyncTmp, WriteError, Kill
  <2> QED
    BY <2>1 DEF shared
<1>6. ASSUME UNCHANGED vars PROVE Same
  BY <1>6 DEF vars
<1> QED
  BY <1>a, <1>1, <1>2, <1>3, <1>4, <1>5, <1>6 DEF Next, Step

\* The locked, fsynced, crash-exposed file implements an atomic durable table.
THEOREM Refinement == Spec => ImplementsAbs
<1>1. Init => Abs!AbsInit
  <2> SUFFICES ASSUME Init PROVE Abs!AbsInit
    OBVIOUS
  <2>1. UniqueIndices(View(file)) /\ {View(s[1]) : s \in disk} = {View(file)}
    BY RegistryAssumption DEF Init
  <2> QED
    BY <2>1 DEF Abs!AbsInit, Abs!UniqueIndices, UniqueIndices, Abs!Present, Present
<1>2. IInv /\ SyncInv /\ [Next]_vars => [Abs!AbsNext]_(Abs!absVars)
  BY AbsStep
<1> QED
  BY <1>1, <1>2, InductiveDurable, PTL DEF Spec, ImplementsAbs, Abs!AbsSpec

-----------------------------------------------------------------------------
(* Quarantine: rows are moved, not dropped, and whom the move can surprise. *)

\* A missing or half-initialised instances.json holds no rows, now or after a
\* power loss.
Bare(f) == f.env \in {"absent", "torn"} => f.rows = EmptyRows

\* What a process relies on between its look at the file and its next step.
\* Only readers of a current document stay under the shared lock, and a table
\* is only written back over a document it was read from, or over none.
Relies(p) ==
  /\ pc[p] = "initWrite" => file = Torn
  /\ pc[p] \in {"decide", "writeTmp", "fsyncTmp", "replace"} => Readable(file) \/ file.env = "absent"
  /\ p \in sh /\ pc[p] \in {"readExists", "readText", "rename"} => file.env \in {"v3", "absent"}
  /\ p \in ex /\ pc[p] = "readText" => file.env # "absent"
  /\ pc[p] \in {"migRead", "readText"} /\ file.env = "absent" => bak.env = "v3" /\ ~Readable(bak)

QuarantineInv ==
  /\ \A s \in disk : Bare(s[1])
  /\ \A p \in Procs : Relies(p)

\* A step that leaves the file and the quarantine alone can only disturb what
\* its own process relies on.
LEMMA RelySame ==
  ASSUME IInv, QuarantineInv, NEW p \in Procs, UNCHANGED <<file, bak, disk>>, Relies(p)',
         \A q \in Procs \ {p} : pc'[q] = pc[q] /\ (q \in sh' <=> q \in sh) /\ (q \in ex' <=> q \in ex)
  PROVE  QuarantineInv'
<1>1. \A q \in Procs \ {p} : Relies(q)'
  BY DEF QuarantineInv, Relies
<1> QED
  BY <1>1 DEF QuarantineInv

\* A step by the holder of LOCK_EX can only disturb what it relies on itself.
LEMMA RelyAlone ==
  ASSUME IInv, QuarantineInv, NEW p \in ex, Relies(p)',
         \A q \in Procs \ {p} : pc'[q] = pc[q],
         \A s \in disk' : Bare(s[1])
  PROVE  QuarantineInv'
<1>1. \A q \in Procs \ {p} : Relies(q)'
  BY Alone DEF IInv, Relies
<1> QED
  BY <1>1 DEF QuarantineInv

\* The states the protocol itself publishes are bare or documents.
LEMMA BareFacts ==
  /\ Bare(Absent) /\ Bare(Torn)
  /\ \A t : Bare(Doc(t))
  /\ ~Readable(Torn) /\ ~Readable(Absent) /\ Absent.env = "absent" /\ Torn.env = "torn"
BY DEF Bare, Absent, Torn, Doc, Readable

\* Every step keeps the quarantine invariant.
LEMMA QuarantineStep ==
  ASSUME IInv, QuarantineInv, [Next]_vars
  PROVE  QuarantineInv'
<1> DEFINE Frame(p) == \A q \in Procs \ {p} :
                         pc'[q] = pc[q] /\ (q \in sh' <=> q \in sh) /\ (q \in ex' <=> q \in ex)
<1>t. pc \in [Procs -> Steps] /\ sh \subseteq Procs /\ ex \subseteq Procs
  BY DEF IInv, TypeOK
<1>a. ASSUME NEW p \in Procs, NEW how, Leave(p, how) PROVE Frame(p) /\ Relies(p)'
  BY <1>a, <1>t DEF Leave, Goto, Relies
<1>1. ASSUME NEW p \in Procs,
             Start(p) \/ ListExists(p) \/ LockShared(p) \/ LockExclusive(p)
               \/ WriteTmp(p) \/ FsyncTmp(p) \/ WriteError(p) \/ Kill(p)
      PROVE  QuarantineInv'
  <2>1. UNCHANGED <<file, bak, disk>>
    BY <1>1 DEF Start, ListExists, LockShared, LockExclusive, WriteTmp, FsyncTmp,
                WriteError, Kill, shared
  <2>2. CASE Start(p) \/ ListExists(p) \/ LockShared(p)
    <3>1. Frame(p) /\ Relies(p)'
      BY <2>1, <2>2, <1>a, <1>t DEF Start, ListExists, LockShared, Goto, Relies
    <3> QED
      BY <2>1, <3>1, RelySame
  <2>3. CASE LockExclusive(p)
    <3>1. Frame(p) /\ Relies(p)'
      BY <2>1, <2>3, <1>t DEF LockExclusive, Goto, Relies
    <3> QED
      BY <2>1, <3>1, RelySame
  <2>4. CASE WriteTmp(p) \/ FsyncTmp(p)
    <3>1. Frame(p) /\ Relies(p)'
      BY <2>1, <2>4, <1>t DEF WriteTmp, FsyncTmp, Goto, Relies, QuarantineInv
    <3> QED
      BY <2>1, <3>1, RelySame
  <2>5. CASE WriteError(p) \/ Kill(p)
    BY <2>1, <2>5, <1>a, RelySame DEF WriteError, Kill
  <2> QED
    BY <1>1, <2>2, <2>3, <2>4, <2>5
<1>2. ASSUME NEW p \in Procs, MigExists(p) \/ MigRead(p) PROVE QuarantineInv'
  <2>1. UNCHANGED <<file, bak, disk>> /\ p \in sh /\ p \notin ex
    BY <1>2 DEF MigExists, MigRead, shared, IInv, LockInv, ShOnly
  <2>2. CASE MigExists(p)
    <3>1. Frame(p) /\ Relies(p)'
      BY <2>1, <2>2, <1>t DEF MigExists, Goto, Relies
    <3> QED
      BY <2>1, <3>1, RelySame
  <2>3. CASE MigRead(p)
    <3>1. Frame(p) /\ Relies(p)'
      BY <2>1, <2>3, <1>a, <1>t DEF MigRead, Goto, Relies
    <3> QED
      BY <2>1, <3>1, RelySame
  <2> QED
    BY <1>2, <2>2, <2>3
<1>3. ASSUME NEW p \in Procs, ReadExists(p) PROVE QuarantineInv'
  <2>1. UNCHANGED <<file, bak, disk>> /\ Frame(p) /\ Relies(p)'
    BY <1>3, <1>t DEF ReadExists, shared, Goto, Relies, QuarantineInv
  <2> QED
    BY <2>1, RelySame
<1>4. ASSUME NEW p \in Procs, ReadText(p) PROVE QuarantineInv'
  <2>1. UNCHANGED <<file, bak, disk>>
    BY <1>4 DEF ReadText, shared
  <2>2. Frame(p) /\ Relies(p)'
    BY <1>4, <2>1, <1>a, <1>t DEF ReadText, Goto, Relies, QuarantineInv
  <2> QED
    BY <2>1, <2>2, RelySame
<1>5. ASSUME NEW p \in Procs, Decide(p) PROVE QuarantineInv'
  <2>1. UNCHANGED <<file, bak, disk>>
    BY <1>5 DEF Decide, shared
  <2>2. CASE Leave(p, IF call[p].verb \in {"add", "stealth"} THEN "refused" ELSE "ok")
    BY <2>1, <2>2, <1>a, RelySame
  <2>3. CASE Goto(p, "writeTmp") /\ UNCHANGED <<sh, ex>>
    <3>1. Frame(p) /\ Relies(p)'
      BY <1>5, <2>1, <2>3, <1>t DEF Decide, Goto, Relies, QuarantineInv
    <3> QED
      BY <2>1, <3>1, RelySame
  <2> QED
    BY <1>5, <2>2, <2>3 DEF Decide
<1>6. ASSUME NEW p \in Procs, InitCheck(p) PROVE QuarantineInv'
  <2>1. p \in ex /\ p \notin sh
    BY <1>6 DEF InitCheck, IInv, LockInv, ExOnly
  <2>2. Relies(p)' /\ \A q \in Procs \ {p} : pc'[q] = pc[q]
    BY <1>6, <2>1, <1>t, BareFacts DEF InitCheck, FileBecomes, Goto, Relies
  <2>3. \A s \in disk' : Bare(s[1])
    BY <1>6, BareFacts DEF InitCheck, FileBecomes, QuarantineInv
  <2> QED
    BY <2>1, <2>2, <2>3, RelyAlone
<1>7. ASSUME NEW p \in Procs, InitWrite(p) PROVE QuarantineInv'
  <2>1. p \in ex /\ p \notin sh
    BY <1>7 DEF InitWrite, IInv, LockInv, ExOnly
  <2>2. Relies(p)' /\ \A q \in Procs \ {p} : pc'[q] = pc[q]
    BY <1>7, <2>1, <1>t DEF InitWrite, FileBecomes, Goto, Relies
  <2>3. \A s \in disk' : Bare(s[1])
    BY <1>7, BareFacts DEF InitWrite, FileBecomes, QuarantineInv
  <2> QED
    BY <2>1, <2>2, <2>3, RelyAlone
<1>8. ASSUME NEW p \in Procs, Rename(p) PROVE QuarantineInv'
  <2>0. pc' = [pc EXCEPT ![p] = "decide"] /\ UNCHANGED <<sh, ex>>
    BY <1>8 DEF Rename, Goto
  <2>1. CASE file.env = "absent"
    <3>1. UNCHANGED <<file, bak, disk>>
      BY <1>8, <2>1 DEF Rename, FileBecomes, Absent
    <3>2. Frame(p) /\ Relies(p)'
      BY <2>0, <2>1, <3>1, <1>t DEF Relies
    <3> QED
      BY <3>1, <3>2, RelySame
  <2>2. CASE file.env # "absent"
    <3>1. file' = Absent /\ bak' = file /\ disk' = disk \cup {<<Absent, file>>}
      BY <1>8, <2>2 DEF Rename, FileBecomes
    <3>2. \A s \in disk' : Bare(s[1])
      BY <3>1, BareFacts DEF QuarantineInv
    <3>3. Relies(p)' /\ \A q \in Procs \ {p} : pc'[q] = pc[q]
      BY <2>0, <3>1, <1>t, BareFacts DEF Relies
    <3>4. CASE p \in ex
      BY <3>2, <3>3, <3>4, RelyAlone
    <3>5. CASE p \in sh
      <4>1. file.env = "v3" /\ ~Readable(file)
        BY <1>8, <2>2, <3>5 DEF Rename, QuarantineInv, Relies, IInv, MemoryInv, Remembers
      <4>2. \A q \in Procs : pc[q] \notin ExOnly /\ q \notin ex
        BY <3>5, ReadersOnly DEF IInv, LockInv
      <4>3. \A q \in Procs \ {p} : Relies(q)'
        BY <2>0, <3>1, <3>3, <4>1, <4>2, BareFacts DEF Relies, ExOnly
      <4> QED
        BY <3>2, <3>3, <4>3 DEF QuarantineInv
    <3> QED
      BY <1>8, <3>4, <3>5 DEF Rename, IInv, LockInv, Either
  <2> QED
    BY <2>1, <2>2
<1>9. ASSUME NEW p \in Procs, Replace(p) PROVE QuarantineInv'
  <2>1. p \in ex
    BY <1>9 DEF Replace, IInv, LockInv, ExOnly
  <2>2. Relies(p)' /\ \A q \in Procs \ {p} : pc'[q] = pc[q]
    BY <1>9, <1>t DEF Replace, Goto, Relies
  <2>3. \A s \in disk' : s \in disk \/ s = <<Doc(data[p]), bak>> \/ s = <<Torn, bak>>
    BY <1>9 DEF Replace
  <2>4. \A s \in disk' : Bare(s[1])
    BY <2>3, BareFacts DEF QuarantineInv
  <2> QED
    BY <2>1, <2>2, <2>4, RelyAlone
<1>10. ASSUME NEW p \in Procs, FsyncDir(p) PROVE QuarantineInv'
  <2>1. p \in ex
    BY <1>10 DEF FsyncDir, IInv, LockInv, ExOnly
  <2>2. Relies(p)' /\ \A q \in Procs \ {p} : pc'[q] = pc[q]
    BY <1>10, <1>a DEF FsyncDir
  <2>3. \A s \in disk' : s = <<file, bak>> \/ s = <<Torn, bak>>
    BY <1>10 DEF FsyncDir
  <2>4. \A s \in disk' : Bare(s[1])
    BY <2>3, BareFacts DEF QuarantineInv, IInv, DiskInv
  <2> QED
    BY <2>1, <2>2, <2>4, RelyAlone
<1>11. ASSUME PowerLoss PROVE QuarantineInv'
  <2>1. \A p \in Procs : Relies(p)'
    BY <1>11 DEF PowerLoss, Relies
  <2>2. \A s \in disk' : Bare(s[1])
    BY <1>11 DEF PowerLoss, QuarantineInv
  <2> QED
    BY <2>1, <2>2 DEF QuarantineInv
<1>12. ASSUME UNCHANGED vars PROVE QuarantineInv'
  BY <1>12 DEF vars, QuarantineInv, Relies
<1> QED
  BY <1>1, <1>2, <1>3, <1>4, <1>5, <1>6, <1>7, <1>8, <1>9, <1>10, <1>11, <1>12
     DEF Next, Step

\* The quarantine invariant holds along every behaviour.
LEMMA InductiveQuarantine == Spec => [](IInv /\ QuarantineInv)
<1>1. Init => QuarantineInv
  BY RegistryAssumption DEF Init, QuarantineInv, Bare, Relies
<1>2. IInv /\ QuarantineInv /\ [Next]_vars => QuarantineInv'
  BY QuarantineStep
<1> QED
  BY Inductive, <1>1, <1>2, PTL DEF Spec

\* A row disappears from instances.json only when its removal was asked for or
\* when the whole file moves to .bak, whatever runs beside it.
THEOREM RowsOnlyMoved == Spec => RowsKept
<1> DEFINE Gone(n) == file.rows[n].shape \notin {"none", "nodict"} /\ file'.rows[n].shape = "none"
           Removing(n) == \E p \in Procs : pc[p] = "replace" /\ call[p].verb = "remove" /\ call[p].name = n
           Kept == PowerLoss \/ (bak' = file /\ file' = Absent) \/ \A n \in Names : Gone(n) => Removing(n)
<1>1. ASSUME IInv, QuarantineInv, [Next]_vars PROVE Kept
  <2>a. \A n \in Names : EmptyRows[n].shape = "none"
    BY DEF EmptyRows, NoRow
  <2>b. Bare(file)
    BY <1>1 DEF IInv, DiskInv, QuarantineInv
  <2>1. ASSUME file' = file PROVE Kept
    BY <2>1
  <2>2. ASSUME file.rows = EmptyRows PROVE Kept
    BY <2>2, <2>a
  <2>3. ASSUME NEW p \in Procs, InitCheck(p) PROVE Kept
    BY <2>1, <2>2, <2>3, <2>b DEF InitCheck, Bare
  <2>4. ASSUME NEW p \in Procs, InitWrite(p) PROVE Kept
    BY <1>1, <2>2, <2>4 DEF InitWrite, QuarantineInv, Relies, Torn
  <2>5. ASSUME NEW p \in Procs, Rename(p) PROVE Kept
    BY <2>1, <2>5 DEF Rename, FileBecomes
  <2>6. ASSUME NEW p \in Procs, Replace(p) PROVE Kept
    <3>1. CASE file.env = "absent"
      BY <3>1, <2>2, <2>b DEF Bare
    <3>2. CASE Readable(file)
      <4> SUFFICES ASSUME NEW n \in Names, Gone(n) PROVE Removing(n)
        OBVIOUS
      <4>1. file'.rows = data[p] /\ pc[p] = "replace"
        BY <2>6 DEF Replace, Doc
      <4>2. /\ call[p] \in Calls /\ call[p].name \in Names
            /\ data[p] \in Outcomes(call[p], View(file))
            /\ \A m \in Names \ {call[p].name} : data[p][m] = View(file)[m]
        BY <1>1, <2>6, ReplaceFacts
      <4>3. file.rows[n] \in Row
        BY <1>1 DEF IInv, TypeOK, File, Table
      <4>4. Present(file.rows[n])
        BY <3>2, <4>3 DEF Readable, Present, Row, Shapes
      <4>5. View(file)[n] = file.rows[n]
        BY <3>2, <4>4 DEF View
      <4>6. call[p].name = n
        BY <4>1, <4>2, <4>5
      <4>7. call[p].verb = "remove"
        <5>0. View(file) \in Table /\ Clean(View(file))
          BY <1>1, ViewFacts DEF IInv, TypeOK
        <5>1. call[p].verb \in {"add", "remove", "stealth", "reconcile"}
          BY <4>2, <5>0, OutcomeFacts DEF Mutators
        <5>2. CASE call[p].verb = "add"
          <6>1. PICK i \in 0..MaxIndex : CanAdd(View(file), n, i)
            BY <4>2, <4>6, <5>2 DEF Outcomes
          <6> QED
            BY <6>1, <4>4, <4>5 DEF CanAdd
        <5>3. CASE call[p].verb = "stealth"
          <6>1. data[p] = SetStealth(View(file), n, call[p].blob)
            BY <4>2, <4>6, <5>3 DEF Outcomes
          <6>2. data[p][n].shape = View(file)[n].shape
            BY <6>1, <5>0, <4>3, <4>5 DEF SetStealth, Table, Row
          <6> QED
            BY <4>1, <4>5, <6>2
        <5>4. CASE call[p].verb = "reconcile"
          <6>1. data[p] = Reconcile(View(file), n, call[p].kind)
            BY <4>2, <4>6, <5>4 DEF Outcomes
          <6>2. data[p][n].shape = View(file)[n].shape
            BY <6>1, <5>0, <4>3, <4>5 DEF Reconcile, Table, Row
          <6> QED
            BY <4>1, <4>5, <6>2
        <5> QED
          BY <5>1, <5>2, <5>3, <5>4
      <4> QED
        BY <4>1, <4>6, <4>7
    <3> QED
      BY <1>1, <2>6, <3>1, <3>2 DEF Replace, QuarantineInv, Relies
  <2>7. ASSUME NEW p \in Procs,
               Start(p) \/ ListExists(p) \/ LockShared(p) \/ MigExists(p) \/ MigRead(p)
                 \/ LockExclusive(p) \/ ReadExists(p) \/ ReadText(p) \/ Decide(p)
                 \/ WriteTmp(p) \/ FsyncTmp(p) \/ FsyncDir(p) \/ WriteError(p) \/ Kill(p)
        PROVE  Kept
    <3>1. file' = file
      BY <2>7 DEF Start, ListExists, LockShared, MigExists, MigRead, LockExclusive, ReadExists,
                  ReadText, Decide, WriteTmp, FsyncTmp, FsyncDir, WriteError, Kill, shared
    <3> QED
      BY <3>1, <2>1
  <2>8. ASSUME UNCHANGED vars PROVE Kept
    BY <2>8, <2>1 DEF vars
  <2> QED
    BY <1>1, <2>3, <2>4, <2>5, <2>6, <2>7, <2>8 DEF Next, Step
<1>2. IInv /\ QuarantineInv /\ [Next]_vars => [Kept]_vars
  BY <1>1
<1> QED
  BY <1>2, InductiveQuarantine, PTL DEF Spec, RowsKept

\* A call fails on a missing file only beside the quarantine of a current
\* document with an unsalvageable row: the legacy migration surprises nobody.
THEOREM CrashesExplained == Spec => NeverCrashes
<1>1. ASSUME IInv, QuarantineInv, [Next]_vars PROVE CrashExplained
  <2> USE DEF CrashExplained
  <2>t. out \in [Procs -> {"none", "ok", "refused", "crash"}]
    BY <1>1 DEF IInv, TypeOK
  <2>a. ASSUME NEW p \in Procs, NEW how, how # "crash", Leave(p, how) PROVE CrashExplained
    BY <2>a, <2>t DEF Leave
  <2>1. ASSUME out' = out PROVE CrashExplained
    BY <2>1
  <2>2. ASSUME NEW p \in Procs, MigRead(p) PROVE CrashExplained
    BY <1>1, <2>2, <2>1, <2>t DEF MigRead, Leave, QuarantineInv, Relies
  <2>3. ASSUME NEW p \in Procs, ReadText(p) PROVE CrashExplained
    BY <1>1, <2>3, <2>1, <2>t DEF ReadText, Leave, QuarantineInv, Relies
  <2>4. ASSUME NEW p \in Procs,
               LockShared(p) \/ MigExists(p) \/ LockExclusive(p) \/ InitCheck(p) \/ InitWrite(p)
                 \/ ReadExists(p) \/ Rename(p) \/ WriteTmp(p) \/ FsyncTmp(p) \/ Replace(p)
        PROVE  CrashExplained
    <3>1. out' = out
      BY <2>4 DEF LockShared, MigExists, LockExclusive, InitCheck, InitWrite, ReadExists,
                  Rename, WriteTmp, FsyncTmp, Replace
    <3> QED
      BY <3>1, <2>1
  <2>5. ASSUME NEW p \in Procs, Start(p) PROVE CrashExplained
    BY <2>5, <2>t DEF Start
  <2>6. ASSUME NEW p \in Procs, ListExists(p) \/ FsyncDir(p) \/ WriteError(p) \/ Kill(p) PROVE CrashExplained
    BY <2>6, <2>1, <2>a DEF ListExists, FsyncDir, WriteError, Kill
  <2>7. ASSUME NEW p \in Procs, Decide(p) PROVE CrashExplained
    BY <2>7, <2>1, <2>a DEF Decide
  <2>8. ASSUME PowerLoss PROVE CrashExplained
    BY <2>8 DEF PowerLoss
  <2>9. ASSUME UNCHANGED vars PROVE CrashExplained
    BY <2>9, <2>1 DEF vars
  <2> QED
    BY <1>1, <2>2, <2>3, <2>4, <2>5, <2>6, <2>7, <2>8, <2>9 DEF Next, Step
<1>2. IInv /\ QuarantineInv /\ [Next]_vars => [CrashExplained]_vars
  BY <1>1
<1> QED
  BY <1>2, InductiveQuarantine, PTL DEF Spec, NeverCrashes

=============================================================================
