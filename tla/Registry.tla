------------------------------ MODULE Registry ------------------------------
(***************************************************************************)
(* The instance registry (src/beetroot/registry.py): instances.json, the   *)
(* flock on its sibling .lock file, the .bak quarantine, and the processes *)
(* (one beetroot command each) that read and rewrite the file.             *)
(*                                                                         *)
(* One action per system call that another process, a kill or a power loss *)
(* can fall between.  A power loss leaves one of the states in "disk", the *)
(* set of on-disk outcomes that the fsyncs so far do not exclude.          *)
(***************************************************************************)
EXTENDS RegistryRows

CONSTANTS
  Procs,         \* concurrently running beetroot commands
  InitialFiles,  \* contents instances.json may have at the start
  MaxOps,        \* bound: registry calls made in a behaviour
  MaxFaults      \* bound: kills, power losses and write errors in a behaviour

Envelopes == {"absent", "torn", "legacy", "v3"}

\* instances.json as bytes: torn is not JSON, legacy has another version.
File   == [env : Envelopes, rows : Table]
Absent == [env |-> "absent", rows |-> EmptyRows]
Torn   == [env |-> "torn", rows |-> EmptyRows]

\* _registry_to_json: a v3 document holding exactly the parsed rows.
Doc(t) == [env |-> "v3", rows |-> t]

\* _read goes on to return rows: right version and no row raised
\* RegistryRowError.
Readable(f) == f.env = "v3" /\ \A n \in Names : f.rows[n].shape # "broken"

\* Mutant: rows whose backend does not validate are skipped (#252).
BugView(f) ==
  IF Readable(f)
  THEN [n \in Names |-> IF f.rows[n].shape = "valid" THEN f.rows[n] ELSE NoRow]
  ELSE EmptyRows

\* What _read returns for these bytes: rows that are not objects are skipped.
View(f) ==
  IF Readable(f)
  THEN [n \in Names |-> IF Present(f.rows[n]) THEN f.rows[n] ELSE NoRow]
  ELSE EmptyRows

ASSUME RegistryAssumption ==
  /\ MaxOps \in Nat
  /\ MaxFaults \in Nat
  /\ InitialFiles \subseteq File
  /\ \A f \in InitialFiles :
       /\ UniqueIndices(View(f))
       /\ f.env \in {"absent", "torn"} => f.rows = EmptyRows

\* The entry points: "list" is list_instances, get and used_indices; "check"
\* is assert_no_port_collision.
Mutators == {"add", "remove", "stealth", "reconcile"}
Calls ==
       [verb : {"list", "check", "remove"}, name : Names, kind : {"redroid"}, blob : {NoBlob}]
  \cup [verb : {"add", "reconcile"}, name : Names, kind : Kinds, blob : {NoBlob}]
  \cup [verb : {"stealth"}, name : Names, kind : {"redroid"}, blob : Blobs]
NoCall == [verb |-> "none"]

\* Mutant: set_stealth_paths does not look at the backend's kind.
BugOutcomes(c, t) ==
  CASE c.verb = "add"       -> {AddRow(t, c.name, c.kind, i) :
                                  i \in {j \in 0..MaxIndex : CanAdd(t, c.name, j)}}
    [] c.verb = "remove"    -> {RemoveRow(t, c.name)}
    [] c.verb = "stealth"   -> {u \in {SetStealth(t, c.name, c.blob)} : Present(t[c.name])}
    [] c.verb = "reconcile" -> {u \in {Reconcile(t, c.name, c.kind)} : CanReconcile(t, c.name, c.kind)}
    [] OTHER                -> {}

\* The table a call writes back, given the table it read; none when it raises
\* or returns early without writing.
Outcomes(c, t) ==
  CASE c.verb = "add"       -> {AddRow(t, c.name, c.kind, i) :
                                  i \in {j \in 0..MaxIndex : CanAdd(t, c.name, j)}}
    [] c.verb = "remove"    -> {RemoveRow(t, c.name)}
    [] c.verb = "stealth"   -> {u \in {SetStealth(t, c.name, c.blob)} : CanSetStealth(t, c.name)}
    [] c.verb = "reconcile" -> {u \in {Reconcile(t, c.name, c.kind)} : CanReconcile(t, c.name, c.kind)}
    [] OTHER                -> {}

VARIABLES
  file,     \* instances.json as every process sees it
  bak,      \* instances.json.bak
  disk,     \* the <<instances.json, .bak>> pairs a power loss may leave
  sh,       \* processes holding the lock file LOCK_SH
  ex,       \* processes holding it LOCK_EX
  pc,       \* where each process is in its call
  call,     \* the call it is making
  data,     \* the RegistryFile it has parsed or is writing
  synced,   \* its tmp file's data has reached the disk
  out,      \* how its last call ended
  allowed,  \* history: the rows a name may have, given the acknowledged calls
  ops,      \* calls made so far
  faults    \* faults so far

vars == <<file, bak, disk, sh, ex, pc, call, data, synced, out, allowed, ops, faults>>

shared == <<file, bak, disk, allowed>>
budget == <<ops, faults>>

Steps == {"idle", "exists", "lockSh", "migExists", "migRead", "lockEx",
          "initCheck", "initWrite", "readExists", "readText", "rename",
          "decide", "writeTmp", "fsyncTmp", "replace", "fsyncDir"}

Init ==
  /\ file \in InitialFiles
  /\ bak = Absent
  /\ disk = {<<file, bak>>}
  /\ sh = {} /\ ex = {}
  /\ pc = [p \in Procs |-> "idle"]
  /\ call = [p \in Procs |-> NoCall]
  /\ data = [p \in Procs |-> EmptyRows]
  /\ synced = [p \in Procs |-> FALSE]
  /\ out = [p \in Procs |-> "none"]
  /\ allowed = [n \in Names |-> {View(file)[n]}]
  /\ ops = 0 /\ faults = 0

-----------------------------------------------------------------------------
(* Steps of one call.                                                      *)

Goto(p, step) == pc' = [pc EXCEPT ![p] = step]

\* The call returns or raises; leaving the with block drops the flock.
Leave(p, how) ==
  /\ Goto(p, "idle")
  /\ call' = [call EXCEPT ![p] = NoCall]
  /\ data' = [data EXCEPT ![p] = EmptyRows]
  /\ synced' = [synced EXCEPT ![p] = FALSE]
  /\ out' = [out EXCEPT ![p] = how]
  /\ sh' = sh \ {p}
  /\ ex' = ex \ {p}

\* The file changes in the page cache; any subset of it may be on disk.
FileBecomes(f, b) ==
  /\ file' = f
  /\ bak' = b
  /\ disk' = disk \cup {<<f, b>>}

Start(p) ==
  /\ pc[p] = "idle" /\ ops < MaxOps
  /\ \E c \in Calls :
       /\ call' = [call EXCEPT ![p] = c]
       /\ Goto(p, IF c.verb = "list" THEN "exists" ELSE "lockEx")
  /\ out' = [out EXCEPT ![p] = "none"]
  /\ ops' = ops + 1
  /\ UNCHANGED <<shared, sh, ex, data, synced, faults>>

\* list_instances looks for the file before it takes any lock.
ListExists(p) ==
  /\ pc[p] = "exists"
  /\ \/ file.env = "absent" /\ Leave(p, "ok")
     \/ file.env # "absent" /\ Goto(p, "lockSh")
                            /\ UNCHANGED <<call, data, synced, out, sh, ex>>
  /\ UNCHANGED <<shared, budget>>

LockShared(p) ==
  /\ pc[p] = "lockSh" /\ ex = {}
  /\ sh' = sh \cup {p}
  /\ Goto(p, "migExists")
  /\ UNCHANGED <<shared, ex, call, data, synced, out, budget>>

\* _needs_legacy_migration: exists(), then read_text().
MigExists(p) ==
  /\ pc[p] = "migExists"
  /\ Goto(p, IF file.env = "absent" THEN "readExists" ELSE "migRead")
  /\ UNCHANGED <<shared, sh, ex, call, data, synced, out, budget>>

\* Mutant: a legacy file is read, and renamed, under the shared lock.
BugMigRead(p) ==
  /\ pc[p] = "migRead"
  /\ \/ file.env = "absent" /\ Leave(p, "crash")
     \/ /\ file.env # "absent"
        /\ Goto(p, "readExists")
        /\ UNCHANGED <<sh, ex, call, data, synced, out>>
  /\ UNCHANGED <<shared, budget>>

\* Mutant: the shared lock is still held while waiting for the exclusive one.
BugMigReadHolds(p) ==
  /\ pc[p] = "migRead"
  /\ \/ file.env = "absent" /\ Leave(p, "crash")
     \/ /\ file.env # "absent"
        /\ Goto(p, IF file.env = "v3" THEN "readExists" ELSE "lockEx")
        /\ UNCHANGED <<sh, ex, call, data, synced, out>>
  /\ UNCHANGED <<shared, budget>>

\* A file that needs the backup-rename is left to the exclusive lock: the
\* shared one is dropped first.
MigRead(p) ==
  /\ pc[p] = "migRead"
  /\ \/ file.env = "absent" /\ Leave(p, "crash")
     \/ /\ file.env \in {"torn", "legacy"}
        /\ Goto(p, "lockEx")
        /\ sh' = sh \ {p}
        /\ UNCHANGED <<ex, call, data, synced, out>>
     \/ /\ file.env = "v3"
        /\ Goto(p, "readExists")
        /\ UNCHANGED <<sh, ex, call, data, synced, out>>
  /\ UNCHANGED <<shared, budget>>

LockExclusive(p) ==
  /\ pc[p] = "lockEx" /\ sh = {} /\ ex = {}
  /\ ex' = {p}
  /\ Goto(p, "initCheck")
  /\ UNCHANGED <<shared, sh, call, data, synced, out, budget>>

\* _locked(exclusive=True): write_text truncates a missing file into being ...
InitCheck(p) ==
  /\ pc[p] = "initCheck"
  /\ \/ file.env # "absent" /\ Goto(p, "readExists") /\ UNCHANGED <<file, bak, disk>>
     \/ file.env = "absent" /\ Goto(p, "initWrite") /\ FileBecomes(Torn, bak)
  /\ UNCHANGED <<allowed, sh, ex, call, data, synced, out, budget>>

\* ... and then fills it.
InitWrite(p) ==
  /\ pc[p] = "initWrite"
  /\ FileBecomes(Doc(EmptyRows), bak)
  /\ Goto(p, "readExists")
  /\ UNCHANGED <<allowed, sh, ex, call, data, synced, out, budget>>

ReadExists(p) ==
  /\ pc[p] = "readExists"
  /\ \/ file.env = "absent" /\ Goto(p, "decide") /\ data' = [data EXCEPT ![p] = EmptyRows]
     \/ file.env # "absent" /\ Goto(p, "readText") /\ UNCHANGED data
  /\ UNCHANGED <<shared, sh, ex, call, synced, out, budget>>

ReadText(p) ==
  /\ pc[p] = "readText"
  /\ \/ file.env = "absent" /\ Leave(p, "crash")
     \/ /\ file.env # "absent" /\ ~Readable(file)
        /\ Goto(p, "rename")
        /\ UNCHANGED <<sh, ex, call, data, synced, out>>
     \/ /\ Readable(file)
        /\ Goto(p, "decide")
        /\ data' = [data EXCEPT ![p] = View(file)]
        /\ UNCHANGED <<sh, ex, call, synced, out>>
  /\ UNCHANGED <<shared, budget>>

\* _backup_and_warn: a file somebody else already moved is not an error.
Rename(p) ==
  /\ pc[p] = "rename"
  /\ \/ file.env = "absent" /\ UNCHANGED <<file, bak, disk>>
     \/ file.env # "absent" /\ FileBecomes(Absent, file)
  /\ Goto(p, "decide")
  /\ data' = [data EXCEPT ![p] = EmptyRows]
  /\ UNCHANGED <<allowed, sh, ex, call, synced, out, budget>>

\* The body of the critical section: compute the new table, or return without
\* writing (list, check, a reconcile with nothing to do, a raised error).
Decide(p) ==
  /\ pc[p] = "decide"
  /\ LET next == Outcomes(call[p], data[p])
     IN  \/ /\ next = {}
            /\ Leave(p, IF call[p].verb \in {"add", "stealth"} THEN "refused" ELSE "ok")
         \/ /\ \E t \in next : data' = [data EXCEPT ![p] = t]
            /\ Goto(p, "writeTmp")
            /\ UNCHANGED <<sh, ex, call, synced, out>>
  /\ UNCHANGED <<shared, budget>>

WriteTmp(p) ==
  /\ pc[p] = "writeTmp"
  /\ synced' = [synced EXCEPT ![p] = FALSE]
  /\ Goto(p, "fsyncTmp")
  /\ UNCHANGED <<shared, sh, ex, call, data, out, budget>>

\* Mutant: the tmp file is not fsynced before the rename (#203).
BugFsyncTmp(p) ==
  /\ pc[p] = "fsyncTmp"
  /\ Goto(p, "replace")
  /\ UNCHANGED <<shared, sh, ex, call, data, synced, out, budget>>

FsyncTmp(p) ==
  /\ pc[p] = "fsyncTmp"
  /\ synced' = [synced EXCEPT ![p] = TRUE]
  /\ Goto(p, "replace")
  /\ UNCHANGED <<shared, sh, ex, call, data, out, budget>>

\* os.replace.  A rename whose data blocks are not on disk may surface as an
\* empty file.
Replace(p) ==
  /\ pc[p] = "replace"
  /\ file' = Doc(data[p])
  /\ disk' = disk \cup {<<file', bak>>} \cup {s \in {<<Torn, bak>>} : ~synced[p]}
  /\ allowed' = [allowed EXCEPT ![call[p].name] = @ \cup {data[p][call[p].name]}]
  /\ Goto(p, "fsyncDir")
  /\ UNCHANGED <<bak, sh, ex, call, data, synced, out, budget>>

\* fsync of the parent directory, then the call returns: acknowledged.
FsyncDir(p) ==
  /\ pc[p] = "fsyncDir"
  /\ disk' = {<<file, bak>>} \cup {s \in {<<Torn, bak>>} : ~synced[p]}
  /\ allowed' = [allowed EXCEPT ![call[p].name] = {data[p][call[p].name]}]
  /\ Leave(p, "ok")
  /\ UNCHANGED <<file, bak, budget>>

-----------------------------------------------------------------------------
(* Faults.                                                                 *)

Fault == faults < MaxFaults /\ faults' = faults + 1

\* Writing or syncing the tmp file raises OSError (disk full): the finally
\* block unlinks the tmp file and the call raises with the registry untouched.
WriteError(p) ==
  /\ pc[p] \in {"writeTmp", "fsyncTmp"}
  /\ Leave(p, "refused")
  /\ Fault
  /\ UNCHANGED <<shared, ops>>

\* The process dies; the kernel drops its flock, and only a uniquely named tmp
\* file that nobody reads is left behind.
Kill(p) ==
  /\ pc[p] # "idle"
  /\ Leave(p, "none")
  /\ Fault
  /\ UNCHANGED <<shared, ops>>

PowerLoss ==
  /\ \E s \in disk : file' = s[1] /\ bak' = s[2]
  /\ disk' = {<<file', bak'>>}
  /\ allowed' = [n \in Names |-> {View(file')[n]}]
  /\ sh' = {} /\ ex' = {}
  /\ pc' = [p \in Procs |-> "idle"]
  /\ call' = [p \in Procs |-> NoCall]
  /\ data' = [p \in Procs |-> EmptyRows]
  /\ synced' = [p \in Procs |-> FALSE]
  /\ out' = [p \in Procs |-> "none"]
  /\ Fault
  /\ UNCHANGED ops

-----------------------------------------------------------------------------

Step(p) ==
  \/ ListExists(p) \/ LockShared(p) \/ MigExists(p) \/ MigRead(p)
  \/ LockExclusive(p) \/ InitCheck(p) \/ InitWrite(p)
  \/ ReadExists(p) \/ ReadText(p) \/ Rename(p) \/ Decide(p)
  \/ WriteTmp(p) \/ FsyncTmp(p) \/ Replace(p) \/ FsyncDir(p)

Next ==
  \/ \E p \in Procs : Start(p) \/ Step(p) \/ WriteError(p) \/ Kill(p)
  \/ PowerLoss

Spec == Init /\ [][Next]_vars

\* A running command is scheduled until its call returns.
FairSpec == Spec /\ \A p \in Procs : WF_vars(Step(p))

-----------------------------------------------------------------------------
(* Properties.                                                             *)

\* The types: every file state a power loss may leave and every table a call
\* holds is a RegistryFile, and each call is at one of its system calls.
TypeOK ==
  /\ file \in File /\ bak \in File
  /\ disk \subseteq File \X File
  /\ sh \subseteq Procs /\ ex \subseteq Procs
  /\ pc \in [Procs -> Steps]
  /\ call \in [Procs -> Calls \cup {NoCall}]
  /\ data \in [Procs -> Table]
  /\ synced \in [Procs -> BOOLEAN]
  /\ out \in [Procs -> {"none", "ok", "refused", "crash"}]
  /\ allowed \in [Names -> SUBSET Row]
  /\ ops \in 0..MaxOps /\ faults \in 0..MaxFaults

\* add_allocating hands every instance its own port index: whatever calls
\* overlap, are killed or lose power, no two registered names share one.
UniqueIndex == UniqueIndices(View(file))

\* A call that returned is on disk (#203): whichever state a power loss would
\* leave, each name has the row its last acknowledged call gave it, or that of
\* a later call that had not returned yet.
AckedDurable ==
  \A s \in disk, n \in Names : View(s[1])[n] \in allowed[n]

\* A row leaves instances.json only because "remove" was asked to, or by the
\* whole file moving to .bak, where it still is; it is never silently dropped
\* (#252).  Members that _read skips for not being objects are not rows.
RowsKept ==
  [][ PowerLoss \/ (bak' = file /\ file' = Absent) \/
      \A n \in Names :
        (file.rows[n].shape \notin {"none", "nodict"} /\ file'.rows[n].shape = "none")
          => \E p \in Procs : pc[p] = "replace" /\ call[p].verb = "remove" /\ call[p].name = n
    ]_vars

\* A call ends in FileNotFoundError only beside the quarantine of a current
\* file with a row that does not parse.
CrashExplained ==
  \A p \in Procs :
    out'[p] = "crash" => out[p] = "crash" \/ (bak.env = "v3" /\ ~Readable(bak))

\* No call fails because a sibling moved the file away under it
\* (_backup_and_warn: "rather than crashing an innocuous read command"), unless
\* what was moved is a current file with a row that does not parse: that one a
\* reader moves under the shared lock, beside other readers.
NeverCrashes == [][CrashExplained]_vars

\* A quarantined registry stays in instances.json.bak until the user deletes it.
BackupKept == [][PowerLoss \/ bak.env = "absent" \/ bak' = bak]_vars

\* The locks never leave every command waiting: a call that started ends.
CallsReturn == \A p \in Procs : pc[p] # "idle" ~> pc[p] = "idle"

\* The file protocol implements the atomic, crash-safe table of RegistryAbs.
Abs == INSTANCE RegistryAbs WITH
         reg <- View(file), durable <- {View(s[1]) : s \in disk}
ImplementsAbs == Abs!AbsSpec

=============================================================================
