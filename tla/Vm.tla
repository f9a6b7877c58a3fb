--------------------------------- MODULE Vm ---------------------------------
(***************************************************************************)
(* The QEMU micro-VM of one `binder: vm` instance: VmDeviceBackend         *)
(* (src/beetroot/backends/vm.py), the pidfile manager QemuProcess          *)
(* (vm/qemu.py) and the warm-start boot cache (vm/boot_cache.py), run by   *)
(* concurrent command-line processes that take no lock.                    *)
(*                                                                         *)
(* The host is a table of processes by pid.  A QEMU of this instance is    *)
(* `own`; other processes come and go and may be given a pid that the      *)
(* pidfile still names.  An overlay is a disk number (an inode: a QEMU     *)
(* that runs on it keeps it when the path is unlinked); a base is what     *)
(* base_identity digests: the artifacts' version and the geometry with the *)
(* accelerator.  Artifacts only move to versions that never were.          *)
(* The identity test of a pid and the signal that follows it are one step: *)
(* a pid is not recycled between two adjacent system calls.  Between the   *)
(* polls of a wait it may be.                                              *)
(***************************************************************************)
EXTENDS Integers

CONSTANTS
  Procs, Pids,
  Ports,        \* host adb ports beetroot.yaml may give this instance
  ElsePort,     \* the host adb port of another instance's QEMU
  NoPort,       \* QemuProcess(root) without a port: the orphan teardown
  Geos,         \* -smp, -m and accelerator
  Verbs,        \* the verbs the processes may run
  FirstYaml,    \* the config the instance was created with
  Edits,        \* what a user may make of beetroot.yaml ({}: deleted)
  MaxDisks,     \* bound: overlays made
  MaxCalls, MaxEdits, MaxRebuilds, MaxKills,
  MaxStrangers  \* bound: unrelated processes that appear

Config == [binder : {"vm", "host"}, port : Ports, geo : Geos, cache : BOOLEAN]
Bases  == (0..MaxRebuilds) \X Geos
NoBase == <<>>
NoSnap == [base |-> NoBase, done |-> FALSE]
Free   == [kind |-> "none", own |-> FALSE, port |-> NoPort, disk |-> 0,
           base |-> NoBase, from |-> NoBase, seen |-> NoBase, guest |-> "boot"]

ASSUME VmAssumption ==
  /\ Pids \subseteq Nat \ {0}
  /\ ElsePort \notin Ports /\ NoPort \notin Ports /\ NoPort # ElsePort
  /\ Verbs \subseteq {"up", "down", "restart", "apply", "destroy"}
  /\ FirstYaml \in Config /\ Edits \subseteq SUBSET Config
  /\ MaxDisks \in Nat /\ MaxRebuilds \in Nat
  /\ MaxCalls \in Nat /\ MaxEdits \in Nat /\ MaxKills \in Nat /\ MaxStrangers \in Nat

VARIABLES
  host,      \* the processes of the host, by pid
  yaml,      \* beetroot.yaml: {} or {config}
  row,       \* backend kind of the registry row, or "none"
  art,       \* version of the kernel and rootfs files
  pidfile,   \* qemu.pid: a pid, 0 when absent
  monitor,   \* the pid listening on the monitor socket, 0 when unlinked
  overlay,   \* disk at the overlay path, 0 when absent
  key,       \* identity sidecar of the overlay
  snap,      \* the snapshot inside each disk
  disks,     \* overlays made so far
  pc, verb, cfg, port, qpid, warm, retry, err, after,
  seen,      \* history: the identity overlay_is_stale compared
  reply,     \* what save_snapshot returned
  wrote,     \* history: savevm completed
  stopped,   \* history: the backend whose down or destroy returned and nothing was
             \* launched since, or "no"
  struck,    \* history: the processes that were signalled
  calls, edits, kills, strangers

files == <<pidfile, monitor, overlay, key, snap, disks>>
local == <<verb, cfg, port, qpid, warm, retry, err, after, seen>>
ghost == <<reply, wrote, stopped, struck>>
env   == <<yaml, row, art>>
count == <<calls, edits, kills, strangers>>
vars  == <<host, files, env, pc, local, ghost, count>>

Init ==
  /\ host = [q \in Pids |-> Free]
  /\ yaml = {FirstYaml} /\ row = "vm" /\ art = 0
  /\ pidfile = 0 /\ monitor = 0 /\ overlay = 0 /\ key = NoBase
  /\ snap = [d \in 1..MaxDisks |-> NoSnap] /\ disks = 0
  /\ pc = [p \in Procs |-> "idle"] /\ verb = [p \in Procs |-> "none"]
  /\ cfg = [p \in Procs |-> FirstYaml] /\ port = [p \in Procs |-> NoPort]
  /\ qpid = [p \in Procs |-> 0]
  /\ warm = [p \in Procs |-> FALSE] /\ retry = [p \in Procs |-> FALSE]
  /\ err = [p \in Procs |-> "none"] /\ after = [p \in Procs |-> "none"]
  /\ seen = [p \in Procs |-> NoBase]
  /\ reply = [p \in Procs |-> "none"] /\ wrote = [p \in Procs |-> FALSE]
  /\ stopped = "vm" /\ struck = {}
  /\ calls = 0 /\ edits = 0 /\ kills = 0 /\ strangers = 0

-----------------------------------------------------------------------------
(* The host.                                                               *)

Set(f, x, v) == f' = [f EXCEPT ![x] = v]
Go(p, step)  == Set(pc, p, step)
Qemus == {q \in Pids : host[q].kind = "qemu"}

\* Mutant: any QEMU will do.
BugPidIsQemu(p, q) == q \in Qemus

\* _pid_is_qemu: a live QEMU that forwards this instance's adb port; any QEMU
\* when the port is not known.
PidIsQemu(p, q) == q \in Qemus /\ (port[p] = NoPort \/ host[q].port = port[p])
IsRunning(p)    == PidIsQemu(p, pidfile)

\* base_identity, of the files as they are now and the config the process holds.
Ident(p) == <<art, cfg[p].geo>>

\* Mutant: the geometry is not part of the digest.
BugIsStale(p) == key = NoBase \/ key[1] # art

\* overlay_is_stale: a missing sidecar matches nothing.
IsStale(p) == key # Ident(p)

\* snapshot_present: a qemu-img that is missing, fails or cannot lock the disk
\* reads as no snapshot.
QemuImgSays(d) == IF d = 0 THEN {FALSE} ELSE {FALSE, snap[d] # NoSnap}

\* The guest behind an adb port has come up to one of the stages gs.
Reaches(p, gs) == \E q \in Qemus : host[q].port = cfg[p].port /\ host[q].guest \in gs

-----------------------------------------------------------------------------
(* A call, and how it ends.                                                *)

Start(p) ==
  /\ pc[p] = "idle" /\ calls < MaxCalls
  /\ \E v \in Verbs : Set(verb, p, v)
  /\ Go(p, "load") /\ calls' = calls + 1
  /\ Set(warm, p, FALSE) /\ Set(retry, p, FALSE) /\ Set(err, p, "none")
  /\ UNCHANGED <<host, files, env, cfg, port, qpid, after, seen, ghost, edits, kills, strangers>>

\* from_meta, and which step the verb begins with.
Load(p) ==
  /\ pc[p] = "load"
  /\ \/ /\ row = "vm" /\ yaml # {}
        /\ \E c \in yaml : Set(cfg, p, c) /\ Set(port, p, c.port)
        /\ \/ verb[p] = "up" /\ Go(p, "resolve") /\ UNCHANGED after
           \/ verb[p] = "apply" /\ Go(p, "stage") /\ UNCHANGED after
           \/ verb[p] = "down" /\ Go(p, "terminate") /\ Set(after, p, "idle")
           \/ verb[p] = "restart" /\ Go(p, "terminate") /\ Set(after, p, "resolve")
           \/ verb[p] = "destroy" /\ Go(p, "terminate") /\ Set(after, p, "remove")
     \/ /\ row = "none" \/ (row = "vm" /\ yaml = {} /\ verb[p] # "destroy")
        /\ Go(p, "idle") /\ UNCHANGED <<cfg, port, after>>
  /\ UNCHANGED <<host, files, env, verb, qpid, warm, retry, err, seen, ghost, count>>

\* A row that an apply has moved to redroid: the verb goes to Instance, whose
\* compose calls may fail and never look at the pidfile.  down reports success,
\* destroy goes on to the row and the directory, apply to the row.
LoadRedroid(p) ==
  /\ pc[p] = "load" /\ row = "redroid"
  /\ \E c \in IF yaml = {} THEN {cfg[p]} ELSE yaml : Set(cfg, p, c)
  /\ \/ verb[p] = "apply" /\ yaml # {} /\ Go(p, "reconcile") /\ UNCHANGED stopped
     \/ verb[p] = "destroy" /\ Go(p, "remove") /\ UNCHANGED stopped
     \/ /\ verb[p] = "down" /\ yaml # {} /\ Go(p, "idle")
        /\ stopped' = IF stopped = "no" THEN "redroid" ELSE stopped
     \/ Go(p, "idle") /\ UNCHANGED stopped
  /\ UNCHANGED <<host, files, env, verb, port, qpid, warm, retry, err, after, seen,
                 reply, wrote, struck, count>>

\* The command line's destroy of a vm row without a beetroot.yaml: any QEMU the
\* pidfile names is terminated, then the row and the directory go.
LoadOrphan(p) ==
  /\ pc[p] = "load" /\ row = "vm" /\ yaml = {} /\ verb[p] = "destroy"
  /\ Set(port, p, NoPort) /\ Go(p, "terminate") /\ Set(after, p, "remove")
  /\ UNCHANGED <<host, files, env, verb, cfg, qpid, warm, retry, err, seen, ghost, count>>

\* Mutant: a warm resume that failed is tried again as it is.
BugLaunchFailed(p, e) ==
  /\ Go(p, IF cfg[p].cache /\ warm[p] /\ e = "launch" THEN "start" ELSE "idle")
  /\ UNCHANGED <<warm, retry>>

\* A QemuLaunchError out of _launch: a warm resume falls back to one cold boot,
\* anything else ends the call.
LaunchFailed(p, e) ==
  IF cfg[p].cache /\ warm[p] /\ e = "launch"
  THEN Go(p, "discard") /\ Set(warm, p, FALSE) /\ Set(retry, p, TRUE)
  ELSE Go(p, "idle") /\ UNCHANGED <<warm, retry>>

-----------------------------------------------------------------------------
(* up: the boot cache.                                                     *)

\* up refuses a config that left the vm backend, an accelerator the host does
\* not have and an artifact that is missing.
Resolve(p) ==
  /\ pc[p] = "resolve"
  /\ \/ Go(p, "idle")
     \/ /\ cfg[p].binder = "vm"
        /\ Go(p, IF cfg[p].cache THEN "unlink" ELSE "start")
  /\ UNCHANGED <<host, files, env, local, ghost, count>>

UnlinkMonitor(p) ==
  /\ pc[p] = "unlink" /\ monitor' = 0 /\ Go(p, "check")
  /\ UNCHANGED <<host, pidfile, overlay, key, snap, disks, env, local, ghost, count>>

CheckStale(p) ==
  /\ pc[p] = "check" /\ Set(seen, p, Ident(p))
  /\ Go(p, IF overlay = 0 THEN "create" ELSE IF IsStale(p) THEN "discard" ELSE "present")
  /\ UNCHANGED <<host, files, env, verb, cfg, port, qpid, warm, retry, err, after,
                 ghost, count>>

\* An overlay that matches but holds no snapshot is dirty and discarded.
CheckPresent(p) ==
  /\ pc[p] = "present"
  /\ \E yes \in QemuImgSays(overlay) : Go(p, IF yes THEN "decide" ELSE "discard")
  /\ UNCHANGED <<host, files, env, local, ghost, count>>

DiscardOverlay(p) ==
  /\ pc[p] = "discard" /\ overlay' = 0 /\ Go(p, "discardKey")
  /\ UNCHANGED <<host, pidfile, monitor, key, snap, disks, env, local, ghost, count>>

DiscardKey(p) ==
  /\ pc[p] = "discardKey" /\ key' = NoBase /\ Go(p, "create")
  /\ UNCHANGED <<host, pidfile, monitor, overlay, snap, disks, env, local, ghost, count>>

\* qemu-img create makes a file, or empties the one that is there.  Only the
\* fallback calls it without asking whether the overlay exists.
CreateOverlay(p) ==
  /\ pc[p] = "create"
  /\ \/ overlay # 0 /\ ~retry[p] /\ Go(p, "decide") /\ UNCHANGED files
     \/ /\ \/ overlay = 0 /\ disks < MaxDisks
           \/ overlay # 0 /\ retry[p] /\ \A q \in Qemus : host[q].disk # overlay
        /\ overlay' = (IF overlay = 0 THEN disks + 1 ELSE overlay)
        /\ disks' = (IF overlay = 0 THEN disks + 1 ELSE disks)
        /\ snap' = [snap EXCEPT ![overlay'] = NoSnap]
        /\ Go(p, "record") /\ UNCHANGED <<pidfile, monitor, key>>
     \/ Go(p, "idle") /\ UNCHANGED files             \* qemu-img fails: raised
  /\ UNCHANGED <<host, env, local, ghost, count>>

\* record_identity: tmp file and os.replace, so the sidecar changes at once.
RecordIdentity(p) ==
  /\ pc[p] = "record" /\ key' = Ident(p)
  /\ Go(p, IF retry[p] THEN "start" ELSE "decide")
  /\ UNCHANGED <<host, pidfile, monitor, overlay, snap, disks, env, local, ghost, count>>

DecideWarm(p) ==
  /\ pc[p] = "decide"
  /\ \E yes \in QemuImgSays(overlay) : Set(warm, p, yes)
  /\ Go(p, "start")
  /\ UNCHANGED <<host, files, env, verb, cfg, port, qpid, retry, err, after, seen,
                 ghost, count>>

-----------------------------------------------------------------------------
(* QemuProcess.start, and the waits of up.                                 *)

\* A VM that is running is an error raised before the try block of _launch.
CheckRunning(p) ==
  /\ pc[p] = "start"
  /\ \/ ~IsRunning(p) /\ Go(p, "popen") /\ UNCHANGED <<warm, retry>>
     \/ IsRunning(p) /\ LaunchFailed(p, "launch")
  /\ UNCHANGED <<host, files, env, verb, cfg, port, qpid, err, after, seen, ghost, count>>

\* The disk a launch runs on: the overlay, or the raw rootfs (0).
Disk(p) == IF cfg[p].cache THEN overlay ELSE 0

\* External: QEMU exits at once when its adb port or its disk is taken, when the
\* overlay is gone, or when there is no snapshot to load.
Boots(p) ==
  /\ \A q \in Qemus : host[q].port # cfg[p].port
  /\ cfg[p].cache => /\ overlay # 0
                     /\ \A q \in Qemus : host[q].disk # overlay
                     /\ warm[p] => snap[overlay] # NoSnap

Machine(p) ==
  [kind |-> "qemu", own |-> TRUE, port |-> cfg[p].port, disk |-> Disk(p),
   base |-> Ident(p), from |-> IF warm[p] THEN snap[overlay].base ELSE NoBase,
   seen |-> seen[p], guest |-> IF warm[p] THEN "done" ELSE "boot"]

Popen(p) ==
  /\ pc[p] = "popen"
  /\ \/ /\ \E q \in {i \in Pids : host[i].kind = "none"} :
             /\ Set(qpid, p, q)
             /\ \/ /\ Boots(p) /\ Set(host, q, Machine(p)) /\ stopped' = "no"
                   /\ monitor' = IF cfg[p].cache THEN q ELSE IF monitor = q THEN 0 ELSE monitor
                \/ ~Boots(p) /\ UNCHANGED <<host, stopped, monitor>>
        /\ Go(p, "pidfile") /\ UNCHANGED <<warm, retry>>
     \/ LaunchFailed(p, "launch") /\ UNCHANGED <<host, qpid, monitor, stopped>>  \* OSError
  /\ UNCHANGED <<pidfile, overlay, key, snap, disks, env, verb, cfg, port, err, after,
                 seen, reply, wrote, struck, count>>

WritePidfile(p) ==
  /\ pc[p] = "pidfile" /\ pidfile' = qpid[p] /\ Go(p, "wait")
  /\ UNCHANGED <<host, monitor, overlay, key, snap, disks, env, local, ghost, count>>

\* _wait_for_adb_connect: attached.
Connected(p) ==
  /\ pc[p] = "wait" /\ Reaches(p, {"adb", "done"})
  /\ Go(p, IF cfg[p].cache /\ ~warm[p] THEN "booted" ELSE "idle")
  /\ UNCHANGED <<host, files, env, local, ghost, count>>

\* _wait_for_adb_connect raises: QEMU is gone, the deadline has passed, or
\* anything else (no adb, an interrupt).  up then terminates what it launched.
WaitFails(p) ==
  /\ pc[p] = "wait" /\ \E e \in {"launch", "other"} : Set(err, p, e)
  /\ Go(p, "terminate") /\ Set(after, p, "failed")
  /\ UNCHANGED <<host, files, env, verb, cfg, port, qpid, warm, retry, seen, ghost, count>>

\* Mutant: the checkpoint follows the adb attach.
BugWaitForBoot(p) ==
  /\ pc[p] = "booted" /\ Go(p, "save")
  /\ UNCHANGED <<host, files, env, local, ghost, count>>

\* _wait_for_boot_completed: read as 1, or the deadline has passed.
WaitForBoot(p) ==
  /\ pc[p] = "booted"
  /\ \/ Reaches(p, {"done"}) /\ Go(p, "save")
     \/ Go(p, "idle")
  /\ UNCHANGED <<host, files, env, local, ghost, count>>

\* Some QEMU still listens on the monitor socket.
Listening == monitor \in Qemus /\ host[monitor].own

\* save_snapshot: the QEMU that listens on the monitor writes its state into
\* the disk it runs on and prompts again; a reply that is late or an error
\* reads as failure; a connection closed by a QEMU that exits ends the read
\* with a reply that holds no error.
SaveSnapshot(p) ==
  /\ pc[p] = "save" /\ Go(p, "idle")
  /\ \/ /\ Listening
        /\ \E said \in {"true", "false"} : Set(reply, p, said)
        /\ Set(snap, host[monitor].disk,
               [base |-> host[monitor].base, done |-> host[monitor].guest = "done"])
        /\ Set(wrote, p, TRUE) /\ UNCHANGED host
     \/ /\ Set(reply, p, "false") /\ Set(wrote, p, FALSE) /\ UNCHANGED <<host, snap>>
     \/ /\ Listening /\ Set(host, monitor, Free)
        /\ Set(reply, p, "true") /\ Set(wrote, p, FALSE) /\ UNCHANGED snap
  /\ UNCHANGED <<pidfile, monitor, overlay, key, disks, env, local, stopped, struck, count>>

-----------------------------------------------------------------------------
(* terminate, and what follows it.                                         *)

\* SIGTERM to the recorded pid if it is this instance's QEMU, which exits or
\* does not.
Terminate(p) ==
  /\ pc[p] = "terminate"
  /\ \/ /\ IsRunning(p)
        /\ struck' = struck \cup {[own |-> host[pidfile].own, known |-> port[p] # NoPort]}
        /\ Set(qpid, p, pidfile) /\ Go(p, "grace")
        /\ Set(host, pidfile, Free) \/ UNCHANGED host
     \/ ~IsRunning(p) /\ Go(p, "unlinkPid") /\ UNCHANGED <<host, struck, qpid>>
  /\ UNCHANGED <<files, env, verb, cfg, port, warm, retry, err, after, seen,
                 reply, wrote, stopped, count>>

\* Mutant: a QEMU that ignores SIGTERM is left alone.
BugEscalate(p) ==
  /\ pc[p] = "grace" /\ Go(p, "unlinkPid")
  /\ UNCHANGED <<host, struck, files, env, local, reply, wrote, stopped, count>>

\* _escalate_if_alive: SIGKILL once the grace period is over, if the pid still
\* is this instance's QEMU.
Escalate(p) ==
  /\ pc[p] = "grace" /\ Go(p, "unlinkPid")
  /\ \/ ~PidIsQemu(p, qpid[p]) /\ UNCHANGED <<host, struck>>
     \/ /\ PidIsQemu(p, qpid[p]) /\ Set(host, qpid[p], Free)
        /\ struck' = struck \cup {[own |-> host[qpid[p]].own, known |-> port[p] # NoPort]}
  /\ UNCHANGED <<files, env, local, reply, wrote, stopped, count>>

UnlinkPidfile(p) ==
  /\ pc[p] = "unlinkPid" /\ pidfile' = 0
  /\ \/ /\ after[p] = "failed" /\ LaunchFailed(p, err[p]) /\ UNCHANGED stopped
     \/ /\ after[p] # "failed" /\ Go(p, after[p]) /\ UNCHANGED <<warm, retry>>
        /\ stopped' = "vm"
  /\ UNCHANGED <<host, monitor, overlay, key, snap, disks, env, verb, cfg, port, qpid,
                 err, after, seen, reply, wrote, struck, count>>

\* destroy: the row first, then the directory and every file in it.
RemoveRow(p) ==
  /\ pc[p] = "remove" /\ row' = "none" /\ Go(p, "rmtree")
  /\ UNCHANGED <<host, files, yaml, art, local, ghost, count>>

Rmtree(p) ==
  /\ pc[p] = "rmtree" /\ Go(p, "idle")
  /\ yaml' = {} /\ pidfile' = 0 /\ monitor' = 0 /\ overlay' = 0 /\ key' = NoBase
  /\ UNCHANGED <<host, snap, disks, row, art, local, ghost, count>>

\* apply reads beetroot.yaml once more; staging refuses a colliding port or
\* fails on the network; only a staging that succeeds reconciles the row with
\* the config's binder.
Stage(p) ==
  /\ pc[p] = "stage"
  /\ \/ yaml = {} /\ Go(p, "idle") /\ Set(err, p, "refused") /\ UNCHANGED <<cfg, port>>
     \/ /\ \E c \in yaml : Set(cfg, p, c) /\ Set(port, p, c.port)
        /\ \/ Go(p, "reconcile") /\ UNCHANGED err
           \/ Go(p, "idle") /\ \E e \in {"refused", "network"} : Set(err, p, e)
  /\ UNCHANGED <<host, files, env, verb, qpid, warm, retry, after, seen, ghost, count>>

Reconcile(p) ==
  /\ pc[p] = "reconcile" /\ Go(p, "idle")
  /\ row' = IF row = "none" THEN row ELSE IF cfg[p].binder = "vm" THEN "vm" ELSE "redroid"
  /\ UNCHANGED <<host, files, yaml, art, local, ghost, count>>

-----------------------------------------------------------------------------
(* The world: the user, the guests, the kernel, a kill of the command.     *)

Edit ==
  /\ edits < MaxEdits /\ row # "none" /\ edits' = edits + 1
  /\ \E y \in Edits : yaml' = y
  /\ UNCHANGED <<host, files, row, art, pc, local, ghost, calls, kills, strangers>>

Rebuild ==
  /\ art < MaxRebuilds /\ art' = art + 1
  /\ UNCHANGED <<host, files, yaml, row, pc, local, ghost, count>>

GuestBoots(q) ==
  /\ host[q].own /\ host[q].guest # "done"
  /\ Set(host, q, [host[q] EXCEPT !.guest = IF @ = "boot" THEN "adb" ELSE "done"])
  /\ UNCHANGED <<files, env, pc, local, ghost, count>>

Exits(q) ==
  /\ host[q].kind # "none" /\ Set(host, q, Free)
  /\ UNCHANGED <<files, env, pc, local, ghost, count>>

\* An unrelated process, or another instance's QEMU, takes a free pid.
Stranger(q) ==
  /\ host[q].kind = "none" /\ strangers < MaxStrangers /\ strangers' = strangers + 1
  /\ \E k \in {"other", "qemu"} : Set(host, q, [Free EXCEPT !.kind = k, !.port = ElsePort])
  /\ UNCHANGED <<files, env, pc, local, ghost, calls, edits, kills>>

Kill(p) ==
  /\ pc[p] # "idle" /\ kills < MaxKills /\ kills' = kills + 1 /\ Go(p, "idle")
  /\ UNCHANGED <<host, files, env, local, ghost, calls, edits, strangers>>

Step(p) ==
  \/ Load(p) \/ LoadRedroid(p) \/ LoadOrphan(p) \/ Resolve(p) \/ UnlinkMonitor(p)
  \/ CheckStale(p) \/ CheckPresent(p) \/ DiscardOverlay(p) \/ DiscardKey(p) \/ CreateOverlay(p)
  \/ RecordIdentity(p) \/ DecideWarm(p) \/ CheckRunning(p) \/ Popen(p) \/ WritePidfile(p) \/ Connected(p)
  \/ WaitFails(p) \/ WaitForBoot(p) \/ SaveSnapshot(p) \/ Terminate(p) \/ Escalate(p)
  \/ UnlinkPidfile(p) \/ RemoveRow(p) \/ Rmtree(p) \/ Stage(p) \/ Reconcile(p)

Next ==
  \/ \E p \in Procs : Start(p) \/ Step(p) \/ Kill(p)
  \/ Edit \/ Rebuild
  \/ \E q \in Pids : GuestBoots(q) \/ Exits(q) \/ Stranger(q)

\* A command that is running goes on: every wait in it has a deadline.
Spec == Init /\ [][Next]_vars /\ \A p \in Procs : WF_vars(Step(p))

-----------------------------------------------------------------------------
(* Properties.                                                             *)

Snaps    == [base : Bases \cup {NoBase}, done : BOOLEAN]
Machines == [kind : {"none", "other", "qemu"}, own : BOOLEAN,
             port : Ports \cup {ElsePort, NoPort}, disk : 0..MaxDisks,
             base : Bases \cup {NoBase}, from : Bases \cup {NoBase},
             seen : Bases \cup {NoBase}, guest : {"boot", "adb", "done"}]
Steps == {"idle", "load", "resolve", "unlink", "check", "present", "discard",
          "discardKey", "create", "record", "decide", "start", "popen", "pidfile",
          "wait", "booted", "save", "terminate", "grace", "unlinkPid", "remove",
          "rmtree", "stage", "reconcile"}

\* The files, the process table and the commands have their types: pidfile and
\* monitor name pids, the overlay a disk that was made.
TypeOK ==
  /\ host \in [Pids -> Machines]
  /\ yaml \in SUBSET Config /\ row \in {"vm", "redroid", "none"} /\ art \in 0..MaxRebuilds
  /\ pidfile \in Pids \cup {0} /\ monitor \in Pids \cup {0}
  /\ overlay \in 0..disks /\ disks \in 0..MaxDisks
  /\ key \in Bases \cup {NoBase} /\ snap \in [1..MaxDisks -> Snaps]
  /\ pc \in [Procs -> Steps] /\ verb \in [Procs -> Verbs \cup {"none"}]
  /\ cfg \in [Procs -> Config] /\ port \in [Procs -> Ports \cup {NoPort}]
  /\ qpid \in [Procs -> Pids \cup {0}]
  /\ warm \in [Procs -> BOOLEAN] /\ retry \in [Procs -> BOOLEAN]
  /\ err \in [Procs -> {"none", "launch", "other", "refused", "network"}]
  /\ after \in [Procs -> {"none", "idle", "resolve", "remove", "failed"}]
  /\ seen \in [Procs -> Bases \cup {NoBase}]
  /\ reply \in [Procs -> {"none", "true", "false"}] /\ wrote \in [Procs -> BOOLEAN]
  /\ stopped \in {"no", "vm", "redroid"} /\ struck \subseteq [own : BOOLEAN, known : BOOLEAN]
  /\ calls \in 0..MaxCalls /\ edits \in 0..MaxEdits /\ kills \in 0..MaxKills
  /\ strangers \in 0..MaxStrangers

\* However pids are recycled, pidfiles go stale and commands race, a command
\* that knows the adb port signals only QEMUs of its own instance
\* (_pid_is_qemu, terminate and _escalate_if_alive).
NeverSignalsStranger == \A s \in struck : s.known => s.own

\* A warm resume loads a snapshot that was taken on the kernel, rootfs,
\* geometry and accelerator its up compared the overlay with (_up_cached),
\* whatever was rebuilt, edited or killed in between: as long as commands follow
\* one another, or race while nothing is rebuilt and the geometry stays.
WarmMatches == \A q \in Pids : host[q].from # NoBase => host[q].from = host[q].seen

\* A checkpoint only ever holds a guest that had finished booting.
SnapshotsBooted == \A d \in 1..MaxDisks : snap[d] # NoSnap => snap[d].done

\* When a down, a destroy or the first half of a restart has ended that the vm
\* backend carried out, no QEMU of the instance is left (terminate), until the
\* next launch.
DownStops == stopped = "vm" => \A q \in Qemus : ~host[q].own

\* When a down has ended, whichever backend carried it out, no QEMU of the
\* instance is left: the code does not keep this once an apply has moved the
\* row of a running VM to redroid.
AnyDownStops == stopped # "no" => \A q \in Qemus : ~host[q].own

\* The overlay path holds the disk the recorded QEMU runs on: an up that is
\* refused because the VM is running, or that misreads the overlay, leaves the
\* running guest's disk alone.
LiveDiskKept ==
  \A q \in Qemus : host[q].own /\ host[q].disk # 0 /\ pidfile = q => overlay = host[q].disk

\* save_snapshot returns True only when savevm completed.
TrueMeansSaved == \A p \in Procs : reply[p] = "true" => wrote[p]

\* An apply that failed only on the network has moved the row to the backend
\* its config asks for.
ApplyReconciles ==
  \A p \in Procs : err[p] = "network" =>
    row = "none" \/ row = (IF cfg[p].binder = "vm" THEN "vm" ELSE "redroid")

\* Every command ends: each wait has a deadline and the cold fallback is tried
\* once, so a resume that fails cannot loop.
CommandsEnd == \A p \in Procs : pc[p] # "idle" ~> pc[p] = "idle"
=============================================================================
